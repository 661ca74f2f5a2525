SPECIFICATION Spec
CONSTANTS
    Pis = {p1, p2}
    Expected = 2
    Nobody = Nobody
    Retired = p3
    Healths <- MCHealths
    Sound <- MCSound
    MaxSets = 1
    MaxEvents = 1
    MaxReading = 3
INVARIANTS
    TypeOK
    CredentialsFirst
    MemoryIsDisk
    FiredAsReported
    ArmedCanCapture
    PreflightAgrees
    TriageTells
    ExposureFits
PROPERTIES
    VerdictSettles
