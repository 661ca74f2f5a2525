SPECIFICATION Spec
CONSTANTS
    Pis = {p1, p2}
    LatePis = {}
    Expected = 2
    Workers = {w1}
    NoWorker = NoWorker
    Events = {"take", "test", "retry", "clear", "clear-all", "delete", "fault", "damage"}
    MaxTake = 2
    MaxShots = 2
INVARIANTS
    TypeOK
    ClearBacked
    VerifiedIsThisTake
SYMMETRY Symmetry
