SPECIFICATION Spec
CONSTANTS
    Sessions = {s1}
    Settings <- MCSettings
    Default <- Full
    AutoExposure = AutoExposure
    None = None
    CacheSize = 3
    Window = 2
    Copies = 2
    MaxMessages = 4
INVARIANTS
    TypeOK
    Once
    FixedExposure
    Warm
    CapturedStays
PROPERTIES LoopReturns
CHECK_DEADLOCK FALSE
