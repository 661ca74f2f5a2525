SPECIFICATION Spec
CONSTANTS
    Pis = {p1, p2}
    LatePis = {}
    Expected = 2
    Workers = {w1, w2}
    NoWorker = NoWorker
    Events = {"take", "test", "retry", "clear", "clear-all", "delete", "fault"}
    MaxTake = 1
    MaxShots = 2
INVARIANTS
    OneOperation
    TestClearBacked
PROPERTIES
    VerifiedWhenWritten
SYMMETRY Symmetry
