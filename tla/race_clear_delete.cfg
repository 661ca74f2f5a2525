SPECIFICATION Spec
CONSTANTS
    Pis = {p1, p2}
    LatePis = {}
    Expected = 2
    Workers = {w1, w2}
    NoWorker = NoWorker
    Events = {"take", "clear", "delete"}
    MaxTake = 1
    MaxShots = 1
INVARIANT
    ClearBacked
CHECK_DEADLOCK FALSE
