SPECIFICATION Spec
CONSTANTS
    Pis = {p1, p2}
    LatePis = {p1}
    Expected = 2
    Workers = {w1, w2}
    NoWorker = NoWorker
    Events = {"take", "retry", "clear", "fault"}
    MaxTake = 1
    MaxShots = 1
PROPERTIES
    RequestEnds
CHECK_DEADLOCK FALSE
