SPECIFICATION Spec
CONSTANTS
    Pis = {p1, p2}
    LatePis = {}
    Expected = 2
    Workers = {w1}
    NoWorker = NoWorker
    Events = {"test", "clear", "clear-all", "delete", "fault"}
    MaxTake = 2
    MaxShots = 2
SYMMETRY Symmetry
PROPERTIES
    Custody
