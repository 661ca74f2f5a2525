SPECIFICATION Spec
CONSTANTS
    Threads = {t1}
    Conns = {c1, c2}
    Nobody = Nobody
    Ops = {take}
    NoOp = NoOp
    QueueMax = 2
    MaxAnswers = 1
INVARIANT
    BusyShown
CHECK_DEADLOCK FALSE
