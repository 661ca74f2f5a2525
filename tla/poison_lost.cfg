SPECIFICATION Spec
CONSTANTS
    Threads = {t1, t2}
    Conns = {c1, c2}
    Nobody = Nobody
    Ops = {take, clear}
    NoOp = NoOp
    QueueMax = 2
    MaxAnswers = 0
INVARIANT
    DroppedIsPoisoned
CHECK_DEADLOCK FALSE
