SPECIFICATION Spec
CONSTANTS
    Threads = {t1}
    Conns = {c1, c2}
    Nobody = Nobody
    Ops = {take, clear}
    NoOp = NoOp
    QueueMax = 2
    MaxAnswers = 0
INVARIANT
    IdleShown
CHECK_DEADLOCK FALSE
