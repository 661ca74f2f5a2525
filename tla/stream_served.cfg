SPECIFICATION Spec
CONSTANTS
    Threads = {t1, t2, t3}
    Conns = {c1}
    Nobody = Nobody
    Ops = {take}
    NoOp = NoOp
    QueueMax = 1
    MaxAnswers = 1
INVARIANTS
    TypeOK
    BusyShownUnlessMisled
    PoisonedUnlessFilled
PROPERTIES
    DroppedReconnects
CHECK_DEADLOCK FALSE
