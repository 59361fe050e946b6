SPECIFICATION Spec
CONSTANTS
    Worker = {w1, w2}
    Producer = {p1, p2}
    Task = {t1, t2, t3}
    MaxShutdown = 2
INVARIANTS TypeOK ActiveExact StartOrder NoLostWakeup GracefulIsTrue
PROPERTIES EveryTaskRuns ShutdownEnds
CHECK_DEADLOCK FALSE
