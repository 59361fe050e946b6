SPECIFICATION Spec
CONSTANTS
    Caller = {c1, c2}
    Key = {k1}
    NoKey = NoKey
    Timing <- Timings
    BatchLimit = 2
    MaxId = 2
    MaxTime = 3
INVARIANTS TimersSound NotEarly
PROPERTIES RunsAll StopEnds
CHECK_DEADLOCK FALSE
