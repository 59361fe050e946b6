SPECIFICATION Spec
CONSTANTS
    Worker = {w1}
    Stopper = {s1, s2}
    Fd = {3}
    MaxLog = 1
INVARIANT StartSound
PROPERTIES LogsEnd StopIsSeen
CHECK_DEADLOCK FALSE
