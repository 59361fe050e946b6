SPECIFICATION Spec
CONSTANTS
    Worker = {w1, w2}
    Fd = {1}
    Ptr = {c1}
    MaxUsers = 2
    ListenET = FALSE
    AcceptLimit = 50
    TimeoutOn = TRUE
    MaxConn = 2
    MaxSend = 1
    Hangup = {"fin", "rst"}
    MaxFail = 1
    MaxQueue = 2
SYMMETRY Symmetry
INVARIANTS TableOwns UserCountExact NothingLeaks NoneForgotten
CHECK_DEADLOCK FALSE
