SPECIFICATION Spec
CONSTANTS
    Worker = {w1}
    Fd = {1, 2}
    Ptr = {c1, c2}
    MaxUsers = 1
    ListenET = TRUE
    AcceptLimit = 1
    TimeoutOn = FALSE
    MaxConn = 2
    MaxSend = 1
    Hangup = {"fin"}
    MaxFail = 0
    MaxQueue = 2
INVARIANT Consistent
PROPERTIES AllAccepted HangupIsClosed
CHECK_DEADLOCK FALSE
