SPECIFICATION Spec
CONSTANTS
    Worker = {w1}
    Fd = {1}
    Ptr = {c1}
    MaxUsers = 2
    ListenET = TRUE
    AcceptLimit = 50
    TimeoutOn = TRUE
    MaxConn = 2
    MaxSend = 1
    Hangup = {"fin"}
    MaxFail = 0
    MaxQueue = 2
PROPERTY AcceptedIsInserted
CHECK_DEADLOCK FALSE
