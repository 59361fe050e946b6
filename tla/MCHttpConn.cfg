SPECIFICATION Spec
CONSTANTS
    Script <- Scripts
    Missing <- NoFile
    Denied <- NoRight
    Empty <- NoByte
    HeadLen = 2
    FileLen = 2
    SendBuf = 3
    MaxTask = 2
    MaxSegment = 2
INVARIANTS OutputSound Served
PROPERTIES NoTaskAdded NothingStuck
CHECK_DEADLOCK FALSE
