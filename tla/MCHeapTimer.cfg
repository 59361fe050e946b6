CONSTANTS
    k1 = k1
    NoKey = NoKey
    Key <- Keys
    Timeout <- Timeouts
    Repeat <- Repeats
    Res = 2
    MaxId = 6
    MaxTime = 2
    MayThrow = TRUE
    Limit = 2
    Requests <- RequestsById
SPECIFICATION Spec
INVARIANTS HeapSound TablesInStep
PROPERTIES Implements EveryTimerFires
