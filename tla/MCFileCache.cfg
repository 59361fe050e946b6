SPECIFICATION Spec
CONSTANTS
    Response = {r1, r2, r3}
    Path = {p1, p2}
    MaxLoad = 3
    MaxModify = 1
    Cleaning = TRUE
    LoadFails = TRUE
SYMMETRY Symmetry
INVARIANTS CacheSound NotStale HeldIsMapped
CHECK_DEADLOCK FALSE
