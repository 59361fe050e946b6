SPECIFICATION Spec
CONSTANTS
    Worker = {w1, w2}
    Conn = {c1, c2}
    Name <- Names
    Password <- Passwords
    PlainName <- PlainNames
    PlainPassword <- PlainPasswords
    Folded <- Collation
    MaxCalls = 3
    ConnectFails = TRUE
    SqlFails = TRUE
SYMMETRY Symmetry
INVARIANTS PoolSound LoginHonest OnceAWorker
CHECK_DEADLOCK FALSE
