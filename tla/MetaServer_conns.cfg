SPECIFICATION Spec
CONSTANTS
    Conns = {c1, c2}
    NoConn = NoConn
    AuthHash = TRUE
    MaxID = 3
    IDBuffer = 1
    WriteBuffer = 1
    MaxVersion = 1
    Stalling = TRUE
    Kinds = {"get", "put", "auth", "badAuth", "error"}
    Word = 16
SYMMETRY Symmetry
CHECK_DEADLOCK FALSE
INVARIANTS
    TypeOK
    AuthGate
    Registered
