SPECIFICATION Spec
CONSTANTS
    Conns = {c1, c2, c3}
    NoConn = NoConn
    AuthHash = FALSE
    MaxID = 3
    IDBuffer = 1
    WriteBuffer = 1
    MaxVersion = 1
    Stalling = FALSE
    Kinds = {"put"}
    Word = 16
SYMMETRY Symmetry
CHECK_DEADLOCK FALSE
INVARIANT
    FanoutComplete
