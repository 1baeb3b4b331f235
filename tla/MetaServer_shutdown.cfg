SPECIFICATION StallSpec
CONSTANTS
    Conns = {c1, c2}
    NoConn = NoConn
    AuthHash = FALSE
    MaxID = 3
    IDBuffer = 1
    WriteBuffer = 1
    MaxVersion = 1
    Stalling = TRUE
    Kinds = {"put"}
    Word = 16
CHECK_DEADLOCK FALSE
PROPERTY
    ShutdownReturns
