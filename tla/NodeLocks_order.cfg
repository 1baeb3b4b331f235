SPECIFICATION FairSpec
CONSTANTS
    Procs = {p1, p2}
    Tops = {d1}
    Others = {n1, n2}
    Factory = Factory
    NoProc = NoProc
CHECK_DEADLOCK FALSE
INVARIANTS
    TypeOK
    OrderKept
PROPERTY
    CallsReturn
