SPECIFICATION Spec
CONSTANTS
    Mounts = {m1, m2}
    Attrs = {a, b}
    Tags = {1}
    MaxVersion = 2
    MaxLosses = 0
    ListenerInLoop = FALSE
    Word = 16
SYMMETRY Symmetry
INVARIANT
    ConnectedKeepUpToDate
