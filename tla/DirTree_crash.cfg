SPECIFICATION Spec
CONSTANTS
    Mounts = {m1}
    Dirs = {d1, d2}
    Fresh = {k1, k2}
    Names = {x, y}
    NoKey = NoKey
    NoNode = NoNode
    MaxObjects = 4
    MaxCalls = 3
    Environment = {"rmdir", "rename", "fail", "window", "crash"}
SYMMETRY Symmetry
INVARIANTS
    TypeOK
    NeverLost
    NoDanglingEntry
    TreeIsSaved
