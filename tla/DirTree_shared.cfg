SPECIFICATION Spec
CONSTANTS
    Mounts = {m1, m2}
    Dirs = {d1}
    Fresh = {k1, k2}
    Names = {x}
    NoKey = NoKey
    NoNode = NoNode
    MaxObjects = 6
    MaxCalls = 4
    Environment = {"fail"}
SYMMETRY Symmetry
INVARIANTS
    NeverLost
    TreeKeepsUp
