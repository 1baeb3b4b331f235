SPECIFICATION FairSpec
CONSTANTS
    Keys = {k1, k2}
    Callers = {c1, c2}
    FastKinds = {"disk"}
    SlowKinds = {"disk"}
    Capacity = 1
    MaxFailures = 2
    NoKey = NoKey
PROPERTY PutReturns
