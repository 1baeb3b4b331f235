SPECIFICATION FairSpec
CONSTANTS
    Keys = {k1, k2}
    Callers = {c1, c2}
    FastKinds = {"memory", "disk"}
    SlowKinds = {"memory", "disk"}
    Capacity = 1
    MaxFailures = 2
    NoKey = NoKey
INVARIANTS
    TypeOK
    AckedNotForgotten
PROPERTIES
    AckedIsTaken
    PutReturnsUnlessStuck
