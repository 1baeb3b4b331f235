SPECIFICATION Spec
CONSTANTS
    Bytes = {0, 1}
    Zero = 0
    MaxLen = 2
    MaxVersion = 2
    Sizes = {1, 2}
    NoKey = NoKey
    Environment = {"chmod", "sparse", "remote", "blob", "resize", "metadata", "late", "get", "crash", "lookup"}
    MaxDisturbances = 2
INVARIANTS
    TypeOK
    PublishedWasAccepted
    FlushedIsPublished
    ViewIsLatest
