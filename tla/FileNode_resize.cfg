SPECIFICATION Spec
CONSTANTS
    Bytes = {0, 1}
    Zero = 0
    MaxLen = 2
    MaxVersion = 2
    Sizes = {0, 1, 2}
    NoKey = NoKey
    Environment = {"resize", "metadata"}
    MaxDisturbances = 2
INVARIANT
    PublishedBlobExists
