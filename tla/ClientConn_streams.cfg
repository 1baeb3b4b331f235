SPECIFICATION FairSpec
CONSTANTS
    Word = 11
    VersionCells = 2
    Senders = {s1, s2}
    Receiver = r
    Messages <- MCMessages
    Replies <- MCReplies
    NumConns = 2
    MaxSends = 2
    MaxFailures = 1
CHECK_DEADLOCK FALSE
INVARIANTS
    TypeOK
    WholeMessages
PROPERTIES
    WholeNeverPanics
    StaleReaderFreed
