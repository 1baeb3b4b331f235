SPECIFICATION FairSpec
CONSTANTS
    Mounts = {m1, m2}
    Attrs = {a}
    Tags = {1}
    MaxVersion = 1
    MaxLosses = 1
    ListenerInLoop = TRUE
    Word = 16
PROPERTY
    NotificationsHandled
