SPECIFICATION Spec
CONSTANTS
    Clients = {c1, c2}
    NoClient = NoClient
    Failing = {"get"}
    Offered = {1, 2}
    MaxFailures = 1
    Word = 4
CHECK_DEADLOCK FALSE
INVARIANT
    OneWinner
