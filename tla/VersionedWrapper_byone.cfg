SPECIFICATION Spec
CONSTANTS
    Clients = {c1, c2}
    NoClient = NoClient
    Failing = {}
    Offered = {1, 2, 3}
    MaxFailures = 0
    Word = 4
PROPERTY
    VersionsByOne
