SPECIFICATION Spec
CONSTANTS
    Clients = {c1, c2, c3}
    NoClient = NoClient
    Failing = {"put"}
    Offered = {1, 2}
    MaxFailures = 1
    Word = 4
SYMMETRY Symmetry
INVARIANTS
    TypeOK
    OneWinner
PROPERTY
    VersionsRise
