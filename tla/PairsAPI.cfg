SPECIFICATION FairSpec
CONSTANTS
    Requests = {r1, r2}
    Exchanges = {binance}
    Pairs = {p1, p2}
    MaxStamp = 2
    MaxLate = 2
    None = None
CHECK_DEADLOCK FALSE
INVARIANTS
    TypeOK
    RepoOutlivesRequests
PROPERTIES
    Exits
    ImplementsRegister
