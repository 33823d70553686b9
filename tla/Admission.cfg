SPECIFICATION FairSpec
CONSTANTS
    Address = {c1, c2, p1}
    Client = {c1}
    Trusted = {p1}
    Garbage = Garbage
    MaxHops = 2
    Limit = 1
    Window = 3
    Production = {TRUE, FALSE}
    Request = {r1, r2}
    Key = {k1}
    MaxBody = 1
    Chunk = {1, 2}
    MaxSent = 1
    MaxFaults = 1
INVARIANTS
    TypeOK
    LimitPerClient
    SlidingBound
    NoVoidCredential
PROPERTIES
    LimitLifts
    RequestsEnd
