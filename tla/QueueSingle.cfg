SPECIFICATION Spec
CONSTANTS
    Worker = {w1}
    MaxWrites = 3
    MaxDepth = 2
    NewCount = 2
    ClaimCount = 1
    ScanCount = 20
    MaxRetries = 1
    Backoff <- OneDelay
    ClaimIdle = 2
    UpstreamTimeout = 1
    PrepTime = 0
    RedisPrompt = FALSE
    ReadTimesOut = FALSE
    Malformed = {2}
    Unstorable = {3}
    MaxFaults = 1
    MaxReloads = 1
    NoOne = NoOne
    Orphan = Orphan
INVARIANT PendingInStream
PROPERTY ImplementsContract
