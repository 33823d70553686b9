SPECIFICATION FairSpec
CONSTANTS
    Worker = {w1}
    MaxWrites = 1
    MaxDepth = 2
    NewCount = 2
    ClaimCount = 2
    ScanCount = 20
    MaxRetries = 1
    Backoff <- OneDelay
    ClaimIdle = 2
    UpstreamTimeout = 1
    PrepTime = 0
    RedisPrompt = TRUE
    ReadTimesOut = TRUE
    Malformed = {}
    Unstorable = {}
    MaxFaults = 0
    MaxReloads = 0
    NoOne = NoOne
    Orphan = Orphan
PROPERTY PromisesSettle
