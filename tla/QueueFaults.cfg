SPECIFICATION FairSpec
CONSTANTS
    Worker = {w1, w2}
    MaxWrites = 1
    MaxDepth = 2
    NewCount = 2
    ClaimCount = 2
    ScanCount = 20
    MaxRetries = 1
    Backoff <- OneDelay
    ClaimIdle = 3
    UpstreamTimeout = 1
    PrepTime = 1
    RedisPrompt = FALSE
    ReadTimesOut = FALSE
    Malformed = {}
    Unstorable = {}
    MaxFaults = 2
    MaxReloads = 0
    NoOne = NoOne
    Orphan = Orphan
INVARIANTS NoSilentLoss ExclusiveSend BudgetWhilePending SendsBounded
PROPERTIES BackoffRespected ImplementsFairContract
