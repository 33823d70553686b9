SPECIFICATION FairSpec
CONSTANTS
    Request = {r1}
    Task = {t1, t2}
    FreshFor = {1, 2}
    Grace = 1
    UpstreamTimeout = 1
    StoreTime = 1
    SpawnTime = 1
    LockTtl = 4
    MaxFaults = 2
    NoOne = NoOne
    Orphan = Orphan
INVARIANTS SingleFlight CopyLifetime LockOwned
PROPERTIES HitIsRecent LockFreed
