SPECIFICATION FairSpec
CONSTANTS
    MaxQueue = 3
    BatchSize = 2
    MaxRecords = 5
    MaxBusy = 2
    Task = {t1, t2}
    MaxFaults = 2
INVARIANTS
    Accounted
    InOrder
    OpenWhileUsed
    CleanShutdown
PROPERTIES
    RecordsSettle
    ShutdownEnds
