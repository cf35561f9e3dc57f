SPECIFICATION FairDaemonSpec
CONSTANTS
    p1 = p1
    Consumer = daemon
    NoRecord = NoRecord
    Producers <- OneProducer
    Capacity = 2
    MaxOverflow = 2
    MaxTries = 1
    MaxCalls = 5
    Calls <- WriteCalls
    AllowDrop = FALSE
    AllowOversized = FALSE
    AllowTimeout = TRUE
    SharedHandle = TRUE
    Unsealed <- SecondUnsealed
    HighWatermark = 50
    MaxRecords = 2
    SeqModulus = 64
    AllowDiskError = TRUE
CHECK_DEADLOCK FALSE
INVARIANTS
    DaemonTypeOK
    DiskHoldsPrefixes
    NoErrorNoLoss
    OverflowKeepsNewest
PROPERTIES
    WriteReturns
    StopEndsDaemon
