SPECIFICATION Spec
CONSTANTS
    p1 = p1
    p2 = p2
    Consumer = consumer
    NoRecord = NoRecord
    Producers <- OneProducer
    Capacity = 2
    MaxOverflow = 1
    MaxTries = 2
    MaxCalls = 2
    Calls <- WriteCalls
    AllowDrop = FALSE
    AllowOversized = FALSE
    AllowTimeout = FALSE
    SharedHandle = FALSE
    Unsealed <- NoneUnsealed
CHECK_DEADLOCK FALSE
INVARIANTS
    NoSilentLoss
