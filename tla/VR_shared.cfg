SPECIFICATION Spec
CONSTANTS
    p1 = p1
    p2 = p2
    Consumer = consumer
    NoRecord = NoRecord
    Producers <- TwoProducers
    Capacity = 2
    MaxOverflow = 1
    MaxTries = 1
    MaxCalls = 2
    Calls <- AllCalls
    AllowDrop = TRUE
    AllowOversized = TRUE
    AllowTimeout = FALSE
    SharedHandle = TRUE
    Unsealed <- FirstUnsealed
CHECK_DEADLOCK FALSE
INVARIANTS
    TypeOK
    SlotOwnership
    LossIsLeak
    AtMostOnce
    NoLostWakeup
    ProducerOrder
