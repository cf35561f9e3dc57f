SPECIFICATION Spec
CONSTANTS
    p1 = p1
    p2 = p2
    Consumer = consumer
    NoRecord = NoRecord
    Producers <- TwoProducers
    Capacity = 4
    MaxOverflow = 1
    MaxTries = 2
    MaxCalls = 3
    Calls <- AllCalls
    AllowDrop = TRUE
    AllowOversized = TRUE
    AllowTimeout = TRUE
    SharedHandle = FALSE
    Unsealed <- NoneUnsealed
SYMMETRY Symmetry
INVARIANTS
    ProdSeqExact
    SlotOwnership
    LossIsLeak
PROPERTIES
    NoRollback
