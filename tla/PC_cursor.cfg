SPECIFICATION FairCursorSpec
CONSTANTS
    Size = 4
    HeaderSize = 2
    Lengths <- SomeLengths
    MaxWrites = 3
    MaxBatch = 2
    Blank = Blank
INVARIANTS
    CursorTypeOK
    CursorContiguous
    LogsOncePerThread
PROPERTIES
    NextReturnsInLap
    AtEndInLap
    NoBatchDropped
