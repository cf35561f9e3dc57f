SPECIFICATION FairSpec
CONSTANTS
    Size = 8
    HeaderSize = 2
    Lengths <- SomeLengths
    MaxWrites = 6
    Blank = Blank
INVARIANTS
    TypeOK
    LiveReadable
    ReturnedOrder
    FirstLapExact
PROPERTIES
    ReadAllTerminates
    ImplementsLog
