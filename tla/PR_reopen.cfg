SPECIFICATION Spec
CONSTANTS
    Size = 6
    HeaderSize = 2
    Lengths <- SomeLengths
    MaxWrites = 2
    Blank = Blank
INVARIANTS
    Reopens
