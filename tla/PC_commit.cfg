SPECIFICATION CursorSpec
CONSTANTS
    Size = 6
    HeaderSize = 2
    Lengths <- SomeLengths
    MaxWrites = 3
    MaxBatch = 2
    Blank = Blank
PROPERTIES
    CommitsPosition
