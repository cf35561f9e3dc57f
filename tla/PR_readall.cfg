SPECIFICATION Spec
CONSTANTS
    Size = 6
    HeaderSize = 2
    Lengths <- SomeLengths
    MaxWrites = 4
    Blank = Blank
PROPERTIES
    ReadAllComplete
