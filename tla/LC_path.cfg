SPECIFICATION Spec
CONSTANTS
    t1 = t1
    t2 = t2
    pathA = pathA
    pathB = pathB
    TempPath = temp
    Nobody = nobody
    Callers <- TwoCallers
    Paths <- TwoPaths
    Bindings <- BothBindings
    Leftover = {temp}
    MaxCalls = 2
CHECK_DEADLOCK FALSE
INVARIANTS
    TempReplaced
