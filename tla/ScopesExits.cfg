SPECIFICATION Spec
CONSTANTS
    MaxLocals = 3
    MaxBreaks = 1
    MaxStatements = 4
    MaxNest = 2
    MaxArity = 1
    CleanExits = FALSE
INVARIANTS
    SlotsMatchLocals
CHECK_DEADLOCK FALSE
