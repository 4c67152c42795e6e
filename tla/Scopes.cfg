SPECIFICATION Spec
CONSTANTS
    MaxLocals = 3
    MaxBreaks = 1
    MaxStatements = 4
    MaxNest = 3
    MaxArity = 1
    CleanExits = TRUE
INVARIANTS
    TypeOK
    SlotsMatchLocals
    UpvaluesClosed
CHECK_DEADLOCK FALSE
