SPECIFICATION Spec
CONSTANTS
    Data = {Nil}
    Nil = Nil
    Globals = {g}
    Undefined = Undefined
    Cells = {c1, c2, c3, c4, c5, c6, c7}
    NoCell = NoCell
    MaxFrames = 2
    MaxLocals = 3
    MaxStack = 6
    MaxArity = 1
    MaxClosures = 2
    MaxCaptures = 1
    MaxTemps = 3
    StackBound = 5
    ContinueOnError = TRUE
INVARIANT
    CalledUpvaluesLive
CHECK_DEADLOCK FALSE
