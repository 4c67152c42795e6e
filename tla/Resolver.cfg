SPECIFICATION Spec
CONSTANTS
    Names = {a, b, c}
    Global = Global
    MaxLocals = 3
    MaxUpvalues = 2
    MaxVariables = 3
    MaxFunctions = 4
    MaxDepth = 2
INVARIANTS
    TypeOK
    CapturedMarked
    UpvaluesDistinct
PROPERTY
    ImplementsLexicalScope
CHECK_DEADLOCK FALSE
