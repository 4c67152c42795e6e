SPECIFICATION Spec
CONSTANTS
    UINT8_COUNT = 3
    Sources <- MCSources
INVARIANTS
    TypeOK
    CodeMeansTree
    
    InstructionsListed
PROPERTY
    CompileReturns
CHECK_DEADLOCK FALSE
