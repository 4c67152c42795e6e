SPECIFICATION Spec
CONSTANT Sources <- MCSources
INVARIANTS
    TypeOK
    StringsMean

    
CHECK_DEADLOCK FALSE
