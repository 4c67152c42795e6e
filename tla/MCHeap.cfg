SPECIFICATION Spec
CONSTANTS
    Objects = {o1, o2, o3, o4}
    Contents = {c1, c2}
    Nil = Nil
    Globals = {g}
    MaxStack = 3
    MaxPieces = 2
    MaxCaptures = 1
    MaxNesting = 3
    Programs <- MCPrograms
    KeepsOperands = TRUE
SYMMETRY Symmetry
INVARIANTS
    TypeOK
    NoDangling
    CompilationKept
    NativeNamesLive
    StringsInterned
PROPERTY
    TemporariesPopped
CHECK_DEADLOCK FALSE
