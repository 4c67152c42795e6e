SPECIFICATION Spec
CONSTANTS
    Objects = {o1, o2, o3}
    Contents = {c1, c2}
    Nil = Nil
    Globals = {g}
    MaxStack = 3
    MaxPieces = 2
    MaxCaptures = 1
    MaxNesting = 1
    Programs <- MCIndexing
    KeepsOperands = FALSE
SYMMETRY Symmetry
INVARIANTS
    NoDangling
CHECK_DEADLOCK FALSE
