SPECIFICATION FairSpec
CONSTANTS
    Objects = {o1, o2, s1}
    Strings = {s1}
    MaxRoots = 3
INVARIANTS
    TypeOK
    NothingNeededFreed
    TriColour
    GrayOnce
    MarksCleared
    InternerLive
PROPERTIES
    GarbageFreed
    CollectionEnds
