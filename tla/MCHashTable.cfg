SPECIFICATION FairSpec
CONSTANTS
    k1 = k1
    k2 = k2
    k3 = k3
    k4 = k4
    Keys <- MCKeys
    Vals = {Nil, True}
    Nil = Nil
    True = True
    Null = Null
    NoOp = NoOp
    NoResult = NoResult
    Hash <- MCHash
    MinCapacity = 4
    MaxCapacity = 16
INVARIANTS
    TypeOK
    CountOK
    LoadBounded
    ProbeWithinLap
    Reachable
PROPERTIES
    ImplementsDict
    CallsReturn
