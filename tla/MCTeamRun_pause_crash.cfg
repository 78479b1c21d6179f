SPECIFICATION Spec
CONSTANTS
    a = a
    b = b
    c = c
    Node = {a, b}
    Entry = a
    Edge <- PairEdge
    Kind <- OnlyShared
    MaxCalls = 2
    MaxSteps = 3
    MaxFaults = 1
INVARIANTS
    PauseIsNotFailure
CHECK_DEADLOCK FALSE
