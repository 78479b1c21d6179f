SPECIFICATION FairSpec
CONSTANTS
    a = a
    b = b
    c = c
    Node = {a, b, c}
    Entry = a
    Edge <- PairAndHelper
    Kind <- Mixed
    MaxCalls = 3
    MaxSteps = 3
    MaxFaults = 2
INVARIANTS RunTypeOK BudgetKept Lineage CallChain StepsInOrder
PROPERTIES ImplementsTeamControl EndsInTime CancelsWhatItLeft
CHECK_DEADLOCK FALSE
