SPECIFICATION Spec
CONSTANTS
    Share = {s1}
    Job = {j1, j2}
    Member = {m1}
    Turn = {t1}
    Slot = {codex}
    SlotOf <- OneSlot
    Team = {j1, j2}
    CallLimit <- TwoCalls
    TimeLimit <- TimeForOne
    All = All
    None = None
    MaxGrants = 2
    MaxOutputs = 1
    MaxDay = 1
    MaxFaults = 1
INVARIANTS BrokerTypeOK SlotHeldByOne BooksKept AnsweredOnce
PROPERTIES SilentAfterOff
SYMMETRY Jobs
