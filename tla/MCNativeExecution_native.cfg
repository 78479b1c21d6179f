SPECIFICATION FairSpec
CONSTANTS
    s1 = s1
    s2 = s2
    Session = {s1, s2}
    Request = {1, 3}
    SessionOf <- Home
    Limit = 1
    Erasable = {s1}
    MaxEnds = 1
    MaxCrashes = 1
    MaxFaults = 1
    NoRequest = NoRequest
    NoSession = NoSession
INVARIANTS JournalTrue EvidenceKept WithinCapacity
PROPERTIES HoldUntilExit ExitIsReported
CHECK_DEADLOCK FALSE
