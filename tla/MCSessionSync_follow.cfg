SPECIFICATION FairSpec
CONSTANTS
  Sockets = {s1, s2}
  NoSocket = NoSocket
  PageLimit = 1
  MaxSeq = 3
  MaxErase = 1
  MaxConnects = 1
  MaxClicks = 1
  MaxRecs = 2
  Faults = {"drop", "http", "ticket", "replay", "refused"}
  MaxFaults = 1
INVARIANTS TimelineSound OwnerMissesNothing WireComplete
PROPERTIES CatchesUp
CHECK_DEADLOCK FALSE
