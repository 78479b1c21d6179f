SPECIFICATION Spec
CONSTANTS
  Sockets = {s1, s2}
  NoSocket = NoSocket
  PageLimit = 1
  MaxSeq = 3
  MaxErase = 1
  MaxConnects = 1
  MaxClicks = 0
  MaxRecs = 2
  Faults = {"drop", "overlap"}
  MaxFaults = 2
INVARIANTS OwnerMissesNothing
CHECK_DEADLOCK FALSE
