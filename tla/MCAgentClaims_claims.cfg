SPECIFICATION MCSpec
CONSTANTS
  r1 = r1  r2 = r2  laptop = laptop  desk = desk  rtA = rtA  rtB = rtB  g1 = g1
  Request = {r1, r2}
  Runtime = {rtA}
  Device = {laptop, desk}
  DeviceOf <- MCDeviceOf
  Matches <- MCMatches
  Sole = {}
  Team = {r1}
  Run = {g1}
  RunOf <- MCRunOf
  Watched = g1
  RunDevice <- MCRunDevice
  Aware = {rtA}
  Lease = 1
  MaxAttempts = 2
  MaxChats = 1
  MaxOutputs = 1
  MaxHead = 3
  MaxErasures = 1
  NoRuntime = NoRuntime
  NoRequest = NoRequest
INVARIANTS TypeOK SlotExclusive ClaimMatchesLog PendingHeld
PROPERTIES ImplementsContract NoGrantOverTeamTurn RunImplementsTeamControl
