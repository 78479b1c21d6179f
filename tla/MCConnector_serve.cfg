SPECIFICATION FairConnectorSpec
CONSTANTS
  r1 = r1  r2 = r2  laptop = laptop  rtA = rtA  rtB = rtB
  Request = {r1}
  Runtime = {rtA, rtB}
  Device = {laptop}
  DeviceOf <- MCDeviceOf
  Matches <- MCMatches
  Sole = {}
  Team = {}
  Run = {}
  RunOf <- MCNone
  RunDevice <- MCNone
  Aware = {rtA}
  Projecting = {rtA}
  Lease = 1
  MaxAttempts = 2
  MaxChats = 1
  MaxOutputs = 2
  MaxHead = 9
  MaxErasures = 2
  Crashing = {rtB}
  NoRuntime = NoRuntime
  NoRequest = NoRequest
INVARIANTS HeardInOrder ErasureComplete
PROPERTIES EventuallySettled
CHECK_DEADLOCK FALSE
