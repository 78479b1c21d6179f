SPECIFICATION FairConnectorSpec
CONSTANTS
  r1 = r1  r2 = r2  laptop = laptop  rtA = rtA  rtB = rtB
  Request = {r1, r2}
  Runtime = {rtA}
  Device = {laptop}
  DeviceOf <- MCDeviceOf
  Matches <- MCMatches
  Sole = {}
  Team = {}
  Run = {}
  RunOf <- MCNone
  RunDevice <- MCNone
  Aware = {rtA}
  Projecting = {rtA}
  Lease = 1
  MaxAttempts = 2
  MaxChats = 1
  MaxOutputs = 1
  MaxHead = 9
  MaxErasures = 1
  Crashing = {}
  NoRuntime = NoRuntime
  NoRequest = NoRequest
PROPERTY EndedRequestIsPassed
CHECK_DEADLOCK FALSE
