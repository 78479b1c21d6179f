SPECIFICATION Spec
CONSTANTS
  T1 = T1
  NoTurn = NoTurn
  Turns = {T1}
  ToolTurns = {T1}
  Kinds = {"long"}
  JobKinds = {"upload", "import"}
  Budget = 1
  MaxPosts = 1
  Faults = {"crash", "lost", "timeout", "rebuild"}
  MaxUpsets = 2
CHECK_DEADLOCK FALSE
INVARIANTS DeliverySound UploadSound
PROPERTIES OutboxDrains TaskCatchesUp
