SPECIFICATION Spec
CONSTANTS
  NumBlocks = 4
  Capacity = 3
  StateBytes = 1
  DramBytes = 1
  Missing = Missing
  Rotten = Rotten
  NoSave = NoSave
  Key <- MCKey
  Kv <- MCKv
  State <- MCState
  MaxRunning = 2
  Request <- BothRequests
  Prompt <- WholePrompt
  Process <- TwoProcesses
  Tails = {"t"}
  Reply = "g"
  MaxReply <- NoReply
  Booting = {1, 2}
  Saves = {1}
  Training = {}
  MaxUpdates = 1
  MaxRot = 1
INVARIANTS BootedAsPrefilled
CHECK_DEADLOCK FALSE
