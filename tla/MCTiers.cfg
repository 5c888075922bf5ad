SPECIFICATION Spec
CONSTANTS
  NumBlocks = 4
  Capacity = 3
  StateBytes = 1
  DramBytes = 1
  Missing = Missing
  Rotten = Rotten
  NoSave = NoSave
  Key <- MCKey
  Kv <- MCKv
  State <- MCState
  MaxRunning = 2
  Request <- MCRequest
  Prompt <- MCPrompt
  Process <- MCProcess
  Tails = {"t"}
  Reply = "g"
  MaxReply <- MCMaxReply
  Booting = {2, 3}
  Saves = {5}
  Training = {1}
  MaxUpdates = 1
  MaxRot = 1
INVARIANTS TypeOK RowExact EntryServes AccountsExact TiersInOrder BootWhole HeadNotStuck
PROPERTIES SavesPrefills
CHECK_DEADLOCK FALSE
