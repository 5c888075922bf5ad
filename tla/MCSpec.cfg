SPECIFICATION Spec
CONSTANTS
  BlockTokens = 4
  Bucket = 4
  NumBlocks = 4
  NumSlots = 2
  MaxBatch = 2
  MaxBatchedTokens = 4
  MaxInflight = 2
  Capacity = 2
  Drafter = "head"
  Width = 3
  Vocab = {1}
  Stop = 0
  EndThink <- Nothing
  Req <- MCReq
  Prompt <- MCPrompt
  MaxNew <- MCMaxNew
  ThinkCap <- MCThinkCap
  StopTexts = {2}
INVARIANTS KvExact StateExact EntryExact QueuedOrAnswered
