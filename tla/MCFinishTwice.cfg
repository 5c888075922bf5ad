SPECIFICATION Spec
CONSTANTS
  BlockTokens = 2
  Bucket = 4
  NumBlocks = 3
  NumSlots = 2
  MaxBatch = 2
  MaxBatchedTokens = 4
  MaxInflight = 2
  Capacity = 2
  Drafter = "head"
  Width = 2
  Vocab = {1, 2}
  Stop = 0
  EndThink <- Nothing
  Req <- MCReq
  Prompt <- MCPrompt
  MaxNew <- MCMaxNew
  ThinkCap <- MCThinkCap
  StopTexts = {}
INVARIANT StoreHoldsItsBlocks
