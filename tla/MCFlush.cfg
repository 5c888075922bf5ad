SPECIFICATION Spec
CONSTANTS
  BlockTokens = 2
  Bucket = 4
  NumBlocks = 4
  NumSlots = 2
  MaxBatch = 2
  MaxBatchedTokens = 4
  MaxInflight = 2
  Capacity = 2
  Drafter = "none"
  Width = 1
  Vocab = {1}
  Stop = 0
  EndThink <- Nothing
  Req <- MCReq
  Prompt <- MCPrompt
  MaxNew <- MCMaxNew
  ThinkCap <- MCThinkCap
  StopTexts = {}
  Keys <- MCKeys
INVARIANT EvictionAdmits
