SPECIFICATION Spec
CONSTANTS
  BlockTokens = 4
  Bucket = 4
  NumBlocks = 4
  NumSlots = 1
  MaxBatch = 1
  MaxBatchedTokens = 4
  MaxInflight = 1
  Capacity = 1
  Drafter = "block"
  Width = 3
  Vocab = {1}
  Stop = 0
  EndThink <- MCEndThink
  Req <- MCReq
  Prompt <- MCPrompt
  MaxNew <- MCMaxNew
  ThinkCap <- MCThinkCap
  StopTexts = {}
INVARIANT StateExact
