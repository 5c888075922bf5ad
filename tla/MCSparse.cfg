SPECIFICATION Spec
CONSTANTS
  Budget = 1
  HasSsd = TRUE
  Row <- MCRow
  Prompt <- MCPrompt
  Capacity = 3
  B = 2
  MaxNew <- MCMaxNew
  MaxRunning = 2
  Frames = 5
  K = 1
  Groups = 1
  Window = 1
  Chunk = 2
  Sample = "g"
  MaxFaults = 1
INVARIANTS TypeOK RowExact EntryExact RefsCover AccountsExact WithinBudget
