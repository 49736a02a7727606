SPECIFICATION FairSpec
CONSTANTS
  Modes = {"newOnly"}
  Root = Root
  None = None
  Batches <- MCBatches
  Found <- MCFound
  IncludeDeleted = FALSE
  MaxFaults = 0
  MaxSignals = 1
INVARIANT InterruptedNoteRemoved
