SPECIFICATION FairSpec
CONSTANTS
  Modes = {"newOnly"}
  Root = Root
  None = None
  Batches <- MCBatches
  Found <- MCFound
  IncludeDeleted = FALSE
  MaxFaults = 1
  MaxSignals = 0
INVARIANT ReportReadsBack
