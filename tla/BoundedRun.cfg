SPECIFICATION FairSpec
CONSTANTS
  Modes = {"newOnly", "overwrite", "dryRun"}
  Root = Root
  None = None
  Batches <- MCBatches
  Found <- MCFound
  IncludeDeleted = FALSE
  MaxFaults = 3
  MaxSignals = 2
INVARIANTS RecordedOnDisk NoPathTwice NothingLeft DescriptorOutlives ReportAccounts ZeroMeansAll OneNoteAfterInterrupt
PROPERTIES FinishedFilesStay Terminates
