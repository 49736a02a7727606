SPECIFICATION Spec
CONSTANTS
  Nil = Nil
  MaxDepth = 5
  ChunkUnits = 2
  SpillBudget = 2
  NoteBuffer = 3
  Sections <- MCSections
  StepSizes = {1, 2}
  MaxValueChars = 8
  MaxMathChars = 12
  MaxTableColumns = 3
  MaxFailures = 1
INVARIANTS HeldWithin SamePage SpillsReadBack
CHECK_DEADLOCK FALSE
