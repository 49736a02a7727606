SPECIFICATION SameSpec
CONSTANTS
  None = None
  MaxNameChars = 5
  MaxPageGraphNodes = 4
  Inputs <- MCInputs
  Entries <- MCEntries
INVARIANTS NameIsFree CountsAgree UnderItsParent SameNotes
CHECK_DEADLOCK FALSE
