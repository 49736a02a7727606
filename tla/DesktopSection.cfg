SPECIFICATION SameSpec
CONSTANTS
  Nil = Nil
  NilGuid = NilGuid
  HeaderSpace = HeaderSpace
  Outside = Outside
  Sentinel = Sentinel
  Files <- MCFiles
  SpaceKeys <- MCSpaceKeys
  RootJcids <- MCRootJcids
  MaxFileNodes = 18
  MaxObjects = 3
  MaxAssetBytes = 2
  IndexLimit = 9
  MaxTotalAssetBytes = 3
  MaxLogFragments = 3
  MaxLogEntries = 7
  MaxListFragments = 2
  MaxNesting = 5
  MaxFailures = 1
  MaxRequests = 2
  MaxProperties = 3
  MaxSetDepth = 3
  MaxDataLength = 4
  WindowUnits = 2
INVARIANTS TablesAgree NothingUncommitted SpacesAreWhole ViewsAreWhole SameIndex SameAnswers
PROPERTIES IdentifiersStay Terminates
CHECK_DEADLOCK FALSE
