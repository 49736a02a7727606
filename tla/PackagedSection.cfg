SPECIFICATION SameSpec
CONSTANTS
  Nil = Nil
  NilGuid = NilGuid
  HeaderSpace = HeaderSpace
  DefaultContext = DefaultContext
  Packages <- MCPackages
  SpaceKeys <- MCSpaceKeys
  RootJcids <- MCRootJcids
  MaxDepth = 5
  MaxFileNodes = 1
  MaxObjects = 5
  MaxAssetBytes = 1
  IndexLimit = 9
  MaxTotalAssetBytes = 1
  MaxFailures = 1
  MaxRequests = 2
INVARIANTS TypeOK OneIsCurrent MarksAreTrue SameIndex SameAnswers
PROPERTIES Terminates
CHECK_DEADLOCK FALSE
