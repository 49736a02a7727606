CONSTANTS
  k1 = k1
  k2 = k2
  v1 = v1
  v2 = v2
  b1 = b1
  Keys <- MCKeys
  Values <- MCValues
  Buckets <- MCBuckets
  BucketOf <- MCBucketOf
  KeyLength <- MCKeyLength
  ValueLength <- MCValueLength
  NoValue = NoValue
  Idle = Idle
  Blank = Blank
  PageHeader = 1
  RecordHeader = 1
  PageSize = 6
  CachePages = 1
  MaxPages = 2
SPECIFICATION FairSpec
INVARIANTS TypeOK CacheSound CommittedRecordsSurvive ChainsSound
PROPERTIES ImplementsKeyValueStore RequestsEnd
