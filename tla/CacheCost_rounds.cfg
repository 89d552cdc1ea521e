SPECIFICATION FairPageSpec
CONSTANTS
  ARENA_SIZE = 9
  Sizes <- SomeSizes
  INT_MAX = 31
  CacheSizes <- Caches
  NumCpus = 2
  SampleCounts <- OneOrNone
  SleepMin = 2
  SleepMax = 3
  NsecPerUsec = 22
  NsecPerSec = 22
  Repetitions = 2
  INTSIZE = 2
  INTS_IN_1KB = 1
  PAGESIZE = 2
  Unset = Unset
  NoFrame = NoFrame
INVARIANTS
  InsideArena
  NoReuse
  ColdIsColdHotIsHot
  RowsNameTheirCpus
  KindsAreEven
PROPERTIES
  AddressesAreOwn
  Ends
