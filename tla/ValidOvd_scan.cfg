SPECIFICATION PipelineSpec
CONSTANTS
  NUMHOTREADS = 2
  Cpus <- TwoCpus
  Times <- FourTimes
  Traces <- MCTraces
  REFTOTAL = 2
  Processors <- TwoCpus
  AccessTimes <- FourTimes
  WSS = 3
  CHUNK = 1
  CACHESIZE = 4
  CacheOf <- OwnCache
  MaxPollution = 2
  DATAPOINTS = 5
  SBLOCK_SIZE = 2
  BLOCK_MUL = 3
  Unset = Unset
  Plans <- MCPlans
  MaxRuns = 2
  INT_MAX = 99
INVARIANTS
  TypeOK
  ReportedAreRight
  AllAreReported
  NothingLeaks
  OnePassIsRight
  ColdAccessesMiss
  HotAccessesHit
  CompleteTracesAreExact
  OverheadsAreDelays
