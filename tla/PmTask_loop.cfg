SPECIFICATION FairSpec
CONSTANTS
  DATAPOINTS = 4
  REFTOTAL = 2
  WSCycle = 2
  TaskPeriod = 1
  SIMRUNTIME = 2
  NumCpus = 2
  Times <- OneTime
  CliMasks <- MasksOrNot
  Garbage = Garbage
  MaxJob = 2
  MaxSched = 4
INVARIANTS
  TypeOK
  SectionsAreClean
  OkayMeansUndisturbed
  LengthOfOwnSwitch
  ColdThenHot
  HistoryAdvances
  SavedIsRecent
PROPERTIES
  Terminates
  ImplementsMeasurement
