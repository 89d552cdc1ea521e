SPECIFICATION Spec
CONSTANTS
  DATAPOINTS = 4
  REFTOTAL = 2
  WSCycle = 2
  TaskPeriod = 1
  SIMRUNTIME = 2
  NumCpus = 2
  Times <- OneTime
  CliMasks <- Masks
  Garbage = Garbage
  MaxJob = 2
  MaxSched = 2
INVARIANT
  SavesFullBuffer
