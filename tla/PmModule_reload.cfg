SPECIFICATION ScriptSpec
CONSTANTS
  Traces <- ShortTraces
  CoresPerL2 <- AllCores
  num_phys_cpu = 2
  AllocFails = FALSE
  cores_per_chip = 4
INVARIANT LoadSortsByLevel
