SPECIFICATION ScriptSpec
CONSTANTS
  Traces <- MCTraces
  CoresPerL2 <- SomeCores
  num_phys_cpu = 2
  AllocFails = TRUE
  cores_per_chip = 4
INVARIANTS
  CarefulLoadsSort
  CarefulScriptsSurvive
  BothSortAlike
