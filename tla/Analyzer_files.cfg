SPECIFICATION Spec
CONSTANTS
  Commands <- SomeCommands
  CoresPerL2 <- WithAndWithoutL3
  num_phys_cpu = 2
  Limits <- AnyLimit
  Modes <- AllModes
  Failures = TRUE
INVARIANTS
  RowsAreSound
  EveryFileIsReported
  AutocapIsEven
  ArraysAreReturned
