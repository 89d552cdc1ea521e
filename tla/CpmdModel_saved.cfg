SPECIFICATION Spec
CONSTANTS
  Topologies <- OneTopology
  wss_values <- Sizes
  writecycle_values <- Cycles
  TracesOnHand <- MCTraces
  Leftovers <- Nothing
  host = "litmus"
  Header = Header
  Torn = Torn
  CacheCostOutputs <- MCOutputs
  MaxStarts = 1
INVARIANT ResultsAreSaved
