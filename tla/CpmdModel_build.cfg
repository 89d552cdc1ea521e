SPECIFICATION Spec
CONSTANTS
  Topologies <- SomeTopologies
  wss_values <- Sizes
  writecycle_values <- Cycles
  TracesOnHand <- MCTraces
  Leftovers <- MCLeftovers
  host = "litmus"
  Header = Header
  Torn = Torn
  CacheCostOutputs <- MCOutputs
  MaxStarts = 2
INVARIANTS
  GroupedByNearestLevel
  TypesAreKnown
  SummaryIsRight
