SPECIFICATION Spec
CONSTANTS
  SBLOCK_SIZE = 2
  BLOCK_MUL = 3
  CELLS = 2
  Sizes <- RunSizes
  Unset = Unset
  MaxRuns = 3
  INT_MAX = 19
INVARIANTS
  ReadsWholeFile
  RunsStayTogether
