SPECIFICATION Spec
CONSTANTS
  Commands <- TwoFiles
  CoresPerL2 <- WithL3
  num_phys_cpu = 2
  Limits <- NoLimit
  Modes <- RawMode
  Failures = FALSE
INVARIANT MeasuredIsReported
