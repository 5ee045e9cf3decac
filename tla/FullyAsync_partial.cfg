CONSTANTS
  TotalSamples = 5
  required_samples = 2
  Trigger = 1
  max_required_samples = 3
  max_concurrent_samples = 2
  PendingCap = 2
  Partial = TRUE
  MaxFailures = 1
  TestFreq = 1
SPECIFICATION Spec
CHECK_DEADLOCK FALSE
INVARIANTS TypeOK Accounted
PROPERTIES Terminates
