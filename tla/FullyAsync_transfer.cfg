CONSTANTS
  TotalSamples = 6
  required_samples = 1
  Trigger = 1
  max_required_samples = 3
  max_concurrent_samples = 2
  PendingCap = 2
  Partial = FALSE
  MaxFailures = 0
  TestFreq = 1
SPECIFICATION Spec
CHECK_DEADLOCK FALSE
INVARIANTS NoGenerationDuringTransfer
