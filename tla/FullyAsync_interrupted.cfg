CONSTANTS
  TotalSamples = 4
  required_samples = 2
  Trigger = 1
  max_required_samples = 4
  max_concurrent_samples = 2
  PendingCap = 2
  Partial = TRUE
  MaxFailures = 0
  TestFreq = 1
SPECIFICATION Spec
CHECK_DEADLOCK FALSE
INVARIANTS InterruptedContinue
