CONSTANTS
  TotalSamples = 6
  required_samples = 1
  Trigger = 2
  max_required_samples = 2
  max_concurrent_samples = 2
  PendingCap = 2
  Partial = FALSE
  MaxFailures = 0
  TestFreq = 2
SPECIFICATION Spec
CHECK_DEADLOCK FALSE
INVARIANTS NoGenerationDuringTransfer
PROPERTIES Terminates ImplementsRounds
