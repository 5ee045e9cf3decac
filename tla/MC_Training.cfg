CONSTANTS
  NManagers = 3
  NRanks = 2
  MaxStep = 7
  Configs <- MCConfigs
  EpochLen = 3
  TotalSteps = 3
  SaveFreq = 2
  CriticWarmup = 2
  Ahead = 2
  MaxRuns = 2
SPECIFICATION Spec
CHECK_DEADLOCK FALSE
INVARIANTS TypeOK TrackedRestorable NoRepeatAndBoundedLoss AtMostOneStepOff UnsavedTail
PROPERTIES ImplementsRestartable Recovers
