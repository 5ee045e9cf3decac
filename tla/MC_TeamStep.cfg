CONSTANTS
  NAgents = 2
  NRanks = 2
  K = 2
  Configs <- MCConfigs
  PpoEpochs = 2
  MiniBatch = 2
  MicroBatch = 1
  LogProbMicro = 2
SPECIFICATION Spec
CHECK_DEADLOCK FALSE
INVARIANTS TypeOK NeverMismatched OwnAgent SamplesKept SpreadBound
PROPERTIES StepEnds
