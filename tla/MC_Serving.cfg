CONSTANTS
  NServers = 3
  Configs <- MCConfigs
  MaxMessage = 2
SPECIFICATION Spec
CHECK_DEADLOCK FALSE
INVARIANTS TypeOK AwakeAndFresh StickyAndSpread LimitsHold
PROPERTIES Served
