CONSTANTS
  Trajectories = {t1, t2}
  Servers = {s1}
  response_length = 4
  max_assistant_turns = 2
  ToolTokens = 1
  MaxTurn = 2
  MaxSyncs = 2
SPECIFICATION Spec
CHECK_DEADLOCK FALSE
INVARIANTS TypeOK CancelReaches QuietWhilePaused EndedTurnsStay TokensKept
PROPERTIES PauseEnds SampleFinishes
