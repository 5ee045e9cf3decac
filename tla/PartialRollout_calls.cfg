CONSTANTS
  Trajectories = {t1}
  Servers = {s1, s2}
  response_length = 6
  max_assistant_turns = 3
  ToolTokens = 1
  MaxTurn = 3
  MaxSyncs = 1
SPECIFICATION Spec
CHECK_DEADLOCK FALSE
INVARIANTS CallsExecuted
