CONSTANTS
  c1 = c1
  c2 = c2
  Consumers <- MCConsumers
  max_queue_size = 2
  max_concurrency = 3
  MaxPuts = 5
SPECIFICATION Spec
CHECK_DEADLOCK FALSE
INVARIANTS TypeOK Contents NoLostWakeup Accounting
PROPERTIES ShutdownReleases ImplementsFifo
