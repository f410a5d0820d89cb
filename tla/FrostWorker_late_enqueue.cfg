SPECIFICATION Spec
CONSTANTS
  b1 = b1
  b2 = b2
  b3 = b3
  p1 = p1
  p2 = p2
  Shutdown = Shutdown
  Batches = {b1, b2, b3}
  SizeOf <- Sizes
  Producers = {p1}
  QueueMax = 2
  CoalesceMax = 2
  AlertPercent = 80
  PushMayRaise = FALSE
  JoinMayTimeOut = FALSE
INVARIANTS DrainedOnShutdown
CHECK_DEADLOCK FALSE
