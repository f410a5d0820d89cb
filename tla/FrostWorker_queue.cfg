SPECIFICATION FairSpec
CONSTANTS
  b1 = b1
  b2 = b2
  b3 = b3
  p1 = p1
  p2 = p2
  Shutdown = Shutdown
  Batches = {b1, b2, b3}
  SizeOf <- Sizes
  Producers = {p1, p2}
  QueueMax = 2
  CoalesceMax = 2
  AlertPercent = 80
  PushMayRaise = TRUE
  JoinMayTimeOut = TRUE
CHECK_DEADLOCK FALSE
INVARIANTS NothingLostOrReordered CoalesceBounded DrainsBeforeEnding AlertEndsWithBacklog
PROPERTIES OfferedIsPushed
