SPECIFICATION FairSpec
CONSTANTS
  c1 = c1
  c2 = c2
  Cycles = {c1, c2}
  BatchOf <- TwoBatches
  Unmapped = {2}
  MaxObs = 1
  BatchEnabled = TRUE
  MaxAttempts = 2
  LookupRaises = TRUE
  Unwritable = {1}
  Unlocated = {1}
  BatchReplies = {"stored", "some_errors", "short", "unsupported", "refused", "busy", "late_commit"}
  SingleReplies = {"created", "conflict", "refused", "page", "timeout", "late_commit"}
INVARIANTS NoSecondCopy FailureTookNothing
PROPERTIES Delivers CyclesEnd
CHECK_DEADLOCK FALSE
