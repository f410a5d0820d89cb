SPECIFICATION Spec
CONSTANTS
  c1 = c1
  c2 = c2
  Cycles = {c1}
  BatchOf <- OneBatch
  Unmapped = {2}
  MaxObs = 1
  BatchEnabled = TRUE
  MaxAttempts = 2
  LookupRaises = FALSE
  Unwritable = {}
  Unlocated = {}
  BatchReplies = {"stored", "some_errors", "short", "unsupported", "refused", "busy", "timeout", "late_commit"}
  SingleReplies = {"created", "conflict", "refused", "page", "busy", "timeout", "late_commit"}
INVARIANTS OpenTargetDeadLetters
CHECK_DEADLOCK FALSE
