SPECIFICATION Spec
CONSTANTS
  MaxOffset = 3
  BatchMax = 2
  Bad = {}
  Poison = {}
  AsyncPush = TRUE
  AutoSkip = FALSE
  GroupAtStart <- NewGroup
INVARIANTS AtLeastOnce
