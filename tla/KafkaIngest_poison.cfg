SPECIFICATION FairSpec
CONSTANTS
  MaxOffset = 4
  BatchMax = 2
  Bad = {1}
  Poison = {3}
  AsyncPush = TRUE
  AutoSkip = TRUE
  GroupAtStart <- AnyGroup
PROPERTIES FailedAreSkipped
