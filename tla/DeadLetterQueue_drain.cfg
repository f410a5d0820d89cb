SPECIFICATION FairSpec
CONSTANTS
  o1 = o1
  o2 = o2
  o3 = o3
  up = up
  down = down
  a1 = a1
  a2 = a2
  r1 = r1
  c1 = c1
  Obs = {o1, o2}
  Unusable = {}
  Unlocated = {}
  Unheard = {o2}
  Targets = {up, down}
  TargetOf <- OneBehindDown
  Healthy = {up}
  Replies <- SplitReplies
  Appenders = {a1}
  Replayers = {r1}
  Clearers = {c1}
  DlqMax = 2
  MaxLines = 2
  KeepLines = 1
  DedupProbe = TRUE
  ProbeMayFail = FALSE
  Crashes = FALSE
  Inodes = {1, 2, 3, 4, 5, 6, 7}
  Ageing = {o1}
PROPERTIES DrainsWithinLimit
INVARIANTS LossNeedsOverlap
