SPECIFICATION Spec
CONSTANTS
  o1 = o1
  o2 = o2
  o3 = o3
  up = up
  down = down
  a1 = a1
  a2 = a2
  r1 = r1
  c1 = c1
  Obs = {o1, o2, o3}
  Unusable = {}
  Unlocated = {o1}
  Unheard = {o1, o2, o3}
  Targets = {up}
  TargetOf <- AllUp
  Healthy = {up}
  Replies <- ConflictReply
  Appenders = {a1}
  Replayers = {r1}
  Clearers = {}
  DlqMax = 2
  MaxLines = 1
  KeepLines = 0
  DedupProbe = TRUE
  ProbeMayFail = FALSE
  Crashes = FALSE
  Inodes = {1, 2, 3, 4, 5, 6, 7}
  Ageing = {}
INVARIANTS ConflictIsDuplicate
