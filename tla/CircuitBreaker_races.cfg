SPECIFICATION FairSpec
CONSTANTS
  t1 = t1
  p1 = p1
  p2 = p2
  p3 = p3
  r1 = r1
  Unset = Unset
  Targets = {t1}
  Pushers = {p1, p2, p3}
  Replayers = {r1}
  DefaultThreshold = 3
  DefaultCooldown = 2
  Overrides <- OneTargetOverrides
INVARIANTS OpenIffThreshold OpensOnlyAfterStreak
PROPERTIES CooldownNeverExtended HalfOpenFailureReopens Recovers
