SPECIFICATION Spec
CONSTANTS
  t1 = t1
  p1 = p1
  p2 = p2
  p3 = p3
  r1 = r1
  Unset = Unset
  Targets = {t1}
  Pushers = {p1, p2}
  Replayers = {}
  DefaultThreshold = 2
  DefaultCooldown = 2
  Overrides <- NoOverrides
INVARIANTS HalfOpenAllowsOneAttempt
