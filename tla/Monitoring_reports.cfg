SPECIFICATION FairSpec
CONSTANTS
  p1 = p1
  Pushers <- OnePusher
  Setups <- EitherOne
  KeepMax = 2
  MaxBytes = 1
  AlertDepth = 2
  Patience = 0
  Cooldown = 2
  MaxLines = 4
  MaxAttempts = 1
  MaxFaults = 1
  MaxRestarts = 1
INVARIANTS OldestGoFirst WindowsAddUp StandingIsRemembered
PROPERTIES StallReported
