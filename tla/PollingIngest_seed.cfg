SPECIFICATION Spec
CONSTANTS
  s1 = s1
  s2 = s2
  Sensors = {s1, s2}
  Offers <- OneSensor
  KeyOf <- OneKey
  Kinds = {"sensor_community"}
  Grain = 2
  Window = 2
  Page = 1
  Cap = 1
  MaxKnown = 2
  SeedTop = 2
  MaxDelay = 0
  MaxTime = 4
  MaxPublished <- Rows2Or3
  MaxBlank <- OneBlank
  MaxFaults = 0
  MaxRestarts <- OneRestart
INVARIANTS NoRepeatAfterRestart
