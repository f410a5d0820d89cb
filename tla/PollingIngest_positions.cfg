SPECIFICATION Spec
CONSTANTS
  s1 = s1
  s2 = s2
  Sensors = {s1, s2}
  Offers <- RawAndCalib
  KeyOf <- OneKey
  Kinds = {"levellog", "samen_meten", "bro_groundwater"}
  Grain = 2
  Window = 3
  Page = 1
  Cap = 1
  MaxKnown = 2
  SeedTop = 2
  MaxDelay = 1
  MaxTime = 4
  MaxPublished <- Rows2Or3
  MaxBlank <- OneBlank
  MaxFaults = 2
  MaxRestarts <- OneRestart
PROPERTIES LossNeedsCause
