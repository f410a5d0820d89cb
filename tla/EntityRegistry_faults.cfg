SPECIFICATION FairSpec
CONSTANTS
  r1 = r1
  r2 = r2
  Registrars <- OneRegistrar
  Purposes = {"site", "task"}
  Roles = {"primary", "sequential", "batch"}
  MaxCopies = 4
  MaxTasks = 3
  MaxRepairs = 1
  MaxDeletions = 1
  MaxFaults = 1
PROPERTIES DuplicateNeedsCause TaskedOnce RegisteringHeals
