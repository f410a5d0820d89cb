SPECIFICATION Spec
CONSTANTS
  r1 = r1
  r2 = r2
  Registrars <- TwoRegistrars
  Purposes = {"site"}
  Roles = {"primary", "sequential", "batch"}
  MaxCopies = 2
  MaxTasks = 0
  MaxRepairs = 1
  MaxDeletions = 0
  MaxFaults = 0
SYMMETRY Symmetry
PROPERTIES DuplicateNeedsCause LeavesSiteComplete
