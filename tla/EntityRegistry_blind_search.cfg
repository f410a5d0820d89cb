SPECIFICATION Spec
CONSTANTS
  r1 = r1
  r2 = r2
  Registrars <- OneRegistrar
  Purposes = {"site"}
  Roles = {"sequential"}
  MaxCopies = 2
  MaxTasks = 0
  MaxRepairs = 0
  MaxDeletions = 0
  MaxFaults = 2
INVARIANTS GetOrCreateIdempotent
