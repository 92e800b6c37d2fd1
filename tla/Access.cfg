SPECIFICATION Spec
CONSTANTS
  r1 = r1
  r2 = r2
  Users = {u1, u2}
  FirstAdmin = u1
  RoleSets = {{"ADMIN", "SELLER"}, {"ACCOUNTANT", "WAREHOUSE"}, {"MANAGEMENT"}}
  Requests = {r1, r2}
  NoRequest = NoRequest
  MaxAttempts = 2
  MaxSessions = 1
  MaxOperations = 3
SYMMETRY Symmetry
INVARIANTS
  AdminsRemain
  LockoutIsCoherent
  RolesKeepToTheirDuties
CHECK_DEADLOCK FALSE
