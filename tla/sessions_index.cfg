CONSTANTS
  Users = {u1}
  Apps = {a1}
  Pairs = {p1, p2}
  Procs = {r1, r2}
  None = None
  MaxCrashes = 1
  SerialAdmins = TRUE
  Workload = {"login", "refresh", "revoke", "standing"}
SPECIFICATION Spec
SYMMETRY Symm
INVARIANTS WithinReach
PROPERTIES RevokeAllIsThorough
