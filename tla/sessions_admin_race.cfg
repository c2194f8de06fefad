CONSTANTS
  Users = {u1}
  Apps = {}
  Pairs = {p1}
  Procs = {r1, r2}
  None = None
  MaxCrashes = 0
  SerialAdmins = FALSE
  Workload = {"login", "status"}
SPECIFICATION Spec
INVARIANTS DeactivatedIsFlagged
