CONSTANTS
  Users = {u1}
  Apps = {}
  Pairs = {p1, p2, p3}
  Procs = {r1, r2}
  None = None
  MaxCrashes = 0
  SerialAdmins = TRUE
  Workload = {"login", "refresh", "expiry"}
SPECIFICATION Spec
SYMMETRY Symm
INVARIANTS TypeOK RefreshNeverForks AccessReachable
PROPERTIES ImplementsChain
