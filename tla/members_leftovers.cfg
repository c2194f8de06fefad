CONSTANTS
  Users = {u1, u2}
  Roles = {"owner", "member"}
  Kinds = {"group"}
  Procs = {r1, r2}
  None = None
  MaxCrashes = 1
  Workload = {"members", "grants", "tokens"}
SPECIFICATION Spec
SYMMETRY Symm
INVARIANTS ClaimsAreCurrent GrantsNeedMembership
