CONSTANTS
  Users = {u1, u2}
  Roles = {"owner", "admin", "member"}
  Kinds = {}
  Procs = {r1, r2}
  None = None
  MaxCrashes = 1
  Workload = {"members"}
SPECIFICATION FairSpec
INVARIANTS TypeOK HasOwner
PROPERTIES EveryRequestEnds
