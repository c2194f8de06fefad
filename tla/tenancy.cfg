CONSTANTS
  u2 = u2
  uni = uni
  lab = lab
  Users = {u1, u2, u3}
  Workspaces = {w1, w2, w3, w4}
  o1 = o1
  Seeded <- MCSeeded
  Orgs = {o1, o2}
  Public = Public
  Domains = {uni, lab}
  Suffixes <- MCSuffixes
  DomainOf <- MCDomainOf
  Admins = {a1, a2}
  None = None
  Gone = Gone
  Invites = {i1, i2}
  Grantable = {"viewer", "admin"}
  Procs = {r1, r2}
  Founded = w1
  Founder = u1
  Newcomers = {u2}
  Addresses = {None, u2}
  MaxPending = 1
  MaxOwn = 1
  MaxPerHour = 1
  Scenarios <- MCScenarios
SPECIFICATION Spec
SYMMETRY Symm
INVARIANTS TypeOK InvitationAdmitsOne LimitsHold
PROPERTIES ClaimNeedsStanding GateHolds
CHECK_DEADLOCK FALSE
