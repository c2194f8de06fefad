CONSTANTS
  a1 = a1
  a2 = a2
  r1 = r1
  r2 = r2
  crm = crm
  lab = lab
  w1 = w1
  w2 = w2
  u1 = u1
  u2 = u2
  g1 = g1
  g2 = g2
  ro1 = ro1
  ro2 = ro2
  doc = doc
  run = run
  p1 = p1
  Apps = {a1, a2}
  Realms = {r1, r2}
  Names = {crm, lab, hub}
  Procs = {t1, t2}
  Users = {u1, u2}
  Workspaces = {w1, w2}
  Groups = {g1, g2}
  RoleIds = {ro1, ro2}
  ActionNames = {run}
  Resources = {doc}
  PermIds = {p1, p2}
  Callers = {c1, c2}
  None = None
  Gone = Gone
  Miss = Miss
  Start <- MCStart
  Jobs = {j1, j2}
  Emails = {e1, e2}
  Countries = {x1, x2}
  Unknown = Unknown
  Failures = 2
  DistinctEmails = 2
  MaxJobs = 3
  Scenarios <- MCScenarios
SPECIFICATION MCSpec
SYMMETRY Symm
INVARIANTS TypesOK CheckAgreesWithLookup NothingOutlivesMembership TrustDomainsApart 
CHECK_DEADLOCK FALSE
