CONSTANTS
  gh = gh
  ent = ent
  u1 = u1
  u2 = u2
  w1 = w1
  o1 = o1
  uni = uni
  s1 = s1
  s2 = s2
  l1 = l1
  l2 = l2
  x1 = x1
  x2 = x2
  crm = crm
  lab = lab
  p1 = p1
  p2 = p2
  Users = {u1, u2}
  Workspaces = {w1}
  Orgs = {o1}
  Public = Public
  Domains = {uni}
  Suffixes <- MCSuffixes
  DomainOf <- MCDomainOf
  Admins = {a1}
  Seeded <- MCSeeded
  None = None
  Gone = Gone
  Identities = {gh, ent}
  Provider <- MCProvider
  Emails <- MCEmails
  AdminEmails = {u1}
  Bare = {u1}
  Members <- MCMembers
  Services = {s1, s2}
  ScopeOf <- MCScopeOf
  Audiences <- MCAudiences
  Deployment = x1
  Apps = {x1, x2}
  Procs = {p1, p2}
  Codes = {k1, k2}
  MaxTokens = 2
  Logins = {l1, l2}
  AppOf <- MCAppOf
  WithState = {l1}
  Proxied = {l1, l2}
  Scenarios <- MCScenarios
SPECIFICATION Spec
SYMMETRY Symm
INVARIANTS TypeOK  PickerIsMintable AccountsAreOwned PagesKnowTheirUser LoginsStayApart
CHECK_DEADLOCK FALSE
