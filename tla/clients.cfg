CONSTANTS
  Tabs = {t1, t2}
  None = None
  Stores = {"local", "memory"}
  Locks = TRUE
  MaxFamilies = 2
  MaxRotations = 1
  ATabs = {t1, t2}
  Nothing = Nothing
  MemberOf <- MCMemberOf
  MaxRedirects = 4
  Processes = {p1, p2}
  Requests = {t1, t2}
  Callers = {c1, c2}
  Spaces = {s1}
  Missing = Missing
  Apps <- MCApps
  MaxMints = 2
  MaxWrites = 1
  MaxStarts = 2
SPECIFICATION Spec
SYMMETRY Symm
INVARIANTS TypesOK TabsAreNoThieves SessionIsKept SignedOut LoginsComeBack  SharedMints OwnWritesAreSeen
CHECK_DEADLOCK FALSE
