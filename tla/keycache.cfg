CONSTANTS
  Apps = {a1}
  ApiKeys = {k1, k2}
  Origins = {o1}
  Realms = {m1}
  Procs = {r1, r2}
  None = None
  MaxCrashes = 1
SPECIFICATION FairSpec
INVARIANTS TypeOK CacheIsCurrent
PROPERTIES RetiredKeysDie
