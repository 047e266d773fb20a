SPECIFICATION FairSpec
CONSTANTS
  None = None
  Corpora = {empty, policies, large}
  Empty = empty
  Oversized = {large}
  Boots = {boot1, boot2}
  Admins = {}
  Refresher = refresher
  Queries = {q}
  InPlaceUpserts = FALSE
  MaxIngests = 1
PROPERTIES
  Freshness
  LazyBuildYields
  ReadinessIsKept
INVARIANTS
  NoFalseCurrency
  HalvesAgree
