CONSTANTS
  Lookups = {p1, p2}
  Kids = {k1}
  NoLookup = NoLookup
  NoKid = NoKid
  TTL = 1
  StaleGrace = 1
  MaxTime = 4
SPECIFICATION JWKSFairSpec
PROPERTIES AcceptsOnlyRecentKeys RidesOutOutage RefreshSeesRotation CallsReturn
CHECK_DEADLOCK FALSE
