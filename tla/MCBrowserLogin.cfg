CONSTANTS
  Logins = {l1, l2}
  Sends = {first, again}
  NoLogin = NoLogin
  CookieAge = 2
  NonceTTL = 2
  MaxTime = 4
  MaxRestarts = 1
SYMMETRY Symmetry
SPECIFICATION BSpec
INVARIANTS LedgerAdmitsOnce  RefusedOnlyIfDisplaced
CHECK_DEADLOCK FALSE
