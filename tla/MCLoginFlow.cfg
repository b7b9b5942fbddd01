SPECIFICATION Spec
SYMMETRY Symmetric
CHECK_DEADLOCK FALSE
CONSTANTS
  Keys = {k1, k2, k3}
  Threads = {t1, t2}
  None = None
  MaxAge = 2
  CookieAge = 1
  PendingTTL = 1
  MaxHandlers = 3
INVARIANTS CeilingHolds
PROPERTIES RevokedStaysOut ServedKnowsPassword
