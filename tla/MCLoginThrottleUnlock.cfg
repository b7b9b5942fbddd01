\* An administrator unlocks the account while the lockout rows that led to the
\* lock are still within the lookback.
SPECIFICATION Spec
CONSTANTS
  Workers = {w1}
  Ips = {i1}
  Window = 2
  IpWindow = 2
  UserMax = 2
  IpMax = 3
  Threshold = 2
  Recent = 3
  Lookback = 6
  MaxTime = 5
  MaxBumps = 4
PROPERTIES UnlockGivesAnAttempt
CHECK_DEADLOCK FALSE
