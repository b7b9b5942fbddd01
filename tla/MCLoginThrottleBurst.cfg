\* Attempts keep coming through three windows, faster than the rows the
\* permanent lock looks at can show.
SPECIFICATION Spec
CONSTANTS
  Workers = {w1}
  Ips = {i1}
  Window = 2
  IpWindow = 2
  UserMax = 1
  IpMax = 3
  Threshold = 3
  Recent = 4
  Lookback = 6
  MaxTime = 5
  MaxBumps = 5
PROPERTIES ThirdStrikeLocks
CHECK_DEADLOCK FALSE
