\* Two requests against one account from one address, over three windows of
\* the account and more of the address. The clock stops at MaxTime, where
\* everything may come to rest.
SPECIFICATION Spec
CONSTANTS
  Workers = {w1, w2}
  Ips = {i1}
  Window = 2
  IpWindow = 3
  UserMax = 3
  IpMax = 2
  Threshold = 2
  Recent = 2
  Lookback = 1
  MaxTime = 3
  MaxBumps = 4
SYMMETRY Symmetry
INVARIANTS TypeOK HardCeiling SlidingCeiling IpFloodBound
PROPERTIES LockJustified
CHECK_DEADLOCK FALSE
