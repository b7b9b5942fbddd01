SPECIFICATION Spec
SYMMETRY Symmetric
CHECK_DEADLOCK FALSE
CONSTANTS
  Users = {u1, u2}
  Threads = {t1, t2}
  None = None
  MaxHandlers = 4
INVARIANTS TempMustChange
PROPERTIES AdminRemains TokenOnce
