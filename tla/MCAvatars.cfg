SPECIFICATION Spec
SYMMETRY Symmetric
CHECK_DEADLOCK FALSE
CONSTANTS
  Threads = {t1, t2, t3}
  Files = {f1, f2, f3, f4, f5}
  None = None
  MaxHandlers = 4
INVARIANTS PictureIsThere LeaksBounded OutagesNoted
