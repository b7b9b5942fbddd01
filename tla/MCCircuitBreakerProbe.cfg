CONSTANTS
  Threshold = 2
  Cooldown = 1
  FailureCap = 2
  Callers = {c1, c2}
SPECIFICATION CallSpec
INVARIANTS SingleProbe
