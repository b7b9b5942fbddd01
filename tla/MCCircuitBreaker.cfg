CONSTANTS
  Threshold = 2
  Cooldown = 2
  FailureCap = 3
  Callers = {c1, c2, c3}
SPECIFICATION CallSpec
INVARIANTS OpenIffThreshold
PROPERTIES FailureWhileOpenRefuses Recovers
