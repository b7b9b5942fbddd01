CONSTANTS
  Msgs = {m1}
  Workers = {w1, w2}
  NoMsg = NoMsg
  MaxAttempts = 3
  MaxBatch = 2
  Schedule <- MCSchedule
  Lifetimes <- MCLifetimes
  MaxCrashes = 0
  Threshold = 2
  Cooldown = 1
  FailureCap = 2
SPECIFICATION Spec
PROPERTIES BackoffRespected
