\* One message and two notifiers: every retry, two deaths, a breaker that
\* opens on the first failure. No symmetry, for the sake of liveness.
SPECIFICATION Spec
CONSTANTS
  Msgs = {m1}
  Workers = {w1, w2}
  NoMsg = NoMsg
  MaxAttempts = 4
  MaxBatch = 2
  Schedule <- MCSchedule
  Lifetimes <- MCLifetimes
  MaxCrashes = 2
  Threshold = 1
  Cooldown = 1
  FailureCap = 2
INVARIANTS TypeOK RowsSendable AcceptedOnceUnlessUnsure TrailMatches
PROPERTIES ImplementsPromise EventuallyResolved
