SPECIFICATION Spec
SYMMETRY Symmetric
CHECK_DEADLOCK FALSE
CONSTANTS
  Threads = {t1, t2}
  None = None
  Ops <- FactorOps
  Secrets = {s1, s2}
  Batches = {b1, b2}
  Codes = {c1}
  Changes = {}
  Addresses = {a1}
  Ttl = 1
  Hour = 0
  HourlyLimit = 1
  MaxHandlers = 4
INVARIANTS FlagsAgree TotpSecretProved CodesMatchFactors
PROPERTY MandateKept
