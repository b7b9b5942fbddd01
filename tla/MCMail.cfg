SPECIFICATION Spec
SYMMETRY Symmetric
CHECK_DEADLOCK FALSE
CONSTANTS
  Threads = {t1, t2}
  None = None
  Ops <- MailOps
  Secrets = {s1}
  Batches = {b1}
  Codes = {c1, c2}
  Changes = {q1, q2}
  Addresses = {a1, a2}
  Ttl = 2
  Hour = 2
  HourlyLimit = 2
  MaxHandlers = 4
INVARIANTS CodesMatchFactors FactorAddressProved OnePending
PROPERTY ChangeAppliedOnce
