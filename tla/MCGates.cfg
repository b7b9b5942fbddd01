SPECIFICATION Spec
CHECK_DEADLOCK FALSE
CONSTANTS
  Tabs = {a}
  User = User
  None = None
  Grace = 1
  Threshold = 1
  MaxEvents = 4
INVARIANTS RedirectsEnd SudoGuessesBounded
PROPERTIES ActsOnFreshProof MustChangeClears MandateMet OperatorEndsWindow
