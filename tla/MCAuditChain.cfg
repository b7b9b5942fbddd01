CONSTANTS
  Writers = {w1, w2}
  Keys = {k1, k2}
  NoKey = NoKey
  Serial = TRUE
  MaxRows = 5
  MaxEdits = 1
SPECIFICATION Spec
INVARIANTS ChainLinked
PROPERTIES RestampVerifies HistoryPreserved
