CONSTANTS
  Writers = {w1, w2}
  Keys = {k1, k2}
  NoKey = NoKey
  Serial = TRUE
  MaxRows = 4
  MaxEdits = 0
SPECIFICATION Spec
INVARIANTS WindowVerifies
