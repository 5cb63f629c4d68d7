SPECIFICATION Spec

CONSTANTS
  N = 4
  Value <- MCValue
  Cap = 2
  Workers = {w1, w2}
  w1 = w1
  w2 = w2

INVARIANT
  CompletedIsComplete
