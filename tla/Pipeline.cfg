SPECIFICATION FairSpec

CONSTANTS
  N = 6
  Value <- MCValue
  Cap = 2
  Workers = {w1, w2, w3}
  w1 = w1
  w2 = w2
  w3 = w3

INVARIANTS
  TypeOK
  ChunkAccounting
  MarkBehindLoads

PROPERTIES
  KeepsPromise
  Termination
