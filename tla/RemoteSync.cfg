SPECIFICATION Spec

CONSTANTS
  Engines = {e1, e2}
  e1 = e1
  e2 = e2
  Rules = 1
  N = 2
  Cap = 1
  Nobody = Nobody

SYMMETRY MCSymmetry

\* a listener whose stream was refused or broke waits for ever
CHECK_DEADLOCK FALSE

INVARIANTS
  TypeOK
  AloneNoPanic
  AloneFinishedLoaded
PROPERTIES
  AloneKeepsPromise
