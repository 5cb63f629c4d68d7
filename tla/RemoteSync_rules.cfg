SPECIFICATION FairSpec

CONSTANTS
  Engines = {e1}
  e1 = e1
  Rules = 2
  N = 2
  Cap = 1
  Nobody = Nobody

\* a listener whose stream was refused or broke waits for ever
CHECK_DEADLOCK FALSE

PROPERTY
  ListenerReleased
