SPECIFICATION FairSpec
CONSTANTS
  Engines = {e1, e2, e3}
  Workers = {w1}
  Clients = {c1}
  Pool = 3
  AtOnce = 2
  MaxRules = 1
  MaxChunks = 1
INVARIANTS
  TypeOK
  ConnectionLeft
PROPERTIES
  RunsEnd
  ClientsServed
CHECK_DEADLOCK FALSE
