SPECIFICATION FairSpec
CONSTANTS
  Tabs = {t1, t2}
  Users = {u1, u2}
  Quiet = {t1}
  Warn = 1
  Timeout = 2
  Lifetime = 1
  Sleeps = TRUE
  None = None
INVARIANTS
  TypeOK
  NameMatchesSession
  IdleNeverEarly
PROPERTIES
  Expelled
