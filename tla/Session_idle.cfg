SPECIFICATION Spec
CONSTANTS
  Tabs = {t1}
  Users = {u1}
  Quiet = {t1}
  Warn = 1
  Timeout = 2
  Lifetime = 3
  Sleeps = FALSE
  None = None
INVARIANTS
  IdleEndsSession
