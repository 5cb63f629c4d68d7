SPECIFICATION FairSpec
CONSTANTS
  Sessions = {s1, s2}
  Tests = {x1}
  Period = 2
  Delay = 1
  Threshold = 3
  None = None
INVARIANTS
  TypeOK
  EntryIsServed
  LiveIsOnline
  AnswerHeard
PROPERTIES
  GoneIsOffline
