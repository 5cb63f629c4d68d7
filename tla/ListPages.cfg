SPECIFICATION Spec
CONSTANTS
  None = None
  Pages <- MCPages
  MaxId = 2
  FirstRows = 1
  PageSize = 1
  Terms <- MCTerms
  Calls = {c1}
INVARIANTS
  TypeOK
  OwnValues
  PagesCover
PROPERTIES
  NoGhosts
  ListCatchesUp
