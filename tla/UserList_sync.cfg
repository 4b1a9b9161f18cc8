SPECIFICATION FairSpec
CONSTANTS
  Handles = {h1, h2}
  Observers = {o1, o2}
  MaxId = 2
  Logins = {x, y}
  Responses <- FewUsers
  Stored <- FewTables
  x = x
  y = y
  None = None
  NetworkErrors = TRUE
  Releases = TRUE
  MaxStarts = 2
  MaxDeletes = 1
INVARIANTS
  TypeOK
  ShownIsViewModel
  ListIsCurrent
PROPERTIES
  DeleteAnswered
  ListIsFilled
