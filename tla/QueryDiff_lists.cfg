SPECIFICATION FairSpec
CONSTANTS
  MaxLen = 3
  MaxId = 4
  Rows <- MCRows
  Lists <- MCLists
  SameEntity <- MCSameEntity
  LessThan <- MCLessThan
  Suppressed <- MCSuppressed
INVARIANTS
  ReplayGivesNewList
  ConsistentlyOrdered
  RowsAccountedFor
  ChangesAreExact
PROPERTY
  Terminates
