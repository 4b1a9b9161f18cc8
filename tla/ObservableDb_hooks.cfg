SPECIFICATION Spec
CONSTANTS
  Rows <- MCRows
  Values = {a, b}
  Null = Null
  NoSnapshot = NoSnapshot
  MaxChanges = 3
  MaxForeign = 1
  ExternalWriter = TRUE
  SilentChanges = TRUE
  NoOpWrites = TRUE
  CommitFaults = TRUE
SYMMETRY Symmetry
INVARIANTS
  TypeOK
  ReportExplainsCommit
  OldRowsPrecedeCommit
  OnlyThisTransaction
  SnapshotReleased
