SPECIFICATION Spec
CONSTANTS
  Guards = {g1, g2}
  Writes = {w1, w2, w3}
  Wal = FALSE
  EmptySchema = TRUE
INVARIANTS
  DroppedNeverDurable
  CommitMeansDurable
  DestructorNeverThrows
  NoTransactionLeftOpen
PROPERTY
  CreationBegins
