SPECIFICATION Spec
CONSTANTS
  Guards = {g1}
  Writes = {w1}
  Wal = FALSE
  EmptySchema = FALSE
INVARIANT
  GoneMeansRolledBack
