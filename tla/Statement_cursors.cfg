SPECIFICATION StatementFairSpec
CONSTANTS
  Cursors = {c1, c2}
  Keys = {k1, k2}
  Unbound = unbound
  MaxVersion = 2
  Size <- MCSize
INVARIANTS
  ReadsOneSnapshot
  ValidityIsTrue
  NothingLeftBehind
PROPERTY
  AllRowsReturns
