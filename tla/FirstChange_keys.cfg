SPECIFICATION FirstChangeSpec
CONSTANTS
  Exact = 4
  MaxChanges = 3
  t1 = t1
  t2 = t2
  TableNames <- MCTables
  Inputs <- MCInputs
INVARIANTS
  FirstChangeTypeOK
  KeepsTheFirstOfEachKey
