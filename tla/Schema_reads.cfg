SPECIFICATION SchemaSpec
CONSTANTS
  t1 = t1
  t2 = t2
  None = None
  Tables <- MCTables
  MaxVersion = 6
  TablesOf <- MCTablesOf
INVARIANTS
  OfOneVersion
