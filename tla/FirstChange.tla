----------------------------- MODULE FirstChange -----------------------------
(***************************************************************************)
(* detail::allow_first_change (src/sqlite_query/observable_db.cpp): of the   *)
(* changes of each table, those that are the first of their primary key.    *)
(* The keys are rows of values of any type, looked up in a std::set.        *)
(***************************************************************************)
EXTENDS SqlValue, SequencesExt, Sorting

CONSTANTS
  TableNames,  \* the names of the tables that changed, in the order of the map
  Inputs       \* the calls: the changes of each table, and the schema that is known

\* A row that is not there (an empty optional).
NoRow == <<>>

\* The columns of a table are the numbers they have in its primary key, or 0.
IsInput(in) ==
  /\ DOMAIN in = {"changes", "schema"}
  /\ \A k \in 1 .. Len(TableNames) :
       in.changes[TableNames[k]] \in Seq([old_row : Seq(Value), new_row : Seq(Value)])
  /\ \A name \in DOMAIN in.schema : in.schema[name] \in Seq(Nat)

ASSUME FirstChangeAssumption ==
  /\ Len(TableNames) \in Nat
  /\ \A in \in Inputs : IsInput(in)

VARIABLES
  input,   \* the arguments
  table,   \* which table is being looked at
  pos,     \* how many of its changes have been
  seen,    \* their keys (the std::set)
  kept,    \* for each table, the positions of the changes that stay
  at       \* "table", "row", "done" or "threw"

firstChangeVars == <<input, table, pos, seen, kept, at>>

FirstChangeTypeOK ==
  /\ IsInput(input)
  /\ table \in 1 .. Len(TableNames) + 1
  /\ pos \in Nat
  /\ seen \in SUBSET Seq(Value)
  /\ kept \in [1 .. Len(TableNames) -> SUBSET (Nat \ {0})]
  /\ at \in {"table", "row", "done", "threw"}

FirstChangeInit ==
  /\ input \in Inputs
  /\ table = 1
  /\ pos = 0
  /\ seen = {}
  /\ kept = [k \in 1 .. Len(TableNames) |-> {}]
  /\ at = "table"

------------------------------------------------------------------------------

\* The columns of the primary key, the most significant first: the code sorts pairs of
\* a column's number in the key and its position.
get_pk_pos(columns) ==
  SortedBy({k \in 1 .. Len(columns) : columns[k] # 0},
           [k \in 1 .. Len(columns) |-> columns[k] * (Len(columns) + 1) + k])

changes == input.changes[TableNames[table]]
pk_positions == get_pk_pos(input.schema[TableNames[table]])

RowKey(row, positions) == [k \in 1 .. Len(positions) |-> row[positions[k]]]

HasColumns(row, positions) ==
  row # NoRow => \A k \in 1 .. Len(positions) : positions[k] <= Len(row)

\* extract_primary_key throws for a change of no row, for a row with too few
\* columns, and for a change of the key itself.
HasKey(c, positions) ==
  /\ c.old_row # NoRow \/ c.new_row # NoRow
  /\ HasColumns(c.old_row, positions) /\ HasColumns(c.new_row, positions)
  /\ c.old_row # NoRow /\ c.new_row # NoRow =>
       RowEq(RowKey(c.old_row, positions), RowKey(c.new_row, positions))

extract_primary_key(c, positions) ==
  RowKey(IF c.old_row # NoRow THEN c.old_row ELSE c.new_row, positions)

KnownTable == TableNames[table] \in DOMAIN input.schema

UnknownTable ==
  /\ at = "table" /\ table <= Len(TableNames)
  /\ ~KnownTable
  /\ at' = "threw"
  /\ UNCHANGED <<input, table, pos, seen, kept>>

\* Without a primary key there is nothing to collapse.
TableWithoutKey ==
  /\ at = "table" /\ table <= Len(TableNames)
  /\ KnownTable /\ pk_positions = <<>>
  /\ kept' = [kept EXCEPT ![table] = 1 .. Len(changes)]
  /\ table' = table + 1
  /\ UNCHANGED <<input, pos, seen, at>>

TableWithKey ==
  /\ at = "table" /\ table <= Len(TableNames)
  /\ KnownTable /\ pk_positions # <<>>
  /\ pos' = 0
  /\ seen' = {}
  /\ at' = "row"
  /\ UNCHANGED <<input, table, kept>>

\* insert() finds no key that ties with this one.
IsNew(key) == \A k \in seen : ~RowTie(k, key)

\* Mutant of Examine: the position that is kept is the one before.
ExamineOffByOne ==
  /\ at = "row" /\ pos < Len(changes)
  /\ HasKey(changes[pos + 1], pk_positions)
  /\ LET key == extract_primary_key(changes[pos + 1], pk_positions)
     IN  IF IsNew(key)
         THEN /\ seen' = seen \cup {key}
              /\ kept' = [kept EXCEPT ![table] = @ \cup {pos}]
         ELSE UNCHANGED <<seen, kept>>
  /\ pos' = pos + 1
  /\ UNCHANGED <<input, table, at>>

Examine ==
  /\ at = "row" /\ pos < Len(changes)
  /\ HasKey(changes[pos + 1], pk_positions)
  /\ LET key == extract_primary_key(changes[pos + 1], pk_positions)
     IN  IF IsNew(key)
         THEN /\ seen' = seen \cup {key}
              /\ kept' = [kept EXCEPT ![table] = @ \cup {pos + 1}]
         ELSE UNCHANGED <<seen, kept>>
  /\ pos' = pos + 1
  /\ UNCHANGED <<input, table, at>>

BadState ==
  /\ at = "row" /\ pos < Len(changes)
  /\ ~HasKey(changes[pos + 1], pk_positions)
  /\ at' = "threw"
  /\ UNCHANGED <<input, table, pos, seen, kept>>

TableDone ==
  /\ at = "row" /\ pos = Len(changes)
  /\ table' = table + 1
  /\ at' = "table"
  /\ UNCHANGED <<input, pos, seen, kept>>

Return ==
  /\ at = "table" /\ table > Len(TableNames)
  /\ at' = "done"
  /\ UNCHANGED <<input, table, pos, seen, kept>>

\* The call is over: it has returned or thrown.
Over == at \in {"done", "threw"} /\ UNCHANGED firstChangeVars

FirstChangeNext ==
  \/ UnknownTable \/ TableWithoutKey \/ TableWithKey
  \/ Examine \/ BadState \/ TableDone \/ Return \/ Over

FirstChangeSpec == FirstChangeInit /\ [][FirstChangeNext]_firstChangeVars

------------------------------------------------------------------------------
(* Properties *)

KeyAt(k) == extract_primary_key(changes[k], pk_positions)

\* The set, which knows the keys by operator<, keeps exactly the first change of each
\* key as operator== tells keys apart: no key is reported twice and none is lost,
\* although a key may be stored as INT in one row and as DOUBLE in another.
KeepsTheFirstOfEachKey ==
  at = "row" =>
    kept[table] = {k \in 1 .. pos : \A j \in 1 .. k - 1 : ~RowEq(KeyAt(j), KeyAt(k))}

==============================================================================
