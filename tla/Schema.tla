-------------------------------- MODULE Schema --------------------------------
(***************************************************************************)
(* Db::schema_info, table_info and column_info (src/sqlite/db.cpp): one call *)
(* reads the schema with several queries, while other connections commit    *)
(* changes to it.  There is no transaction around them, but each query runs  *)
(* while the cursor of the one around it is on a row, and a connection with  *)
(* a cursor on a row keeps to the version that cursor reads.                 *)
(*                                                                          *)
(* What is read of a table is named after the version it comes from.        *)
(***************************************************************************)
EXTENDS Naturals

CONSTANTS
  Tables,
  MaxVersion,  \* bound on the commits of the other connections
  TablesOf,    \* by version: the tables there are
  None

Versions == 0 .. MaxVersion

ASSUME SchemaAssumption ==
  MaxVersion \in Nat /\ None \notin Tables \cup Versions
    /\ TablesOf \in [Versions -> SUBSET Tables]

VARIABLES
  version,   \* the newest committed version
  snapshot,  \* the version the connection reads while a cursor is on a row
  pc,        \* where the call is
  whole,     \* it is schema_info(), not table_info()
  rows,      \* table_cursor: the tables it is on and before
  cursor,    \* table_info's cursor: the version of the row it is on, or None
  table,     \* the table in hand
  tables,    \* the TableInfo objects so far
  result,    \* what the last call returned, or None
  began      \* history: the version when the call began

schemaVars == <<version, snapshot, pc, whole, rows, cursor, table, tables, result, began>>

\* columns is None for an empty vector.
TableInfo(t, v, w) == [name |-> t, sql |-> v, columns |-> w]
TableInfos == [name : Tables, sql : Versions, columns : Versions \cup {None}]

SchemaTypeOK ==
  /\ {version, snapshot, began} \subseteq Versions
  /\ pc \in {"idle", "tables", "table", "columns"}
  /\ whole \in BOOLEAN
  /\ rows \subseteq Tables
  /\ cursor \in Versions \cup {None} /\ table \in Tables \cup {None}
  /\ tables \subseteq TableInfos
  /\ result = None \/ result \subseteq TableInfos

SchemaInit ==
  /\ version = 0 /\ snapshot = 0 /\ began = 0
  /\ pc = "idle" /\ whole = FALSE
  /\ rows = {} /\ cursor = None /\ table = None /\ tables = {} /\ result = None

------------------------------------------------------------------------------
\* A query that starts sees the newest version, unless a cursor is on a row.
Seen == IF rows # {} \/ cursor # None THEN snapshot ELSE version

See == snapshot' = Seen /\ UNCHANGED <<version, began>>

Finish(answer) == pc' = "idle" /\ result' = answer

Begin(all) ==
  /\ pc = "idle"
  /\ whole' = all /\ tables' = {} /\ result' = None /\ cursor' = None
  /\ began' = version /\ snapshot' = version /\ UNCHANGED version

schema_info ==
  /\ Begin(TRUE)
  /\ rows' = TablesOf[version] /\ table' = None
  /\ pc' = "tables"

table_info ==
  /\ Begin(FALSE)
  /\ rows' = {} /\ table' \in Tables
  /\ pc' = "table"

\* Mutant of NextTable: the names are read first, the tables afterwards.
NextTableOfList ==
  /\ pc = "tables" /\ See
  /\ IF rows = {}
       THEN Finish(tables) /\ UNCHANGED <<table, rows>>
       ELSE table' \in rows /\ rows' = {} /\ pc' = "table" /\ UNCHANGED result
  /\ UNCHANGED <<whole, cursor, tables>>

\* The loop of schema_info, at a row or past the last one.
NextTable ==
  /\ pc = "tables" /\ See
  /\ IF rows = {}
       THEN Finish(tables) /\ UNCHANGED table
       ELSE table' \in rows /\ pc' = "table" /\ UNCHANGED result
  /\ UNCHANGED <<whole, rows, cursor, tables>>

\* table_info returns: schema_info keeps what it found, and steps its cursor.
Return(found) ==
  /\ tables' = tables \cup found /\ rows' = rows \ {table}
  /\ cursor' = None
  /\ IF whole THEN pc' = "tables" /\ UNCHANGED result ELSE Finish(tables')

\* nullopt
NotFound == {}

SelectTable ==
  /\ pc = "table" /\ See
  /\ IF table \in TablesOf[Seen]
       THEN cursor' = Seen /\ pc' = "columns" /\ UNCHANGED <<rows, tables, result>>
       ELSE Return(NotFound)
  /\ UNCHANGED <<whole, table>>

\* column_info: PRAGMA table_info has no rows for a table that is not there.
ReadColumns ==
  /\ pc = "columns" /\ See
  /\ Return({TableInfo(table, cursor, IF table \in TablesOf[Seen] THEN Seen ELSE None)})
  /\ UNCHANGED <<whole, table>>

\* A query fails: every cursor is destroyed, and the call has no result.
Throw ==
  /\ pc # "idle" /\ Finish(None)
  /\ rows' = {} /\ cursor' = None
  /\ UNCHANGED <<version, snapshot, began, whole, table, tables>>

OtherCommit ==
  /\ version < MaxVersion /\ version' = version + 1
  /\ UNCHANGED <<snapshot, pc, whole, rows, cursor, table, tables, result, began>>

SchemaNext == \/ schema_info \/ table_info \/ NextTable \/ SelectTable \/ ReadColumns
        \/ Throw \/ OtherCommit

SchemaSpec == SchemaInit /\ [][SchemaNext]_schemaVars

------------------------------------------------------------------------------
\* Properties.

Answered == pc = "idle" /\ result # None
Exactly(ts, v) == {TableInfo(t, v, v) : t \in ts \cap TablesOf[v]}

\* schema_info returns the tables of one version, all of them and each with the columns of
\* that version, and the version is not older than the call.  table_info alone returns the
\* SQL and the columns of one version, or that this version has no such table.
OfOneVersion ==
  Answered => \E v \in began .. version :
                result = Exactly(IF whole THEN Tables ELSE {table}, v)
==============================================================================
