------------------------------ MODULE Statement ------------------------------
(***************************************************************************)
(* A prepared query (Stmt) and the cursors that read its rows (Cursor).     *)
(* There is one sqlite3_stmt: every execution resets it, and so does every  *)
(* cursor when it is destroyed.  The connection is in autocommit mode, as   *)
(* the read connections of the library are, so an execution reads the       *)
(* newest committed version and keeps to it until the statement stops.      *)
(*                                                                          *)
(* A row is <<version, bound value, position>>: what a version holds        *)
(* matters only through the number of rows the query finds in it.           *)
(***************************************************************************)
EXTENDS Integers, Sequences

CONSTANTS
  Cursors,     \* the Cursor objects
  Keys,        \* what the caller may bind to the statement's parameter
  Unbound,     \* the NULL of a parameter that is not bound
  MaxVersion,  \* bound on the commits of other connections
  Size         \* how many rows the query finds, by version and bound value

ASSUME StatementAssumption ==
  /\ MaxVersion \in Nat
  /\ Unbound \notin Keys
  /\ Size \in [0 .. MaxVersion -> [Keys \cup {Unbound} -> Nat]]

VARIABLES
  version,     \* the newest committed version
  bound,       \* the value bound to the parameter
  stmt,        \* the sqlite3_stmt: where it stands, and in which version
  cursor,      \* the Cursor objects
  startFailed  \* history: the last execution failed before it had a cursor

statementVars == <<version, bound, stmt, cursor, startFailed>>

Versions == 0 .. MaxVersion
Values == Keys \cup {Unbound}
Rows == Versions \X Values \X Nat
Stmt == [at : {"row"}, pos : Nat \ {0}, version : Versions]
          \cup [at : {"ready", "done", "failed"}, pos : {0}, version : {0}]

\* valid is m_is_valid.  The rest is history: the rows read so far, the version
\* and value the execution began with, whether nobody else has used the statement
\* since (sound), and whether the last next() threw.
Cursor == [live : BOOLEAN, valid : BOOLEAN, read : Seq(Rows), version : Versions,
           key : Values, sound : BOOLEAN, failed : BOOLEAN]

StatementTypeOK ==
  /\ version \in Versions
  /\ bound \in Values
  /\ stmt \in Stmt
  /\ cursor \in [Cursors -> Cursor]
  /\ startFailed \in BOOLEAN

NoCursor == [live |-> FALSE, valid |-> FALSE, read |-> <<>>, version |-> 0,
             key |-> Unbound, sound |-> FALSE, failed |-> FALSE]

\* A statement that is not on a row holds no read transaction.
Stopped(at) == [at |-> at, pos |-> 0, version |-> 0]

StatementInit ==
  /\ version = 0
  /\ bound = Unbound
  /\ stmt = Stopped("ready")
  /\ cursor = [c \in Cursors |-> NoCursor]
  /\ startFailed = FALSE

------------------------------------------------------------------------------
(* The statement *)

RowAt(v, i) == IF i <= Size[v][bound] THEN [at |-> "row", pos |-> i, version |-> v]
                                      ELSE Stopped("done")

\* What sqlite3_step finds: the next row or, from any state but a row, the first.
Step == IF stmt.at = "row" THEN RowAt(stmt.version, stmt.pos + 1)
                           ELSE RowAt(version, 1)

\* values(): columns read off a row; sqlite3_column_value gives NULLs elsewhere.
NullRow == <<0, Unbound, 0>>
values == IF stmt.at = "row" THEN <<stmt.version, bound, stmt.pos>> ELSE NullRow

\* The other cursors learn nothing of what is done to their statement.
Disturb(cs, by) ==
  [c \in Cursors |-> IF c = by \/ ~cs[c].live THEN cs[c]
                     ELSE [cs[c] EXCEPT !.sound = FALSE, !.read = <<>>]]
DisturbAll == [c \in Cursors |-> IF ~cursor[c].live THEN cursor[c]
                                 ELSE [cursor[c] EXCEPT !.sound = FALSE, !.read = <<>>]]

\* SQLite refuses a bind unless the statement has been reset: bind() throws and
\* changes nothing.
bind(v) ==
  /\ stmt.at = "ready"
  /\ bound' = v
  /\ UNCHANGED <<version, stmt, cursor, startFailed>>

clear_bindings ==
  /\ stmt.at # "row"  \* what a running query makes of it is not modelled
  /\ bound' = Unbound
  /\ UNCHANGED <<version, stmt, cursor, startFailed>>

\* reset() reports the error of the execution that came before, and has reset.
StaleError ==
  /\ stmt.at = "failed"
  /\ stmt' = Stopped("ready")
  /\ cursor' = DisturbAll
  /\ startFailed' = FALSE
  /\ UNCHANGED <<version, bound>>

\* Mutant of exec_query: the statement is not reset first.
ExecQueryWithoutReset(c) ==
  /\ stmt.at # "failed"
  /\ ~cursor[c].live
  /\ stmt' = Step
  /\ cursor' = [DisturbAll EXCEPT ![c] =
       [live |-> TRUE, valid |-> stmt'.at # "done", read |-> <<>>, version |-> version,
        key |-> bound, sound |-> TRUE, failed |-> FALSE]]
  /\ startFailed' = FALSE
  /\ UNCHANGED <<version, bound>>

exec_query(c) ==
  /\ stmt.at # "failed"
  /\ ~cursor[c].live
  /\ stmt' = RowAt(version, 1)
  /\ cursor' = [DisturbAll EXCEPT ![c] =
       [live |-> TRUE, valid |-> stmt'.at # "done", read |-> <<>>, version |-> version,
        key |-> bound, sound |-> TRUE, failed |-> FALSE]]
  /\ startFailed' = FALSE
  /\ UNCHANGED <<version, bound>>

\* The first sqlite3_step fails: exec_query() throws, and makes no cursor.
ExecFails ==
  /\ stmt.at # "failed"
  /\ stmt' = Stopped("failed")
  /\ cursor' = DisturbAll
  /\ startFailed' = TRUE
  /\ UNCHANGED <<version, bound>>

\* exec() and exec_scalar(), whose cursor is gone when they return or throw; a
\* reset() of the caller's does the same to the statement.
exec ==
  /\ stmt.at # "failed"
  /\ stmt' = Stopped("ready")
  /\ cursor' = DisturbAll
  /\ startFailed' = FALSE
  /\ UNCHANGED <<version, bound>>

------------------------------------------------------------------------------
(* The cursors *)

\* What the loop has collected with the row the cursor stands on.  Nothing is said of
\* the rows of a cursor that was disturbed.
limit_rows(c) == IF cursor[c].sound THEN Append(cursor[c].read, values) ELSE <<>>

\* Mutant of next: the last row invalidates the cursor, as SQLITE_DONE should.
NextStopsEarly(c) ==
  /\ cursor[c].live /\ cursor[c].valid
  /\ stmt' = Step
  /\ cursor' = [Disturb(cursor, c) EXCEPT
       ![c].valid = stmt'.at # "done" /\ stmt'.pos < Size[stmt'.version][bound],
       ![c].read = limit_rows(c)]
  /\ startFailed' = FALSE
  /\ UNCHANGED <<version, bound>>

\* Mutant of next: the loop keeps the row and does not call sqlite3_step.
NextStandsStill(c) ==
  /\ cursor[c].live /\ cursor[c].valid
  /\ UNCHANGED statementVars

\* One turn of the loop of limit_rows(): the row is kept, then next() is called.
next(c) ==
  /\ cursor[c].live /\ cursor[c].valid
  /\ stmt' = Step
  /\ cursor' = [Disturb(cursor, c) EXCEPT
       ![c].valid = stmt'.at # "done",
       ![c].read = limit_rows(c)]
  /\ startFailed' = FALSE
  /\ UNCHANGED <<version, bound>>

\* next() throws; the cursor still calls itself valid.
NextFails(c) ==
  /\ cursor[c].live /\ cursor[c].valid
  /\ stmt' = Stopped("failed")
  /\ cursor' = [Disturb(cursor, c) EXCEPT
       ![c].failed = TRUE, ![c].sound = FALSE, ![c].read = <<>>]
  /\ startFailed' = FALSE
  /\ UNCHANGED <<version, bound>>

\* Mutant of DestroyCursor: a statement that failed is not reset.
DestroyKeepsError(c) ==
  /\ cursor[c].live
  /\ stmt' = IF stmt.at = "failed" THEN stmt ELSE Stopped("ready")
  /\ cursor' = [Disturb(cursor, c) EXCEPT ![c] = NoCursor]
  /\ startFailed' = FALSE
  /\ UNCHANGED <<version, bound>>

\* ~Cursor: the Resetter swallows the error that sqlite3_reset() reports.
DestroyCursor(c) ==
  /\ cursor[c].live
  /\ stmt' = Stopped("ready")
  /\ cursor' = [Disturb(cursor, c) EXCEPT ![c] = NoCursor]
  /\ startFailed' = FALSE
  /\ UNCHANGED <<version, bound>>

\* Another connection commits.
OtherCommit ==
  /\ version < MaxVersion
  /\ version' = version + 1
  /\ UNCHANGED <<bound, stmt, cursor, startFailed>>

StatementNext ==
  \/ \E v \in Keys : bind(v)
  \/ clear_bindings
  \/ StaleError
  \/ ExecFails
  \/ exec
  \/ OtherCommit
  \/ \E c \in Cursors :
       exec_query(c) \/ next(c) \/ NextFails(c) \/ DestroyCursor(c)

StatementSpec == StatementInit /\ [][StatementNext]_statementVars

\* all_rows() calls next() as long as the cursor is valid.
StatementFairSpec == StatementSpec /\ \A c \in Cursors : WF_statementVars(next(c))

------------------------------------------------------------------------------
(* Properties *)

Sound(c) == cursor[c].live /\ cursor[c].sound

\* However executions, cursors and commits of other connections interleave, a cursor
\* whose statement nobody else has used has read the first rows of one version, the
\* one it was opened on, each once and in order (limit_rows).
ReadsOneSnapshot ==
  \A c \in Cursors : Sound(c) =>
    \A i \in 1 .. Len(cursor[c].read) :
      cursor[c].read[i] = <<cursor[c].version, cursor[c].key, i>>

\* is_valid() can be trusted: a sound cursor that says it is valid stands on the row
\* that follows those it has read, in the version and with the value of its execution.
ValidIsOnARow ==
  \A c \in Cursors : Sound(c) /\ cursor[c].valid =>
    /\ stmt.at = "row"
    /\ stmt.pos = Len(cursor[c].read) + 1
    /\ stmt.version = cursor[c].version
    /\ bound = cursor[c].key

\* A loop that stops because is_valid() is false has read every row.
ExhaustedIsComplete ==
  \A c \in Cursors : Sound(c) /\ ~cursor[c].valid =>
    Len(cursor[c].read) = Size[cursor[c].version][cursor[c].key]

\* So what is_valid() says is true either way.
ValidityIsTrue == ValidIsOnARow /\ ExhaustedIsComplete

\* A query nobody reads any more holds no read transaction that would keep the WAL
\* from being checkpointed, whichever way it ended (Cursor::Resetter).
NoCursorNoLock == (\A c \in Cursors : ~cursor[c].live) => stmt.at \in {"ready", "failed"}

\* An error is left in the statement, where the next execution reports it once more,
\* only by an execution that failed to start or under a cursor that still lives: the
\* error of a next() goes away with its cursor.
ErrorHasOwner ==
  stmt.at = "failed" => startFailed \/ \E c \in Cursors : cursor[c].live /\ cursor[c].failed

\* However a query ends, nothing of it is left in the statement.
NothingLeftBehind == NoCursorNoLock /\ ErrorHasOwner

\* The loop of all_rows() ends: the rows run out, unless next() throws or somebody
\* else uses the statement.
AllRowsReturns ==
  \A c \in Cursors :
    (Sound(c) /\ cursor[c].valid) ~> ~(Sound(c) /\ cursor[c].valid)
==============================================================================
