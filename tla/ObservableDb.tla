---------------------------- MODULE ObservableDb ----------------------------
(***************************************************************************)
(* ObservableDb (src/sqlite_query/observable_db.cpp): the changes each      *)
(* transaction of the write connection makes, collected by SQLite's hooks   *)
(* and reported row by row, old and new, to a listener.                     *)
(*                                                                          *)
(* The old rows are read through a second connection, on which the commit   *)
(* hook opens a read transaction just before the commit; the new rows are   *)
(* read by the write connection, from the WAL hook that follows the commit. *)
(* Between the two the write lock is free, and another process may commit.  *)
(***************************************************************************)
EXTENDS Integers, FiniteSets, Sequences, SequencesExt, Sorting

CONSTANTS
  Rows,             \* the rows: pairs of a table and a rowid
  Values, Null,     \* what a row holds, and what a missing row reads as
  NoSnapshot,       \* the read connection is outside any transaction
  MaxChanges,       \* bound: row changes in one transaction
  MaxForeign,       \* bound: rows other processes change before the WAL hook
  ExternalWriter,   \* another process writes to the file
  SilentChanges,    \* statements that change rows behind the update hook's back
  NoOpWrites,       \* statements that match no row
  CommitFaults      \* a commit may fail after the commit hook

ASSUME ObservableDbAssumption ==
  /\ Null \notin Values
  /\ MaxChanges \in Nat /\ MaxForeign \in Nat
  /\ {ExternalWriter, SilentChanges, NoOpWrites, CommitFaults} \subseteq BOOLEAN

Table(r) == r[1]
Tables == {Table(r) : r \in Rows}
Contents == [Rows -> Values \cup {Null}]

ASSUME NoSnapshotAssumption == NoSnapshot \notin Contents

VARIABLES
  db,               \* the committed rows
  work,             \* the rows as the open transaction of the write connection sees them
  writing,          \* that transaction has executed a statement that writes
  pages,            \* it has changed a page
  m_changes,        \* the rows the update hook saw, in order
  m_read_snapshot,  \* what the read transaction sees, or NoSnapshot
  pc,               \* "idle", "committed" (the WAL hook is next), "reported" (the
                    \* listener has been called, COMMIT has not returned), or a hook threw:
                    \* "threw" the commit hook, "unreported" the WAL hook
  report,           \* the DbChanges the listener is given
  touched,          \* history: the rows of the open transaction, as they changed
  before, after,    \* history: the rows around the commit that is being reported
  unpaired          \* history: a commit hook ran that no WAL hook followed

txnVars == <<work, writing, pages, touched>>
listenerVars == <<report, before, after, unpaired>>
vars == <<db, work, writing, pages, m_changes, m_read_snapshot, pc, report, touched,
          before, after, unpaired>>

RowChange == [row : Rows, old_row : Values \cup {Null}, new_row : Values \cup {Null}]

TypeOK ==
  /\ {db, work} \subseteq Contents
  /\ {before, after, m_read_snapshot} \subseteq Contents \cup {NoSnapshot}
  /\ writing \in BOOLEAN /\ pages \in BOOLEAN /\ unpaired \in BOOLEAN
  /\ m_changes \in Seq(Rows) /\ touched \in Seq(Rows)
  /\ pc \in {"idle", "committed", "reported", "threw", "unreported"}
  /\ report \in [Tables -> Seq(RowChange)]

NoReport == [t \in Tables |-> <<>>]

Init ==
  /\ db \in Contents /\ work = db
  /\ writing = FALSE /\ pages = FALSE /\ unpaired = FALSE
  /\ m_changes = <<>> /\ touched = <<>>
  /\ m_read_snapshot = NoSnapshot /\ before = NoSnapshot /\ after = NoSnapshot
  /\ pc = "idle"
  /\ report = NoReport

------------------------------------------------------------------------------
\* Statements of the write connection.  The first write takes the write lock, so that
\* from then on nobody else commits.

Executes ==
  /\ pc = "idle"
  /\ writing' = TRUE
  /\ UNCHANGED <<db, m_read_snapshot, pc, listenerVars>>

\* Mutant of OnUpdate: the table of the row is not kept.
OnUpdateRowidOnly(r) ==
  /\ Len(m_changes) < MaxChanges
  /\ m_changes' = Append(m_changes, <<Null, r[2]>>) /\ touched' = Append(touched, r)
  /\ pages' = TRUE

\* SQLite calls the update hook, which appends the row to m_changes.
OnUpdate(r) ==
  /\ Len(m_changes) < MaxChanges
  /\ m_changes' = Append(m_changes, r) /\ touched' = Append(touched, r)
  /\ pages' = TRUE

\* INSERT, UPDATE or DELETE of one row.
Change(r, v) ==
  /\ Executes
  /\ work[r] # Null \/ v # Null
  /\ work' = [work EXCEPT ![r] = v]
  /\ OnUpdate(r)

\* A statement that fails half way, or a ROLLBACK TO: the change is undone and the
\* update hook is not told.
ChangeUndone(r) ==
  /\ Executes
  /\ OnUpdate(r)
  /\ UNCHANGED work

\* UPDATE of the rowid: the hook gets the new one.
ChangeRowid(r, s) ==
  /\ SilentChanges
  /\ Executes
  /\ Table(r) = Table(s) /\ work[r] # Null /\ work[s] = Null
  /\ work' = [work EXCEPT ![r] = Null, ![s] = work[r]]
  /\ OnUpdate(s)

\* DELETE without WHERE, and the row a REPLACE removes: no hook.
DeleteSilently(r) ==
  /\ SilentChanges
  /\ Executes
  /\ work[r] # Null
  /\ work' = [work EXCEPT ![r] = Null]
  /\ pages' = TRUE
  /\ UNCHANGED <<m_changes, touched>>

WriteNothing ==
  /\ NoOpWrites
  /\ Executes
  /\ UNCHANGED <<work, pages, m_changes, touched>>

EndTransaction == writing' = FALSE /\ pages' = FALSE /\ touched' = <<>>

\* Mutant of Rollback: _on_rollback is not registered.
RollbackKeepsChanges ==
  /\ pc = "idle" /\ writing
  /\ EndTransaction
  /\ work' = db
  /\ UNCHANGED <<db, m_changes, m_read_snapshot, pc, listenerVars>>

Rollback ==
  /\ pc = "idle" /\ writing
  /\ EndTransaction
  /\ work' = db /\ m_changes' = <<>>
  /\ UNCHANGED <<db, m_read_snapshot, pc, listenerVars>>

------------------------------------------------------------------------------
\* detail::collapse_by_rowid: the positions of the last change of each row.

collapse_by_rowid(changes) ==
  {i \in 1 .. Len(changes) : \A j \in i + 1 .. Len(changes) : changes[j] # changes[i]}

\* The changes at these positions, the last one first, as both connections read them.
RowChanges(positions, changes, old, new) ==
  LET order == Ascending(positions)
  IN Reverse([k \in 1 .. Len(order) |->
                LET r == changes[order[k]]
                IN [row |-> r, old_row |-> old[r], new_row |-> new[r]]])

\* Mutant of _collect_changes: only rows that still exist are reported.
_collect_existing(table, changes, old, new) ==
  RowChanges({i \in collapse_by_rowid(changes) :
                Table(changes[i]) = table /\ new[changes[i]] # Null},
             changes, old, new)

\* ObservableDb::_collect_changes, for one table.
_collect_changes(table, changes, old, new) ==
  RowChanges({i \in collapse_by_rowid(changes) :
                /\ Table(changes[i]) = table
                /\ old[changes[i]] # Null \/ new[changes[i]] # Null},
             changes, old, new)

------------------------------------------------------------------------------
\* COMMIT: SQLite calls _on_commit, which opens the read transaction.

\* Mutant of Commit: the snapshot is not taken before the commit but by the WAL hook.
CommitThenSnapshot ==
  /\ pc = "idle" /\ writing /\ m_read_snapshot = NoSnapshot /\ pages
  /\ m_read_snapshot' = work
  /\ db' = work
  /\ pc' = "committed"
  /\ before' = db /\ after' = work
  /\ writing' = FALSE /\ pages' = FALSE
  /\ UNCHANGED <<work, m_changes, touched, report, unpaired>>

Commit ==
  /\ pc = "idle" /\ writing /\ m_read_snapshot = NoSnapshot /\ pages
  /\ m_read_snapshot' = db
  /\ db' = work
  /\ pc' = "committed"
  /\ before' = db /\ after' = work
  /\ writing' = FALSE /\ pages' = FALSE
  /\ UNCHANGED <<work, m_changes, touched, report, unpaired>>

\* With no page to write there is no frame in the WAL, and no WAL hook.
CommitNothing ==
  /\ pc = "idle" /\ writing /\ m_read_snapshot = NoSnapshot /\ ~pages
  /\ m_read_snapshot' = db
  /\ EndTransaction
  /\ unpaired' = TRUE
  /\ UNCHANGED <<db, work, m_changes, pc, report, before, after>>

\* The file cannot be written: SQLite rolls back and calls _on_rollback.
CommitFails ==
  /\ CommitFaults
  /\ pc = "idle" /\ writing /\ m_read_snapshot = NoSnapshot /\ pages
  /\ m_read_snapshot' = db
  /\ work' = db /\ m_changes' = <<>>
  /\ EndTransaction
  /\ unpaired' = TRUE
  /\ UNCHANGED <<db, pc, report, before, after>>

\* The read connection is still in a transaction: ReadTransaction's BEGIN throws out of
\* the hook, through SQLite's frames.  (It does as well on a file without tables, where a
\* ReadTransaction's SELECT has no row: the tables are there before the hooks are.)
CommitThrows ==
  /\ pc = "idle" /\ writing /\ m_read_snapshot # NoSnapshot
  /\ pc' = "threw"
  /\ UNCHANGED <<db, txnVars, m_changes, m_read_snapshot, listenerVars>>

\* Mutant of OnWal: prev_snapshot is not closed.
OnWalKeepsSnapshot ==
  /\ pc = "committed"
  /\ report' = [t \in Tables |-> _collect_changes(t, m_changes, m_read_snapshot, db)]
  /\ m_changes' = <<>>
  /\ pc' = "reported"
  /\ UNCHANGED <<db, txnVars, m_read_snapshot, before, after, unpaired>>

\* _on_wal: both snapshots are read, closed, and the listener is told.
OnWal ==
  /\ pc = "committed"
  /\ report' = [t \in Tables |-> _collect_changes(t, m_changes, m_read_snapshot, db)]
  /\ m_changes' = <<>>
  /\ m_read_snapshot' = NoSnapshot
  /\ pc' = "reported"
  /\ UNCHANGED <<db, txnVars, before, after, unpaired>>

\* More than a thousand pages in the WAL: wal_checkpoint_v2 throws if another process is at
\* it, when the snapshots are closed and the changes taken, and before the listener is told.
CheckpointThrows ==
  /\ pc = "committed"
  /\ m_changes' = <<>>
  /\ m_read_snapshot' = NoSnapshot
  /\ pc' = "unreported"
  /\ UNCHANGED <<db, txnVars, listenerVars>>

\* on_change returns, and then COMMIT does.
OnChangeReturns ==
  /\ pc = "reported"
  /\ report' = NoReport /\ before' = NoSnapshot /\ after' = NoSnapshot
  /\ work' = db /\ EndTransaction
  /\ pc' = "idle"
  /\ UNCHANGED <<db, m_changes, m_read_snapshot, unpaired>>

\* Another process commits while the write lock is free.  While the listener runs it is
\* as if it did so afterwards: both snapshots have been read.
ExternalCommit(r, v) ==
  /\ ExternalWriter
  /\ pc \in {"idle", "committed"} /\ ~writing
  /\ pc = "committed" => Cardinality({s \in Rows : db[s] # after[s]}) < MaxForeign
  /\ db' = [db EXCEPT ![r] = v]
  /\ work' = IF pc = "idle" THEN db' ELSE work
  /\ UNCHANGED <<writing, pages, touched, m_changes, m_read_snapshot, pc, listenerVars>>

Threw == pc \in {"threw", "unreported"} /\ UNCHANGED vars

Next ==
  \/ \E r \in Rows : \/ \E v \in Values \cup {Null} : Change(r, v) \/ ExternalCommit(r, v)
                     \/ ChangeUndone(r)
                     \/ \E s \in Rows : ChangeRowid(r, s)
                     \/ DeleteSilently(r)
  \/ WriteNothing
  \/ Rollback
  \/ Commit \/ CommitNothing \/ CommitFails \/ CommitThrows
  \/ OnWal \/ CheckpointThrows \/ OnChangeReturns
  \/ Threw

Spec == Init /\ [][Next]_vars

------------------------------------------------------------------------------
\* Properties.

Reported == UNION {ToSet(report[t]) : t \in Tables}

\* The report explains the commit: for each row the update hook saw, the rows before the
\* commit with the reported changes applied are the rows after it, however the statements
\* changed, rechanged and undid it; except for a row another process has changed since.
ReportExplainsCommit ==
  pc = "reported" =>
    \A r \in ToSet(touched) :
      LET told == {c \in Reported : c.row = r}
      IN db[r] = after[r] =>
           \/ (told = {} /\ after[r] = before[r])
           \/ \E c \in told : c.old_row = before[r] /\ c.new_row = after[r]

\* old_row is the row as it was when the transaction committed, even if another
\* process commits before the WAL hook: the snapshot is taken under the write lock.
OldRowsPrecedeCommit ==
  pc = "reported" => \A c \in Reported : c.old_row = before[c.row]

\* The report holds rows of the transaction that committed and of no other: what a
\* rolled back or failed transaction changed is forgotten.  Each row is reported once,
\* under its own table, however often it changed.
OnlyThisTransaction ==
  \A t \in Tables : \A i, j \in 1 .. Len(report[t]) :
    /\ report[t][i].row \in ToSet(touched) /\ Table(report[t][i].row) = t
    /\ report[t][i].row = report[t][j].row => i = j

\* The read transaction does not outlive the commit it was opened for, and so the next
\* commit hook can open its own, unless a commit hook was not followed by a WAL hook.
SnapshotReleased ==
  (m_read_snapshot # NoSnapshot /\ pc # "committed") \/ pc = "threw" => unpaired
==============================================================================
