----------------------------- MODULE Transaction -----------------------------
(***************************************************************************)
(* TransactionStmts and TransactionGuard (src/sqlite/transaction.cpp) over  *)
(* exec, exec_scalar and reset of Stmt (src/sqlite/stmt.cpp), on one        *)
(* connection.                                                              *)
(*                                                                          *)
(* The four prepared statements are reused by every guard.  A statement     *)
(* whose step failed reports the error again from its next sqlite3_reset,   *)
(* and every execution resets first, so that it throws and runs nothing.    *)
(*                                                                          *)
(* The repository catches no exception between a guard and the caller of    *)
(* the operation: an exception destroys every live guard, then the caller   *)
(* goes on.  An exception that leaves a destructor ends the process.        *)
(*                                                                          *)
(* Another connection to the same file takes and releases locks meanwhile;  *)
(* no busy timeout is set, so a conflict fails at once.                     *)
(***************************************************************************)
EXTENDS Naturals, FiniteSets

CONSTANTS
  Guards,       \* the TransactionGuard objects
  Writes,       \* the rows the operations write; each is written at most once
  Wal,          \* the file is in WAL mode (SqliteStore's file is not)
  EmptySchema   \* sqlite_master may have no row (no table was created yet)

ASSUME TransactionAssumption == Wal \in BOOLEAN /\ EmptySchema \in BOOLEAN

VARIABLES
  m_state,     \* per guard: "absent", or the State of the object
  stale,       \* the statements whose last step failed
  inTxn,       \* the connection is inside BEGIN ... COMMIT
  dirty,       \* the rows written by the open transaction
  durable,     \* the rows committed to the file
  other,       \* what the other connection holds: "exclusive" is PENDING or EXCLUSIVE
  unwinding,   \* an exception is on its way to the caller
  terminated,  \* std::terminate was called
  failures,    \* history: the kinds of failure there were since BEGIN last worked
  wrote,       \* history: the rows written in each guard's body
  returned,    \* history: the rows whose guard's commit() returned
  dropped      \* history: the rows whose guard ended any other way

guardVars == <<m_state, wrote, returned, dropped>>
fileVars == <<inTxn, dirty, durable>>
vars == <<m_state, stale, inTxn, dirty, durable, other, unwinding, terminated,
          failures, wrote, returned, dropped>>

Statements == {"begin", "select", "commit", "rollback"}

\* BEGIN threw, begin_read() threw after its BEGIN, COMMIT threw, SQLite rolled back by
\* itself under a write.
Failures == {"begin", "read", "commit", "fault"}

TypeOK ==
  /\ m_state \in [Guards -> {"absent", "NONE", "COMMIT", "ROLLBACK"}]
  /\ stale \subseteq Statements /\ failures \subseteq Failures
  /\ inTxn \in BOOLEAN /\ unwinding \in BOOLEAN /\ terminated \in BOOLEAN
  /\ dirty \subseteq Writes /\ durable \subseteq Writes
  /\ returned \subseteq Writes /\ dropped \subseteq Writes
  /\ other \in {"none", "reader", "writer", "exclusive"}
  /\ wrote \in [Guards -> SUBSET Writes]

Init ==
  /\ m_state = [g \in Guards |-> "absent"]
  /\ stale = {} /\ failures = {}
  /\ inTxn = FALSE /\ unwinding = FALSE /\ terminated = FALSE
  /\ dirty = {} /\ durable = {} /\ returned = {} /\ dropped = {}
  /\ other = "none"
  /\ wrote = [g \in Guards |-> {}]

------------------------------------------------------------------------------
\* Stmt::exec() and exec_scalar(): reset(), which throws what the last step left behind,
\* then step.

Succeeds(s) == s \notin stale /\ stale' = stale

Fails(s) == stale' = IF s \in stale THEN stale \ {s} ELSE stale \cup {s}

\* Mutant of BeginWorks: BEGIN IMMEDIATE, which takes the write lock at once.
BeginImmediateWorks ==
  "begin" \notin stale /\ ~inTxn /\ other \notin {"writer", "exclusive"}

\* What sqlite3_step needs.  BEGIN is deferred: it takes no lock.  Without a WAL, nobody
\* starts to read under a PENDING lock, and COMMIT waits for the readers.
BeginWorks == "begin" \notin stale /\ ~inTxn
SelectWorks == "select" \notin stale /\ (Wal \/ other # "exclusive")
RollbackWorks == "rollback" \notin stale /\ inTxn
CommitWorks ==
  /\ "commit" \notin stale /\ inTxn
  /\ dirty = {} \/ Wal \/ other # "reader"

Live(states) == {g \in Guards : states[g] # "absent"}

\* An exception leaves the operation; it unwinds while there are guards to destroy.
Throw == unwinding' = (Live(m_state') # {})

ThrowAfter(failure) == Throw /\ failures' = failures \cup {failure}

Ready == ~unwinding /\ ~terminated

------------------------------------------------------------------------------
\* TransactionGuard::TransactionGuard

\* Both constructors execute BEGIN.
Begins(g) ==
  /\ Ready /\ m_state[g] = "absent"
  /\ BeginWorks
  /\ UNCHANGED <<dirty, durable, other, terminated, returned, dropped>>

Constructed(g) ==
  /\ Begins(g)
  /\ inTxn' = TRUE /\ failures' = {}
  /\ m_state' = [m_state EXCEPT ![g] = "NONE"]
  /\ wrote' = [wrote EXCEPT ![g] = {}]
  /\ UNCHANGED unwinding

ConstructWrite(g) == Constructed(g) /\ Succeeds("begin")

\* begin_read() also steps a SELECT on sqlite_master, to take the read lock.
ConstructRead(g) == Constructed(g) /\ SelectWorks /\ Succeeds("select")

\* BEGIN throws: no object, so no destructor.
ConstructFails(g) ==
  /\ Ready /\ m_state[g] = "absent"
  /\ ~BeginWorks /\ Fails("begin")
  /\ UNCHANGED <<guardVars, fileVars, other, terminated>>
  /\ ThrowAfter("begin")

\* begin_read() throws after its BEGIN: no object either, and nobody ends the transaction.
ReadThrows(g) ==
  /\ Begins(g)
  /\ failures' = {"read"}
  /\ UNCHANGED <<m_state, wrote>>
  /\ Throw

\* exec_scalar() finds no row ("not a scalar query").
ReadEmpty(g) ==
  /\ EmptySchema
  /\ ReadThrows(g) /\ SelectWorks /\ Succeeds("select")
  /\ inTxn' = TRUE

\* SQLITE_BUSY, or the error that the last SELECT has left.
ReadFails(g) ==
  /\ ReadThrows(g) /\ ~SelectWorks /\ Fails("select")
  /\ inTxn' = TRUE

\* Any other error of the SELECT.  SQLite ends the transaction when it has no memory or
\* the file cannot be read, and leaves it open when what it reads is damaged.
ReadFault(g) ==
  /\ ReadThrows(g) /\ SelectWorks /\ Fails("select")
  /\ inTxn' \in BOOLEAN

------------------------------------------------------------------------------
\* A statement of the operation itself, inside a guard or not.

InBody(w) ==
  wrote' = [g \in Guards |-> IF m_state[g] = "NONE" THEN wrote[g] \cup {w} ELSE wrote[g]]

New(w) == w \notin durable \cup dirty \cup dropped

Write(w) ==
  /\ Ready /\ New(w) /\ other \notin {"writer", "exclusive"}
  /\ \/ inTxn /\ dirty' = dirty \cup {w} /\ UNCHANGED durable
     \/ /\ ~inTxn /\ (Wal \/ other # "reader")
        /\ durable' = durable \cup {w} /\ UNCHANGED dirty
  /\ InBody(w)
  /\ UNCHANGED <<m_state, stale, inTxn, other, unwinding, terminated, failures, returned,
                 dropped>>

\* SQLITE_BUSY: the statement has no effect and the transaction stays open.
WriteBusy ==
  /\ Ready
  /\ other \in {"writer", "exclusive"} \/ (~inTxn /\ ~Wal /\ other = "reader")
  /\ UNCHANGED <<guardVars, stale, fileVars, other, terminated, failures>>
  /\ Throw

\* SQLITE_FULL and the like: SQLite rolls the whole transaction back.
WriteFault ==
  /\ Ready /\ inTxn
  /\ inTxn' = FALSE /\ dirty' = {}
  /\ UNCHANGED <<guardVars, stale, durable, other, terminated>>
  /\ ThrowAfter("fault")

------------------------------------------------------------------------------
\* TransactionGuard::commit, rollback and the destructor

CommitSucceeds(g) ==
  /\ Ready /\ m_state[g] = "NONE"
  /\ CommitWorks /\ Succeeds("commit")
  /\ m_state' = [m_state EXCEPT ![g] = "COMMIT"]
  /\ inTxn' = FALSE /\ durable' = durable \cup dirty /\ dirty' = {}
  /\ returned' = returned \cup wrote[g]
  /\ UNCHANGED <<other, unwinding, terminated, failures, wrote, dropped>>

\* Mutant of CommitFails: the result of COMMIT is not looked at.
CommitIgnoresResult(g) ==
  /\ Ready /\ m_state[g] = "NONE"
  /\ ~CommitWorks /\ Fails("commit")
  /\ m_state' = [m_state EXCEPT ![g] = "COMMIT"]
  /\ returned' = returned \cup wrote[g]
  /\ UNCHANGED <<fileVars, other, unwinding, terminated, failures, wrote, dropped>>

\* m_state has already changed when the statement throws.
CommitFails(g) ==
  /\ Ready /\ m_state[g] = "NONE"
  /\ ~CommitWorks /\ Fails("commit")
  /\ m_state' = [m_state EXCEPT ![g] = "COMMIT"]
  /\ dropped' = dropped \cup wrote[g]
  /\ UNCHANGED <<fileVars, other, terminated, wrote, returned>>
  /\ ThrowAfter("commit")

\* An unfinished guard whose operation has not thrown is inside its transaction
\* (SqliteProofs), so an explicit ROLLBACK works.
RollbackSucceeds(g) ==
  /\ Ready /\ m_state[g] = "NONE"
  /\ RollbackWorks /\ Succeeds("rollback")
  /\ m_state' = [m_state EXCEPT ![g] = "ROLLBACK"]
  /\ inTxn' = FALSE /\ dirty' = {}
  /\ dropped' = dropped \cup wrote[g]
  /\ UNCHANGED <<durable, other, unwinding, terminated, failures, wrote, returned>>

\* The second commit() or rollback() is a usage error; it still sets m_state.
UsedTwice(g) ==
  /\ Ready /\ m_state[g] \in {"COMMIT", "ROLLBACK"}
  /\ \E s \in {"COMMIT", "ROLLBACK"} : m_state' = [m_state EXCEPT ![g] = s]
  /\ UNCHANGED <<stale, fileVars, other, terminated, failures, wrote, returned, dropped>>
  /\ Throw

DestroyCommon(g) ==
  /\ ~terminated /\ m_state[g] # "absent"
  /\ m_state' = [m_state EXCEPT ![g] = "absent"]
  /\ unwinding' = (unwinding /\ Live(m_state') # {})
  /\ UNCHANGED <<other, failures, wrote, returned>>

\* Mutants of Destroy: an unfinished guard commits, or does nothing.
DestroyCommits(g) ==
  /\ DestroyCommon(g)
  /\ IF m_state[g] = "NONE"
       THEN /\ CommitWorks /\ Succeeds("commit")
            /\ inTxn' = FALSE /\ durable' = durable \cup dirty /\ dirty' = {}
            /\ dropped' = dropped \cup wrote[g]
       ELSE UNCHANGED <<stale, fileVars, dropped>>
  /\ UNCHANGED terminated

DestroyForgets(g) ==
  /\ DestroyCommon(g)
  /\ dropped' = IF m_state[g] = "NONE" THEN dropped \cup wrote[g] ELSE dropped
  /\ UNCHANGED <<stale, fileVars, terminated>>

\* The object goes out of scope; only an unfinished one rolls back.
Destroy(g) ==
  /\ DestroyCommon(g)
  /\ IF m_state[g] = "NONE"
       THEN /\ RollbackWorks /\ Succeeds("rollback")
            /\ inTxn' = FALSE /\ dirty' = {}
            /\ dropped' = dropped \cup wrote[g]
       ELSE UNCHANGED <<stale, inTxn, dirty, dropped>>
  /\ UNCHANGED <<durable, terminated>>

\* Mutant of DestroyTerminates: a guard that was rolled back rolls back again.
DestroyUnlessCommitted(g) ==
  /\ DestroyCommon(g)
  /\ m_state[g] # "COMMIT" /\ ~RollbackWorks /\ Fails("rollback")
  /\ terminated' = TRUE
  /\ dropped' = dropped \cup wrote[g]
  /\ UNCHANGED fileVars

\* ROLLBACK throws out of the destructor.
DestroyTerminates(g) ==
  /\ DestroyCommon(g)
  /\ m_state[g] = "NONE" /\ ~RollbackWorks /\ Fails("rollback")
  /\ terminated' = TRUE
  /\ dropped' = dropped \cup wrote[g]
  /\ UNCHANGED fileVars

\* The other connection; only one of the two can hold the write lock.
OtherConnection ==
  /\ other' \in {"none", "reader", "writer", "exclusive"} \ {other}
  /\ other' \in {"writer", "exclusive"} => dirty = {}
  /\ UNCHANGED <<guardVars, stale, fileVars, unwinding, terminated, failures>>

Terminated == terminated /\ UNCHANGED vars

Next ==
  \/ \E g \in Guards :
       \/ ConstructWrite(g) \/ ConstructRead(g) \/ ConstructFails(g)
       \/ ReadEmpty(g) \/ ReadFails(g) \/ ReadFault(g)
       \/ CommitSucceeds(g) \/ CommitFails(g) \/ RollbackSucceeds(g) \/ UsedTwice(g)
       \/ Destroy(g) \/ DestroyTerminates(g)
  \/ \E w \in Writes : Write(w)
  \/ WriteBusy \/ WriteFault
  \/ OtherConnection
  \/ Terminated

Spec == Init /\ [][Next]_vars

------------------------------------------------------------------------------
\* Properties.

\* What was written under a guard that was not committed (rolled back, destroyed,
\* or whose commit() threw) never reaches the file, whatever later guards do.
DroppedNeverDurable == dropped \cap durable = {}

\* What was written under a guard whose commit() returned is in the file.
CommitMeansDurable == returned \subseteq durable

\* ~TransactionGuard throws, that is, ends the process, only after SQLite has rolled back
\* by itself the transaction that its guard began: otherwise, whatever the nesting, the
\* locks and the exceptions, the ROLLBACK it sends has a transaction to end.
DestructorNeverThrows == terminated => "fault" \in failures

\* Guards leave a transaction open, which keeps others from the file and every later
\* guard from beginning, in two ways only: its COMMIT threw, or the SELECT with which
\* begin_read() follows its BEGIN did.  What failed in earlier transactions, or in a BEGIN,
\* leaves nothing behind.
NoTransactionLeftOpen ==
  Live(m_state) = {} /\ inTxn => failures \cap {"commit", "read"} # {}

\* With no guard alive, BEGIN fails only if the one before did (the statement reports
\* its error again), or the transaction it began was left open by a COMMIT or a
\* begin_read() that failed.  A lock of the other connection alone fails no BEGIN: it
\* does so by making a COMMIT or a begin_read() fail first.
CreationBegins ==
  [][\A g \in Guards :
       Live(m_state) = {} /\ ConstructFails(g)
         => failures \cap {"begin", "commit", "read"} # {}]_vars

\* When the guards that were created are gone there is no transaction (transaction.hpp: "If
\* neither rollback or commit is called (or an exception is throw), the transaction will be
\* rolled back").
GoneMeansRolledBack == Live(m_state) = {} /\ "read" \notin failures => ~inTxn
==============================================================================
