---------------------------- MODULE SqliteProofs ----------------------------
(***************************************************************************)
(* Theorems about the statements of a connection: as the cursors that read  *)
(* their rows (Statement), and as the BEGIN, COMMIT and ROLLBACK of a guard  *)
(* (Transaction); for any cursors, values and versions, guards and writes.   *)
(***************************************************************************)
EXTENDS Statement, Transaction, TLAPS

------------------------------------------------------------------------------
(* Transaction: what was not committed never reaches the file, what was      *)
(* committed does, and a transaction is left open, or a destructor throws,   *)
(* only after the failures the properties name.                              *)

\* An unfinished guard is the only one, and the open transaction is its own: that is
\* what a COMMIT that failed, and stays open, must not be confused with.
GuardInv ==
  /\ ~inTxn => dirty = {}
  /\ \A g \in Guards : m_state[g] = "NONE" /\ Ready => inTxn
  /\ \A g, h \in Guards : m_state[g] = "NONE" /\ m_state[h] = "NONE" => g = h

WritesInv ==
  /\ \A g \in Guards : m_state[g] = "NONE" =>
       /\ wrote[g] \cap durable = {}
       /\ inTxn => wrote[g] \subseteq dirty
       /\ dirty \cap dropped = {}
  /\ dropped \cap durable = {}
  /\ returned \subseteq durable

\* Since BEGIN last worked: an unfinished guard is inside its transaction, even while an
\* exception unwinds, unless there was a fault; the transaction belongs to one unless
\* COMMIT or begin_read() failed; and BEGIN is stale only if one has failed.  No ROLLBACK
\* ever has.
FailureInv ==
  /\ terminated => "fault" \in failures
  /\ ~terminated => "rollback" \notin stale
  /\ \A g \in Guards : m_state[g] = "NONE" /\ ~inTxn => "fault" \in failures
  /\ inTxn => \/ \E g \in Guards : m_state[g] = "NONE"
              \/ failures \cap {"commit", "read"} # {}
  /\ "begin" \in stale => "begin" \in failures

TransactionInv == TypeOK /\ GuardInv /\ WritesInv /\ FailureInv

\* The ways in which begin_read() throws after its BEGIN.
ReadStops(g) == ReadEmpty(g) \/ ReadFails(g) \/ ReadFault(g)

LEMMA TypePreserved == TypeOK /\ [Next]_vars => TypeOK'
<1> SUFFICES ASSUME TypeOK, [Next]_vars PROVE TypeOK'
  OBVIOUS
<1> USE DEF TypeOK, guardVars, fileVars, Statements, Failures, ThrowAfter
<1>1. CASE \E g \in Guards : ConstructWrite(g) \/ ConstructRead(g)
  BY <1>1 DEF ConstructWrite, ConstructRead, Constructed, Begins, Succeeds
<1>2. CASE \E g \in Guards : ConstructFails(g)
  BY <1>2 DEF ConstructFails, Fails, Throw
<1>11. CASE \E g \in Guards : ReadStops(g)
  BY <1>11 DEF ReadStops, ReadEmpty, ReadFails, ReadFault, ReadThrows, Begins, Succeeds,
               Fails, Throw
<1>3. CASE \E g \in Guards : CommitSucceeds(g) \/ CommitFails(g)
  BY <1>3 DEF CommitSucceeds, CommitFails, Succeeds, Fails, Throw
<1>4. CASE \E g \in Guards : RollbackSucceeds(g)
  BY <1>4 DEF RollbackSucceeds, Succeeds
<1>5. CASE \E g \in Guards : UsedTwice(g)
  BY <1>5 DEF UsedTwice, Throw
<1>6. CASE \E g \in Guards : Destroy(g)
  BY <1>6 DEF Destroy, DestroyCommon, Succeeds
<1>7. CASE \E g \in Guards : DestroyTerminates(g)
  BY <1>7 DEF DestroyTerminates, DestroyCommon, Fails
<1>8. CASE \E w \in Writes : Write(w)
  <2> PICK w \in Writes : Write(w)
    BY <1>8
  <2>1. wrote' \in [Guards -> SUBSET Writes]
    BY DEF Write, InBody
  <2> QED
    BY <2>1 DEF Write
<1>9. CASE WriteBusy \/ WriteFault \/ OtherConnection
  BY <1>9 DEF WriteBusy, WriteFault, OtherConnection, Throw
<1>10. CASE UNCHANGED vars
  BY <1>10 DEF vars
<1> QED
  BY <1>1, <1>2, <1>3, <1>4, <1>5, <1>6, <1>7, <1>8, <1>9, <1>10, <1>11
  DEF Next, Terminated, ReadStops

LEMMA GuardPreserved ==
  ASSUME TypeOK, GuardInv, [Next]_vars
  PROVE  GuardInv'
<1> USE DEF TypeOK, GuardInv, Ready, guardVars, fileVars, ThrowAfter
<1>1. CASE \E g \in Guards : ConstructWrite(g) \/ ConstructRead(g)
  BY <1>1 DEF ConstructWrite, ConstructRead, Constructed, Begins, BeginWorks
<1>2. CASE \E g \in Guards : ConstructFails(g)
  BY <1>2 DEF ConstructFails, Throw, Live
<1>13. CASE \E g \in Guards : ReadStops(g)
  BY <1>13 DEF ReadStops, ReadEmpty, ReadFails, ReadFault, ReadThrows, Begins, BeginWorks,
               Throw, Live
<1>3. CASE \E g \in Guards : CommitSucceeds(g)
  BY <1>3 DEF CommitSucceeds
<1>4. CASE \E g \in Guards : CommitFails(g)
  BY <1>4 DEF CommitFails, Throw, Live
<1>5. CASE \E g \in Guards : RollbackSucceeds(g)
  BY <1>5 DEF RollbackSucceeds
<1>6. CASE \E g \in Guards : UsedTwice(g)
  BY <1>6 DEF UsedTwice, Throw, Live
<1>7. CASE \E g \in Guards : Destroy(g)
  BY <1>7 DEF Destroy, DestroyCommon, Live
<1>8. CASE \E g \in Guards : DestroyTerminates(g)
  BY <1>8 DEF DestroyTerminates, DestroyCommon
<1>9. CASE \E w \in Writes : Write(w)
  BY <1>9 DEF Write
<1>10. CASE WriteBusy \/ WriteFault
  BY <1>10 DEF WriteBusy, WriteFault, Throw, Live
<1>11. CASE OtherConnection
  BY <1>11 DEF OtherConnection
<1>12. CASE UNCHANGED vars
  BY <1>12 DEF vars
<1> QED
  BY <1>1, <1>2, <1>3, <1>4, <1>5, <1>6, <1>7, <1>8, <1>9, <1>10, <1>11, <1>12,
     <1>13
  DEF Next, Terminated, ReadStops

LEMMA WritesPreserved ==
  ASSUME TypeOK, GuardInv, WritesInv, [Next]_vars
  PROVE  WritesInv'
<1> USE DEF TypeOK, WritesInv, guardVars, fileVars
<1>1. CASE \E g \in Guards : ConstructWrite(g) \/ ConstructRead(g)
  BY <1>1 DEF ConstructWrite, ConstructRead, Constructed, Begins, BeginWorks, GuardInv
<1>2. CASE \E g \in Guards : ConstructFails(g)
  BY <1>2 DEF ConstructFails
<1>3. CASE \E g \in Guards : ReadStops(g)
  BY <1>3 DEF ReadStops, ReadEmpty, ReadFails, ReadFault, ReadThrows, Begins, BeginWorks,
              GuardInv, Ready
<1>4. CASE \E g \in Guards : CommitSucceeds(g)
  BY <1>4 DEF CommitSucceeds, CommitWorks, GuardInv
<1>5. CASE \E g \in Guards : CommitFails(g)
  BY <1>5 DEF CommitFails, GuardInv
<1>6. CASE \E g \in Guards : RollbackSucceeds(g)
  BY <1>6 DEF RollbackSucceeds, GuardInv
<1>7. CASE \E g \in Guards : UsedTwice(g)
  BY <1>7 DEF UsedTwice
<1>8. CASE \E g \in Guards : Destroy(g)
  BY <1>8 DEF Destroy, DestroyCommon, GuardInv
<1>9. CASE \E g \in Guards : DestroyTerminates(g)
  BY <1>9 DEF DestroyTerminates, DestroyCommon, GuardInv
<1>10. CASE \E w \in Writes : Write(w)
  BY <1>10 DEF Write, New, InBody, GuardInv
<1>11. CASE WriteBusy
  BY <1>11 DEF WriteBusy
<1>12. CASE WriteFault
  BY <1>12 DEF WriteFault
<1>13. CASE OtherConnection
  BY <1>13 DEF OtherConnection
<1>14. CASE UNCHANGED vars
  BY <1>14 DEF vars
<1> QED
  BY <1>1, <1>2, <1>3, <1>4, <1>5, <1>6, <1>7, <1>8, <1>9, <1>10, <1>11, <1>12,
     <1>13, <1>14 DEF Next, Terminated, ReadStops

LEMMA FailurePreserved ==
  ASSUME TypeOK, GuardInv, FailureInv, [Next]_vars
  PROVE  FailureInv'
<1> USE DEF TypeOK, FailureInv, guardVars, fileVars, ThrowAfter
<1>1. CASE \E g \in Guards : ConstructWrite(g) \/ ConstructRead(g)
  BY <1>1 DEF ConstructWrite, ConstructRead, Constructed, Begins, BeginWorks, Ready,
              Succeeds, GuardInv
<1>2. CASE \E g \in Guards : ConstructFails(g)
  BY <1>2 DEF ConstructFails, Fails
<1>3. CASE \E g \in Guards : ReadStops(g)
  BY <1>3 DEF ReadStops, ReadEmpty, ReadFails, ReadFault, ReadThrows, Begins, BeginWorks,
              Ready, Succeeds, Fails, GuardInv
<1>4. CASE \E g \in Guards : CommitSucceeds(g)
  BY <1>4 DEF CommitSucceeds, Succeeds, GuardInv
<1>5. CASE \E g \in Guards : CommitFails(g)
  BY <1>5 DEF CommitFails, Fails
<1>6. CASE \E g \in Guards : RollbackSucceeds(g)
  BY <1>6 DEF RollbackSucceeds, Succeeds, GuardInv
<1>7. CASE \E g \in Guards : UsedTwice(g)
  BY <1>7 DEF UsedTwice
<1>8. CASE \E g \in Guards : Destroy(g)
  BY <1>8 DEF Destroy, DestroyCommon, Succeeds, GuardInv
<1>9. CASE \E g \in Guards : DestroyTerminates(g)
  BY <1>9 DEF DestroyTerminates, DestroyCommon, RollbackWorks, Fails, GuardInv
<1>10. CASE \E w \in Writes : Write(w)
  BY <1>10 DEF Write
<1>11. CASE WriteBusy \/ OtherConnection
  BY <1>11 DEF WriteBusy, OtherConnection
<1>12. CASE WriteFault
  BY <1>12 DEF WriteFault
<1>13. CASE UNCHANGED vars
  BY <1>13 DEF vars
<1> QED
  BY <1>1, <1>2, <1>3, <1>4, <1>5, <1>6, <1>7, <1>8, <1>9, <1>10, <1>11, <1>12,
     <1>13 DEF Next, Terminated, ReadStops

\* The inductive invariant holds in every reachable state.
THEOREM TransactionInvHolds == Spec => []TransactionInv
<1>1. Init => TransactionInv
  BY TransactionAssumption
  DEF Init, TransactionInv, TypeOK, GuardInv, WritesInv, FailureInv, Statements, Failures, Ready
<1>2. TransactionInv /\ [Next]_vars => TransactionInv'
  BY TypePreserved, GuardPreserved, WritesPreserved, FailurePreserved DEF TransactionInv
<1> QED
  BY <1>1, <1>2, PTL DEF Spec

\* Typing of the guards, the statements and the file.
THEOREM TypeCorrectness == Spec => []TypeOK
BY TransactionInvHolds, PTL DEF TransactionInv

\* A guard that ended without a successful commit() leaves no trace in the file.
THEOREM Atomicity == Spec => []DroppedNeverDurable
<1>1. TransactionInv => DroppedNeverDurable
  BY DEF TransactionInv, WritesInv, DroppedNeverDurable
<1> QED
  BY <1>1, TransactionInvHolds, PTL

\* commit() returns only when the guard's writes are in the file.
THEOREM Durability == Spec => []CommitMeansDurable
<1>1. TransactionInv => CommitMeansDurable
  BY DEF TransactionInv, WritesInv, CommitMeansDurable
<1> QED
  BY <1>1, TransactionInvHolds, PTL

\* ~TransactionGuard ends the process only after SQLite has rolled back, by itself, the
\* transaction of that guard.
THEOREM DestructorSafety == Spec => []DestructorNeverThrows
<1>1. TransactionInv => DestructorNeverThrows
  BY DEF TransactionInv, FailureInv, DestructorNeverThrows
<1> QED
  BY <1>1, TransactionInvHolds, PTL

\* A transaction without a guard is one whose COMMIT has failed, or the SELECT that
\* begin_read() sends after its BEGIN: by a lock, a damaged file, or an error it kept.
THEOREM NothingLeftOpen == Spec => []NoTransactionLeftOpen
<1>1. TransactionInv => NoTransactionLeftOpen
  BY DEF TransactionInv, FailureInv, NoTransactionLeftOpen, Live
<1> QED
  BY <1>1, TransactionInvHolds, PTL

\* With no guard alive, BEGIN fails only if the last one did, or if the transaction that
\* it began was left open by a failing COMMIT or begin_read(); it never fails by a lock.
THEOREM GuardsBegin == Spec => CreationBegins
<1>1. TransactionInv => \A g \in Guards : Live(m_state) = {} /\ ConstructFails(g)
                => failures \cap {"begin", "commit", "read"} # {}
  BY DEF TransactionInv, FailureInv, Live, ConstructFails, BeginWorks
<1> QED
  BY <1>1, TransactionInvHolds, PTL DEF CreationBegins, vars

------------------------------------------------------------------------------
(* Statement: a cursor nobody disturbs reads one version of the rows, all of *)
(* them, and can be trusted to say when it is done.                          *)

\* A statement stands only on a row that there is.
RowExists == stmt.at = "row" => stmt.pos \in 1 .. Size[stmt.version][bound]

StatementInv == StatementTypeOK /\ RowExists /\ ReadsOneSnapshot /\ ValidIsOnARow /\ ExhaustedIsComplete

LEMMA SizeType ==
  ASSUME NEW v \in Versions, NEW k \in Values
  PROVE  Size[v][k] \in Nat
BY StatementAssumption DEF Versions, Values

\* What sqlite3_step finds is a row that there is, or the end of the rows.
LEMMA RowAtResult ==
  ASSUME bound \in Values, NEW v \in Versions, NEW i \in Nat \ {0}
  PROVE  /\ RowAt(v, i) \in Stmt
         /\ RowAt(v, i).at = "row" =>
              RowAt(v, i).pos = i /\ RowAt(v, i).version = v /\ i \in 1 .. Size[v][bound]
         /\ RowAt(v, i).at \in {"row", "done"}
         /\ RowAt(v, i).at = "done" => i > Size[v][bound]
BY SizeType, StatementAssumption DEF RowAt, Stopped, Stmt, Versions

LEMMA StoppedType ==
  ASSUME NEW at \in {"ready", "done", "failed"}
  PROVE  Stopped(at) \in Stmt /\ Stopped(at).at = at
BY StatementAssumption DEF Stopped, Stmt, Versions

LEMMA StmtFields == StatementTypeOK => stmt.version \in Versions /\ stmt.pos \in Nat
BY StatementAssumption DEF StatementTypeOK, Stmt, Versions

LEMMA StepResult ==
  ASSUME StatementTypeOK
  PROVE  /\ Step \in Stmt /\ Step.at \in {"row", "done"}
         /\ Step.at = "row" => Step.pos \in 1 .. Size[Step.version][bound]
         /\ stmt.at = "row" /\ Step.at = "row" =>
              Step.pos = stmt.pos + 1 /\ Step.version = stmt.version
         /\ stmt.at = "row" /\ Step.at = "done" =>
              stmt.pos + 1 > Size[stmt.version][bound]
<1>1. CASE stmt.at = "row"
  <2>1. stmt.version \in Versions /\ stmt.pos + 1 \in Nat \ {0} /\ bound \in Values
    BY StmtFields DEF StatementTypeOK
  <2>2. Step = RowAt(stmt.version, stmt.pos + 1)
    BY <1>1 DEF Step
  <2> QED BY <1>1, <2>1, <2>2, RowAtResult
<1>2. CASE stmt.at # "row"
  <2>1. version \in Versions /\ 1 \in Nat \ {0} /\ bound \in Values
    BY DEF StatementTypeOK
  <2>2. Step = RowAt(version, 1)
    BY <1>2 DEF Step
  <2> QED BY <1>2, <2>1, <2>2, RowAtResult
<1> QED BY <1>1, <1>2

LEMMA ValuesType == StatementTypeOK => values \in Rows
BY StatementAssumption DEF StatementTypeOK, Stmt, values, NullRow, Rows, Versions, Values

LEMMA NothingRead == <<>> \in Seq(Rows)
OBVIOUS

\* The cursors as an operation on their statement leaves them.
LEMMA DisturbType ==
  ASSUME StatementTypeOK, NEW b
  PROVE  /\ DisturbAll \in [Cursors -> Cursor]
         /\ Disturb(cursor, b) \in [Cursors -> Cursor]
         /\ \A c \in Cursors : ~(DisturbAll[c].live /\ DisturbAll[c].sound)
                                 \/ ~cursor[c].live
         /\ \A c \in Cursors : DisturbAll[c].live = cursor[c].live
         /\ \A c \in Cursors : c # b =>
              Disturb(cursor, b)[c].live = cursor[c].live
              /\ ~(Disturb(cursor, b)[c].live /\ Disturb(cursor, b)[c].sound)
         /\ b \in Cursors => Disturb(cursor, b)[b] = cursor[b]
<1> DEFINE quiet(c) == [cursor[c] EXCEPT !.sound = FALSE, !.read = <<>>]
<1>1. \A c \in Cursors : cursor[c] \in Cursor
  BY DEF StatementTypeOK
<1>2. \A c \in Cursors : /\ quiet(c) \in Cursor
                         /\ quiet(c).live = cursor[c].live /\ ~quiet(c).sound
  BY <1>1, NothingRead DEF Cursor
<1>3. \A c \in Cursors : DisturbAll[c] = IF ~cursor[c].live THEN cursor[c] ELSE quiet(c)
  BY DEF DisturbAll
<1>4. \A c \in Cursors : Disturb(cursor, b)[c] =
                           IF c = b \/ ~cursor[c].live THEN cursor[c] ELSE quiet(c)
  BY DEF Disturb
<1>5. DisturbAll \in [Cursors -> Cursor] /\ Disturb(cursor, b) \in [Cursors -> Cursor]
  BY <1>1, <1>2 DEF DisturbAll, Disturb
<1> HIDE DEF quiet
<1> QED BY <1>2, <1>3, <1>4, <1>5

LEMMA NoCursorType == NoCursor \in Cursor /\ ~NoCursor.live
BY StatementAssumption DEF NoCursor, Cursor, Versions, Values

------------------------------------------------------------------------------

LEMMA StatementInvInit == StatementInit => StatementInv
<1> SUFFICES ASSUME StatementInit PROVE StatementInv
  OBVIOUS
<1>1. StatementTypeOK
  <2>1. version \in Versions /\ bound \in Values
    BY StatementAssumption DEF StatementInit, Versions, Values
  <2>4. startFailed \in BOOLEAN
    BY DEF StatementInit
  <2>2. stmt \in Stmt
    BY StoppedType DEF StatementInit
  <2>3. cursor \in [Cursors -> Cursor]
    BY NoCursorType DEF StatementInit
  <2> QED BY <2>1, <2>2, <2>3, <2>4 DEF StatementTypeOK
<1>2. stmt.at = "ready"
  BY StoppedType DEF StatementInit
<1>3. \A c \in Cursors : ~Sound(c)
  BY NoCursorType DEF StatementInit, Sound
<1> QED BY <1>1, <1>2, <1>3
       DEF StatementInv, RowExists, ReadsOneSnapshot, ValidIsOnARow, ExhaustedIsComplete

\* A step that leaves no sound cursor, and the statement on no row, keeps it all.
LEMMA NothingSound ==
  ASSUME StatementTypeOK', \A c \in Cursors : ~Sound(c)', stmt'.at # "row"
  PROVE  StatementInv'
BY DEF StatementInv, RowExists, ReadsOneSnapshot, ValidIsOnARow, ExhaustedIsComplete

LEMMA StopAll ==
  ASSUME StatementInv, NEW at \in {"ready", "failed"}, stmt' = Stopped(at), cursor' = DisturbAll,
         startFailed' \in BOOLEAN, UNCHANGED <<version, bound>>
  PROVE  StatementInv'
<1>1. StatementTypeOK'
  BY StoppedType, DisturbType DEF StatementInv, StatementTypeOK
<1>2. \A c \in Cursors : ~Sound(c)'
  BY DisturbType DEF StatementInv, Sound
<1>3. stmt'.at # "row"
  BY StoppedType
<1> QED BY <1>1, <1>2, <1>3, NothingSound

LEMMA ExecQueryStep ==
  ASSUME StatementInv, NEW c \in Cursors, exec_query(c)
  PROVE  StatementInv'
<1> DEFINE s == RowAt(version, 1)
           new == [live |-> TRUE, valid |-> s.at # "done", read |-> <<>>,
                   version |-> version, key |-> bound, sound |-> TRUE, failed |-> FALSE]
<1>1. StatementTypeOK /\ version \in Versions /\ bound \in Values /\ 1 \in Nat \ {0}
  BY DEF StatementInv, StatementTypeOK
<1>2. /\ stmt' = s /\ version' = version /\ bound' = bound /\ startFailed' = FALSE
      /\ cursor' = [DisturbAll EXCEPT ![c] = new]
  BY DEF exec_query
<1>3. /\ s \in Stmt /\ s.at \in {"row", "done"}
      /\ s.at = "row" => s.pos = 1 /\ s.version = version /\ 1 \in 1 .. Size[version][bound]
      /\ s.at = "done" => 1 > Size[version][bound]
  BY <1>1, RowAtResult
<1> HIDE DEF s
<1>4. new \in Cursor
  BY <1>1 DEF Cursor
<1>5. /\ cursor' \in [Cursors -> Cursor] /\ cursor'[c] = new
      /\ \A d \in Cursors : d # c => ~Sound(d)'
  BY <1>1, <1>2, <1>4, DisturbType DEF Sound
<1>6. StatementTypeOK'
  BY <1>1, <1>2, <1>3, <1>5 DEF StatementTypeOK
<1>7. RowExists'
  BY <1>2, <1>3 DEF RowExists
<1>8. Len(cursor'[c].read) = 0 /\ cursor'[c].version = version /\ cursor'[c].key = bound
      /\ (cursor'[c].valid <=> s.at # "done")
  <2>1. new.valid <=> s.at # "done"
    BY Zenon
  <2>2. /\ Len(new.read) = 0 /\ new.version = version /\ new.key = bound
    OBVIOUS
  <2> QED BY <1>5, <2>1, <2>2, Zenon
<1> HIDE DEF new
<1>9. ReadsOneSnapshot'
  BY <1>5, <1>8 DEF ReadsOneSnapshot
<1>10. ValidIsOnARow'
  <2> SUFFICES ASSUME cursor'[c].valid
               PROVE  /\ stmt'.at = "row" /\ stmt'.pos = Len(cursor'[c].read) + 1
                      /\ stmt'.version = cursor'[c].version /\ bound' = cursor'[c].key
    BY <1>5 DEF ValidIsOnARow
  <2>1. s.at = "row"
    BY <1>3, <1>8
  <2> QED BY <1>2, <1>3, <1>8, <2>1
<1>11. ExhaustedIsComplete'
  <2> SUFFICES ASSUME ~cursor'[c].valid
               PROVE  Len(cursor'[c].read) = Size[cursor'[c].version][cursor'[c].key]
    BY <1>5 DEF ExhaustedIsComplete
  <2>1. 1 > Size[version][bound] /\ Size[version][bound] \in Nat
    BY <1>1, <1>3, <1>8, SizeType
  <2> QED BY <1>8, <2>1
<1> QED BY <1>6, <1>7, <1>9, <1>10, <1>11 DEF StatementInv

LEMMA NextStep ==
  ASSUME StatementInv, NEW c \in Cursors, next(c)
  PROVE  StatementInv'
<1> DEFINE old == cursor[c]
           read == IF old.sound THEN Append(old.read, values) ELSE <<>>
           new == [old EXCEPT !.valid = Step.at # "done", !.read = read]
<1>1. StatementTypeOK /\ old \in Cursor /\ values \in Rows
  BY ValuesType DEF StatementInv, StatementTypeOK
<1>2. /\ old.live /\ old.valid /\ stmt' = Step
      /\ version' = version /\ bound' = bound /\ startFailed' = FALSE
  BY DEF next
<1>3. cursor' = [Disturb(cursor, c) EXCEPT ![c] = new]
  <2>1. Disturb(cursor, c)[c] = old
    BY <1>1, DisturbType
  <2> QED BY <1>1, <1>2, <2>1, DisturbType DEF next, limit_rows
<1>4. read \in Seq(Rows)
  BY <1>1 DEF Cursor
<1>5. /\ new \in Cursor /\ new.valid = (Step.at # "done") /\ new.read = read
      /\ new.live = old.live /\ new.sound = old.sound
      /\ new.version = old.version /\ new.key = old.key
  BY <1>1, <1>4 DEF Cursor
<1> HIDE DEF new
<1>6. /\ cursor' \in [Cursors -> Cursor] /\ cursor'[c] = new
      /\ \A d \in Cursors : d # c => ~Sound(d)'
  BY <1>1, <1>3, <1>5, DisturbType DEF Sound
<1>7. StatementTypeOK'
  BY <1>1, <1>2, <1>6, StepResult DEF StatementTypeOK
<1>8. RowExists'
  BY <1>1, <1>2, StepResult DEF RowExists
<1>9. ASSUME old.sound
      PROVE  /\ stmt.at = "row" /\ stmt.pos = Len(old.read) + 1
             /\ stmt.version = old.version /\ bound = old.key
             /\ \A i \in 1 .. Len(old.read) : old.read[i] = <<old.version, old.key, i>>
             /\ read = Append(old.read, values) /\ Len(read) = Len(old.read) + 1
             /\ Len(old.read) \in Nat
             /\ \A i \in 1 .. Len(read) :
                  read[i] = IF i <= Len(old.read) THEN old.read[i] ELSE values
  BY <1>1, <1>2, <1>9 DEF StatementInv, ValidIsOnARow, ReadsOneSnapshot, Sound, Cursor
<1> HIDE DEF read
<1>10. ReadsOneSnapshot'
  <2> SUFFICES ASSUME old.sound, NEW i \in 1 .. Len(read)
               PROVE  read[i] = <<old.version, old.key, i>>
    BY <1>5, <1>6 DEF ReadsOneSnapshot, Sound
  <2>1. CASE i <= Len(old.read)
    BY <1>9, <2>1
  <2>2. CASE ~(i <= Len(old.read))
    <3>1. i = stmt.pos
      BY <1>9, <2>2
    <3> QED BY <1>9, <2>2, <3>1 DEF values
  <2> QED BY <2>1, <2>2
<1>11. ValidIsOnARow'
  <2> SUFFICES ASSUME old.sound, new.valid
               PROVE  /\ stmt'.at = "row" /\ stmt'.pos = Len(read) + 1
                      /\ stmt'.version = old.version /\ bound = old.key
    BY <1>2, <1>5, <1>6 DEF ValidIsOnARow, Sound
  <2>1. Step.at = "row"
    BY <1>1, <1>5, StepResult
  <2> QED BY <1>1, <1>2, <1>9, <2>1, StepResult
<1>12. ExhaustedIsComplete'
  <2> SUFFICES ASSUME old.sound, ~new.valid
               PROVE  Len(read) = Size[old.version][old.key]
    BY <1>5, <1>6 DEF ExhaustedIsComplete, Sound
  <2>1. stmt.pos + 1 > Size[stmt.version][bound]
    BY <1>1, <1>5, <1>9, StepResult
  <2>2. stmt.pos \in 1 .. Size[stmt.version][bound]
    BY <1>9 DEF StatementInv, RowExists
  <2>3. Size[stmt.version][bound] \in Nat
    BY <1>1, StmtFields, SizeType DEF StatementTypeOK
  <2> QED BY <1>9, <2>1, <2>2, <2>3
<1> QED BY <1>7, <1>8, <1>10, <1>11, <1>12 DEF StatementInv

\* The steps after which no cursor is sound but those the step does not touch.
LEMMA StopOne ==
  ASSUME StatementInv, NEW c \in Cursors, NEW at \in {"ready", "failed"}, NEW new \in Cursor,
         ~new.live \/ ~new.sound,
         stmt' = Stopped(at), cursor' = [Disturb(cursor, c) EXCEPT ![c] = new],
         startFailed' = FALSE, UNCHANGED <<version, bound>>
  PROVE  StatementInv'
<1>1. StatementTypeOK
  BY DEF StatementInv
<1>2. cursor' \in [Cursors -> Cursor] /\ \A d \in Cursors : ~Sound(d)'
  BY <1>1, DisturbType DEF Sound
<1>3. StatementTypeOK' /\ stmt'.at # "row"
  BY <1>1, <1>2, StoppedType DEF StatementTypeOK
<1> QED BY <1>2, <1>3, NothingSound

LEMMA NextFailsStep ==
  ASSUME StatementInv, NEW c \in Cursors, NextFails(c)
  PROVE  StatementInv'
<1> DEFINE new == [cursor[c] EXCEPT !.failed = TRUE, !.sound = FALSE, !.read = <<>>]
<1>1. StatementTypeOK /\ cursor[c] \in Cursor
  BY DEF StatementInv, StatementTypeOK
<1>2. new \in Cursor /\ ~new.sound
  BY <1>1, NothingRead DEF Cursor
<1>3. cursor' = [Disturb(cursor, c) EXCEPT ![c] = new]
  <2>1. Disturb(cursor, c)[c] = cursor[c]
    BY <1>1, DisturbType
  <2> QED BY <1>1, <2>1, DisturbType DEF NextFails
<1>4. stmt' = Stopped("failed") /\ startFailed' = FALSE /\ UNCHANGED <<version, bound>>
  BY DEF NextFails
<1> HIDE DEF new
<1> QED BY <1>2, <1>3, <1>4, StopOne

\* A step that changes neither the statement nor a cursor, and rebinds only when the
\* statement is on no row.
LEMMA QuietStep ==
  ASSUME StatementInv, UNCHANGED <<stmt, cursor, startFailed>>, version' \in Versions,
         bound' \in Values, stmt.at = "row" => bound' = bound
  PROVE  StatementInv'
<1>1. StatementTypeOK'
  BY DEF StatementInv, StatementTypeOK
<1>2. RowExists'
  BY DEF StatementInv, RowExists
<1>3. ReadsOneSnapshot' /\ ExhaustedIsComplete'
  BY DEF StatementInv, ReadsOneSnapshot, ExhaustedIsComplete, Sound
<1>4. ValidIsOnARow'
  BY DEF StatementInv, ValidIsOnARow, Sound
<1> QED BY <1>1, <1>2, <1>3, <1>4 DEF StatementInv

LEMMA StatementInvNext == StatementInv /\ [StatementNext]_statementVars => StatementInv'
<1> SUFFICES ASSUME StatementInv, [StatementNext]_statementVars PROVE StatementInv'
  OBVIOUS
<1>0. version \in Versions /\ bound \in Values
  BY DEF StatementInv, StatementTypeOK
<1>1. CASE \E v \in Keys : bind(v)
  BY <1>0, <1>1, QuietStep DEF bind, Values
<1>2. CASE clear_bindings
  BY <1>0, <1>2, QuietStep DEF clear_bindings, Values
<1>3. CASE StaleError
  BY <1>3, StopAll DEF StaleError
<1>4. CASE ExecFails
  BY <1>4, StopAll DEF ExecFails
<1>5. CASE exec
  BY <1>5, StopAll DEF exec
<1>6. CASE OtherCommit
  <2>1. version' \in Versions
    BY <1>0, <1>6, StatementAssumption DEF OtherCommit, Versions
  <2> QED BY <1>0, <1>6, <2>1, QuietStep DEF OtherCommit
<1>7. ASSUME NEW c \in Cursors, exec_query(c) PROVE StatementInv'
  BY <1>7, ExecQueryStep
<1>8. ASSUME NEW c \in Cursors, next(c) PROVE StatementInv'
  BY <1>8, NextStep
<1>9. ASSUME NEW c \in Cursors, NextFails(c) PROVE StatementInv'
  BY <1>9, NextFailsStep
<1>10. ASSUME NEW c \in Cursors, DestroyCursor(c) PROVE StatementInv'
  BY <1>10, StopOne, NoCursorType DEF DestroyCursor
<1>11. CASE UNCHANGED statementVars
  BY <1>0, <1>11, QuietStep DEF statementVars
<1> QED BY <1>1, <1>2, <1>3, <1>4, <1>5, <1>6, <1>7, <1>8, <1>9, <1>10, <1>11 DEF StatementNext

THEOREM StatementInvHolds == StatementSpec => []StatementInv
BY StatementInvInit, StatementInvNext, PTL DEF StatementSpec

\* The variables keep their types, whatever the cursors and the sizes of the results.
THEOREM StatementTypeCorrect == StatementSpec => []StatementTypeOK
<1>1. StatementInv => StatementTypeOK
  BY DEF StatementInv
<1> QED BY <1>1, StatementInvHolds, PTL

\* A cursor nobody disturbs reads one version of the rows, in order and each once.
THEOREM OneSnapshot == StatementSpec => []ReadsOneSnapshot
<1>1. StatementInv => ReadsOneSnapshot
  BY DEF StatementInv
<1> QED BY <1>1, StatementInvHolds, PTL

\* What such a cursor says of itself is true: while it is valid it stands on the next
\* row, and when it is not it has read them all.
THEOREM ValidityIsHonest == StatementSpec => []ValidityIsTrue
<1>1. StatementInv => ValidityIsTrue
  BY DEF StatementInv, ValidityIsTrue
<1> QED BY <1>1, StatementInvHolds, PTL

------------------------------------------------------------------------------
(* Locks and errors *)

\* What is known of a cursor after its own next(), and of a new one.
LEMMA MoverLives ==
  ASSUME StatementTypeOK, NEW c \in Cursors
  PROVE  /\ exec_query(c) => cursor'[c].live /\ stmt'.at \in {"row", "done"}
         /\ next(c) => cursor'[c].live /\ stmt'.at \in {"row", "done"}
         /\ NextFails(c) => cursor'[c].live /\ cursor'[c].failed
<1>1. /\ DisturbAll \in [Cursors -> Cursor] /\ Disturb(cursor, c) \in [Cursors -> Cursor]
      /\ Disturb(cursor, c)[c] = cursor[c] /\ cursor[c] \in Cursor
  BY DisturbType DEF StatementTypeOK
<1>2. ASSUME exec_query(c) PROVE cursor'[c].live /\ stmt'.at \in {"row", "done"}
  <2>1. stmt'.at \in {"row", "done"}
    BY <1>2, RowAtResult DEF exec_query, StatementTypeOK
  <2>2. cursor'[c].live
    BY <1>1, <1>2 DEF exec_query
  <2> QED BY <2>1, <2>2
<1>3. ASSUME next(c) PROVE cursor'[c].live /\ stmt'.at \in {"row", "done"}
  <2>1. stmt'.at \in {"row", "done"}
    BY <1>3, StepResult DEF next
  <2>2. cursor'[c].live = Disturb(cursor, c)[c].live
    BY <1>1, <1>3 DEF next, Cursor
  <2> QED BY <1>1, <1>3, <2>1, <2>2 DEF next
<1>4. ASSUME NextFails(c) PROVE cursor'[c].live /\ cursor'[c].failed
  <2>1. cursor'[c].live = Disturb(cursor, c)[c].live /\ cursor'[c].failed
    BY <1>1, <1>4 DEF NextFails, Cursor
  <2> QED BY <1>1, <1>4, <2>1 DEF NextFails
<1> QED BY <1>2, <1>3, <1>4

LEMMA OwnedNext == StatementTypeOK /\ NothingLeftBehind /\ [StatementNext]_statementVars => NothingLeftBehind'
<1> SUFFICES ASSUME StatementTypeOK, NothingLeftBehind, [StatementNext]_statementVars PROVE NothingLeftBehind'
  OBVIOUS
<1> USE DEF NothingLeftBehind, NoCursorNoLock, ErrorHasOwner
<1>1. CASE UNCHANGED <<stmt, cursor, startFailed>>
  BY <1>1
<1>2. CASE stmt' = Stopped("ready")
  BY <1>2, StoppedType
<1>3. CASE stmt' = Stopped("failed") /\ startFailed' = TRUE
  BY <1>3, StoppedType
<1>4. ASSUME NEW c \in Cursors, cursor'[c].live, stmt'.at \in {"row", "done"} PROVE NothingLeftBehind'
  BY <1>4
<1>5. ASSUME NEW c \in Cursors, cursor'[c].live, cursor'[c].failed PROVE NothingLeftBehind'
  BY <1>5
<1>6. (\E v \in Keys : bind(v)) \/ clear_bindings \/ OtherCommit \/ UNCHANGED statementVars
        => UNCHANGED <<stmt, cursor, startFailed>>
  BY DEF bind, clear_bindings, OtherCommit, statementVars
<1>7. StaleError \/ exec \/ (\E c \in Cursors : DestroyCursor(c)) => stmt' = Stopped("ready")
  BY DEF StaleError, exec, DestroyCursor
<1>8. ExecFails => stmt' = Stopped("failed") /\ startFailed' = TRUE
  BY DEF ExecFails
<1>9. ASSUME NEW c \in Cursors, exec_query(c) \/ next(c) \/ NextFails(c) PROVE NothingLeftBehind'
  BY <1>4, <1>5, <1>9, MoverLives
<1> HIDE DEF NothingLeftBehind
<1> QED BY <1>1, <1>2, <1>3, <1>6, <1>7, <1>8, <1>9 DEF StatementNext

\* However a query ends, no read transaction and no unreported error of a next()
\* outlives its cursor.
THEOREM NothingOutlivesItsCursor == StatementSpec => []NothingLeftBehind
<1>1. StatementInit => NothingLeftBehind
  BY StoppedType DEF StatementInit, NothingLeftBehind, NoCursorNoLock, ErrorHasOwner
<1> QED BY <1>1, OwnedNext, StatementTypeCorrect, PTL DEF StatementSpec
==============================================================================
