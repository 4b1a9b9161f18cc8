------------------------- MODULE ObservableDbProofs -------------------------
(***************************************************************************)
(* What is proved of ObservableDb, whatever the rows and their values, and  *)
(* of the changes it hands on: of the order and the equality of values, and *)
(* of the first change of each key, for every Exact and all values whose    *)
(* integers are within it.                                                  *)
(***************************************************************************)
EXTENDS ObservableDb, FirstChange, ListDiffProofs

------------------------------------------------------------------------------
\* sqlite::Value

\* The rank of each type: that of the enumeration in value.hpp.
LEMMA RankValues ==
  /\ Rank["NUL"] = 0 /\ Rank["INT"] = 1 /\ Rank["DOUBLE"] = 2
  /\ Rank["STRING"] = 3 /\ Rank["BLOB"] = 4
BY DEF Rank, Types

\* Within the exact range, the number a value is compared by does not depend on
\* what it is compared with, but for the scale of an INT.
LEMMA ExactSides ==
  ASSUME NEW l \in Value, NEW r \in Value, IsExact(l), IsExact(r)
  PROVE  /\ Left(l, r) = IF l.type = "INT" /\ r.type = "DOUBLE" THEN 2 * l.val ELSE l.val
         /\ Right(l, r) = IF l.type = "DOUBLE" /\ r.type = "INT" THEN 2 * r.val ELSE r.val
         /\ Left(l, r) \in Int /\ Right(l, r) \in Int
BY SqlValueAssumption DEF Value, IsExact, Left, Right, ToDouble

\* Values are compared by rank of affinity first, then by number, in halves: the
\* form in which the order is seen to be lexicographic.
Major(v) == Rank[Affinity(v.type)]
Minor(v) == IF v.type = "NUL" THEN 0 ELSE IF v.type = "INT" THEN 2 * v.val ELSE v.val

LEMMA MajorMinorType ==
  ASSUME NEW v \in Value
  PROVE  Major(v) \in Int /\ Minor(v) \in Int
BY RankValues DEF Major, Minor, Value, Types, Affinity

LEMMA MajorIsAffinity ==
  ASSUME NEW l \in Value, NEW r \in Value
  PROVE  Major(l) = Major(r) <=> Affinity(l.type) = Affinity(r.type)
BY RankValues DEF Major, Value, Types, Affinity

LEMMA LtIsLexicographic ==
  ASSUME NEW l \in Value, NEW r \in Value, IsExact(l), IsExact(r)
  PROVE  Lt(l, r) <=> \/ Major(l) < Major(r)
                      \/ Major(l) = Major(r) /\ Minor(l) < Minor(r)
<1>1. CASE Affinity(l.type) # Affinity(r.type)
  BY <1>1, MajorIsAffinity DEF Lt, Major
<1>2. CASE Affinity(l.type) = Affinity(r.type) /\ l.type = "NUL"
  BY <1>2, RankValues DEF Lt, Major, Minor, Affinity, Value, Types
<1>3. CASE Affinity(l.type) = Affinity(r.type) /\ l.type # "NUL"
  <2>1. Major(l) = Major(r) /\ ~(Major(l) < Major(r))
    BY <1>3, MajorMinorType, MajorIsAffinity
  <2>2. Lt(l, r) <=> Left(l, r) < Right(l, r)
    BY <1>3, <2>1 DEF Lt, Major
  <2>3. Left(l, r) < Right(l, r) <=> Minor(l) < Minor(r)
    BY <1>3, ExactSides DEF Minor, Affinity, Value, Types
  <2> QED BY <2>1, <2>2, <2>3
<1> QED BY <1>1, <1>2, <1>3

\* operator< is a strict weak order, as std::set, std::map and std::sort require of
\* it: irreflexive, transitive, and ties are transitive.
THEOREM LtIsStrictWeakOrder ==
  ASSUME NEW a \in Value, NEW b \in Value, NEW c \in Value,
         IsExact(a), IsExact(b), IsExact(c)
  PROVE  /\ ~Lt(a, a)
         /\ Lt(a, b) /\ Lt(b, c) => Lt(a, c)
         /\ Tie(a, b) /\ Tie(b, c) => Tie(a, c)
BY LtIsLexicographic, MajorMinorType DEF Tie

\* operator== holds exactly where operator< tells the two apart in neither direction:
\* a set that knows its elements by operator< has no two that are ==.
THEOREM EqIsTie ==
  ASSUME NEW l \in Value, NEW r \in Value, IsExact(l), IsExact(r)
  PROVE  Eq(l, r) <=> Tie(l, r)
<1>1. Tie(l, r) <=> Major(l) = Major(r) /\ Minor(l) = Minor(r)
  BY LtIsLexicographic, MajorMinorType DEF Tie
<1>2. CASE Affinity(l.type) # Affinity(r.type)
  BY <1>1, <1>2, MajorIsAffinity DEF Eq
<1>3. CASE Affinity(l.type) = Affinity(r.type) /\ l.type = "NUL"
  BY <1>1, <1>3, RankValues DEF Eq, Major, Minor, Affinity, Value, Types
<1>4. CASE Affinity(l.type) = Affinity(r.type) /\ l.type # "NUL"
  <2>1. Eq(l, r) <=> Left(l, r) = Right(l, r)
    BY <1>4 DEF Eq
  <2>2. Left(l, r) = Right(l, r) <=> Minor(l) = Minor(r)
    BY <1>4, ExactSides DEF Minor, Affinity, Value, Types
  <2> QED BY <1>1, <1>4, <2>1, <2>2, MajorIsAffinity
<1> QED BY <1>2, <1>3, <1>4
------------------------------------------------------------------------------
\* The hooks of ObservableDb

\* A change as the report holds it: the row as each connection reads it.
AsReported(r, old, new) == [row |-> r, old_row |-> old[r], new_row |-> new[r]]

\* The list told has one change for each of the positions.
TellsPositions(told, positions, calls, old, new) ==
  /\ told \in Seq(RowChange)
  /\ \A i \in 1 .. Len(told) :
       \E p \in positions : told[i] = AsReported(calls[p], old, new)
  /\ \A p \in positions :
       \E i \in 1 .. Len(told) : told[i] = AsReported(calls[p], old, new)
  /\ \A i, j \in 1 .. Len(told) : i # j =>
       \E p, q \in positions :
         /\ p # q
         /\ told[i] = AsReported(calls[p], old, new)
         /\ told[j] = AsReported(calls[q], old, new)

LEMMA RowChangesAre ==
  ASSUME NEW calls \in Seq(Rows), NEW positions \in SUBSET (1 .. Len(calls)),
         NEW old \in Contents, NEW new \in Contents
  PROVE  TellsPositions(RowChanges(positions, calls, old, new), positions, calls, old, new)
<1> DEFINE order == Ascending(positions)
           n == Len(order)
           told == RowChanges(positions, calls, old, new)
<1>1. positions \in SUBSET Int /\ IsFiniteSet(positions)
  <2>1. Len(calls) \in Nat OBVIOUS
  <2>2. IsFiniteSet(1 .. Len(calls)) BY <2>1, FS_Interval
  <2>3. IsFiniteSet(positions) BY <2>2, FS_Subset
  <2> QED BY <2>1, <2>3
<1>2. /\ order \in Seq(positions) /\ n = Cardinality(positions)
      /\ \A k, m \in 1 .. n : k < m <=> order[k] < order[m]
      /\ \A x \in positions : \E k \in 1 .. n : order[k] = x
  BY <1>1, AscendingIs
<1>0. \A p \in positions : calls[p] \in Rows
  OBVIOUS
<1>3. n \in Nat /\ \A k \in 1 .. n : order[k] \in positions
  <2> HIDE DEF order
  <2> QED BY <1>2
<1>4. /\ Len(told) = n
      /\ told \in [1 .. n -> RowChange]
      /\ \A i \in 1 .. n : told[i] = AsReported(calls[order[n - i + 1]], old, new)
  <2> DEFINE f == [k \in 1 .. n |-> AsReported(calls[order[k]], old, new)]
  <2>1. told = Reverse(f)
    BY DEF RowChanges, AsReported
  <2>2. \A k \in 1 .. n : f[k] \in RowChange
    <3> TAKE k \in 1 .. n
    <3>1. order[k] \in positions BY <1>3
    <3> HIDE DEF order, n
    <3>2. calls[order[k]] \in Rows BY <1>0, <3>1
    <3> QED BY <3>2 DEF AsReported, RowChange, Contents
  <2>3. f \in Seq(RowChange) /\ Len(f) = n
    <3> HIDE DEF order, n
    <3> QED BY <1>3, <2>2
  <2>4. \A k \in 1 .. n : f[k] = AsReported(calls[order[k]], old, new)
    OBVIOUS
  <2>5. told = [i \in 1 .. n |-> f[n - i + 1]]
    <3> HIDE DEF f, told
    <3>1. told = [i \in 1 .. Len(f) |-> f[(Len(f) - i) + 1]]
      BY <2>1 DEF Reverse
    <3> QED BY <2>3, <3>1
  <2>6. \A i \in 1 .. n : n - i + 1 \in 1 .. n
    BY <1>3
  <2> HIDE DEF f, told, order, n
  <2> QED BY <1>3, <2>2, <2>4, <2>5, <2>6
<1>5. told \in Seq(RowChange)
  BY <1>3, <1>4
<1>6. \A i \in 1 .. n : n - i + 1 \in 1 .. n
  BY <1>3
<1> HIDE DEF told, order, n
<1>7. \A i \in 1 .. n :
        \E p \in positions : told[i] = AsReported(calls[p], old, new)
  BY <1>3, <1>4, <1>6
<1>8. ASSUME NEW p \in positions
      PROVE  \E i \in 1 .. n : told[i] = AsReported(calls[p], old, new)
  <2>1. PICK k \in 1 .. n : order[k] = p
    BY <1>2
  <2>2. n - k + 1 \in 1 .. n /\ n - (n - k + 1) + 1 = k
    BY <1>3
  <2> QED BY <1>4, <2>1, <2>2
<1>9. ASSUME NEW i \in 1 .. n, NEW j \in 1 .. n, i # j
      PROVE  order[n - i + 1] # order[n - j + 1]
  <2> DEFINE k == n - i + 1
             m == n - j + 1
  <2>1. k \in 1 .. n /\ m \in 1 .. n /\ (k < m \/ m < k)
    BY <1>3, <1>9
  <2>2. order[k] \in Int /\ order[m] \in Int
    BY <1>1, <1>3, <2>1
  <2> HIDE DEF k, m
  <2>3. order[k] # order[m]
    BY <1>2, <2>1, <2>2
  <2> QED BY <2>3 DEF k, m
<1>10. \A i, j \in 1 .. n : i # j =>
         \E p, q \in positions :
           /\ p # q
           /\ told[i] = AsReported(calls[p], old, new)
           /\ told[j] = AsReported(calls[q], old, new)
  <2> SUFFICES ASSUME NEW i \in 1 .. n, NEW j \in 1 .. n, i # j
               PROVE  \E p, q \in positions :
                        /\ p # q
                        /\ told[i] = AsReported(calls[p], old, new)
                        /\ told[j] = AsReported(calls[q], old, new)
    OBVIOUS
  <2>1. order[n - i + 1] \in positions /\ order[n - j + 1] \in positions
    BY <1>3, <1>6
  <2> QED BY <1>4, <1>9, <2>1
<1> QED
  <2>1. Len(told) = n BY <1>4
  <2>2. TellsPositions(told, positions, calls, old, new)
    BY <1>5, <1>7, <1>8, <1>10, <2>1 DEF TellsPositions
  <2> QED BY <2>2 DEF told

\* Every row the hook saw has one last change.
LEMMA CollapseIs ==
  ASSUME NEW calls \in Seq(Rows)
  PROVE  /\ collapse_by_rowid(calls) \in SUBSET (1 .. Len(calls))
         /\ \A r \in ToSet(calls) : \E i \in collapse_by_rowid(calls) : calls[i] = r
         /\ \A i, j \in collapse_by_rowid(calls) : calls[i] = calls[j] => i = j
<1>1. collapse_by_rowid(calls) \in SUBSET (1 .. Len(calls))
  BY DEF collapse_by_rowid
<1>2. ASSUME NEW r \in ToSet(calls)
      PROVE  \E i \in collapse_by_rowid(calls) : calls[i] = r
  <2> DEFINE L == Len(calls)
             T == {d \in 0 .. L - 1 : calls[L - d] = r}
  <2>1. PICK k \in 1 .. L : calls[k] = r
    BY DEF ToSet
  <2>2. L \in Nat OBVIOUS
  <2>3. L - k \in 0 .. L - 1 /\ L - (L - k) = k
    BY <2>2
  <2>4. L - k \in T
    BY <2>1, <2>3
  <2>5. T \in SUBSET Nat
    BY <2>2
  <2>6. PICK d \in T : \A e \in T : d <= e
    <3> HIDE DEF T
    <3> QED BY <2>4, <2>5, LeastNat
  <2>7. L - d \in 1 .. L /\ calls[L - d] = r
    BY <2>2, <2>6
  <2>8. ASSUME NEW j \in (L - d) + 1 .. L, calls[j] = calls[L - d]
        PROVE  FALSE
    <3>1. L - j \in 0 .. L - 1 /\ L - (L - j) = j /\ L - j < d
      BY <2>2, <2>7
    <3>2. L - j \in T
      BY <2>7, <2>8, <3>1
    <3>3. d <= L - j
      BY <2>6, <3>2
    <3>4. d \in Nat BY <2>5
    <3> QED BY <2>2, <3>1, <3>3, <3>4
  <2>9. L - d \in collapse_by_rowid(calls)
    BY <2>7, <2>8 DEF collapse_by_rowid
  <2> QED BY <2>7, <2>9
<1>3. ASSUME NEW i \in collapse_by_rowid(calls), NEW j \in collapse_by_rowid(calls),
             calls[i] = calls[j], i < j
      PROVE  FALSE
  BY <1>3 DEF collapse_by_rowid
<1> QED
  <2> SUFFICES ASSUME NEW i \in collapse_by_rowid(calls), NEW j \in collapse_by_rowid(calls),
                      calls[i] = calls[j], i # j
               PROVE  FALSE
    BY <1>1, <1>2
  <2>1. i < j \/ j < i BY <1>1
  <2> QED BY <1>3, <2>1

\* What is reported of one table: a change of each row of it that the hook saw and that
\* is there before or after, and nothing else; each row once.
TellsTable(told, t, calls, old, new) ==
  /\ told \in Seq(RowChange)
  /\ \A i \in 1 .. Len(told) :
       \E r \in ToSet(calls) : Table(r) = t /\ told[i] = AsReported(r, old, new)
  /\ \A r \in ToSet(calls) :
       Table(r) = t /\ (old[r] # Null \/ new[r] # Null) =>
         \E i \in 1 .. Len(told) : told[i] = AsReported(r, old, new)
  /\ \A i, j \in 1 .. Len(told) : told[i].row = told[j].row => i = j

LEMMA CollectedAre ==
  ASSUME NEW calls \in Seq(Rows), NEW t \in Tables, NEW old \in Contents, NEW new \in Contents
  PROVE  TellsTable(_collect_changes(t, calls, old, new), t, calls, old, new)
<1> DEFINE last == collapse_by_rowid(calls)
           positions == {i \in last : /\ Table(calls[i]) = t
                                      /\ old[calls[i]] # Null \/ new[calls[i]] # Null}
           told == _collect_changes(t, calls, old, new)
<1>1. /\ last \in SUBSET (1 .. Len(calls))
      /\ \A r \in ToSet(calls) : \E i \in last : calls[i] = r
      /\ \A i, j \in last : calls[i] = calls[j] => i = j
  BY CollapseIs
<1>2. positions \in SUBSET last /\ positions \in SUBSET (1 .. Len(calls))
  BY <1>1
<1>3. told = RowChanges(positions, calls, old, new)
  BY DEF _collect_changes
<1>4. \A i \in positions : Table(calls[i]) = t /\ calls[i] \in ToSet(calls)
  BY <1>2 DEF ToSet
<1>5. \A r \in ToSet(calls) :
        Table(r) = t /\ (old[r] # Null \/ new[r] # Null) =>
          \E i \in positions : calls[i] = r
  <2> HIDE DEF last
  <2> QED BY <1>1
<1> HIDE DEF positions, told
<1>10. TellsPositions(told, positions, calls, old, new)
  BY <1>2, <1>3, RowChangesAre
<1>6. /\ told \in Seq(RowChange)
      /\ \A i \in 1 .. Len(told) :
           \E p \in positions : told[i] = AsReported(calls[p], old, new)
      /\ \A p \in positions :
           \E i \in 1 .. Len(told) : told[i] = AsReported(calls[p], old, new)
      /\ \A i, j \in 1 .. Len(told) : i # j =>
           \E p, q \in positions :
             /\ p # q
             /\ told[i] = AsReported(calls[p], old, new)
             /\ told[j] = AsReported(calls[q], old, new)
  BY <1>10 DEF TellsPositions
<1>7. \A i \in 1 .. Len(told) :
        \E r \in ToSet(calls) : Table(r) = t /\ told[i] = AsReported(r, old, new)
  BY <1>4, <1>6
<1>8. \A r \in ToSet(calls) :
        Table(r) = t /\ (old[r] # Null \/ new[r] # Null) =>
          \E i \in 1 .. Len(told) : told[i] = AsReported(r, old, new)
  <2> SUFFICES ASSUME NEW r \in ToSet(calls), Table(r) = t, old[r] # Null \/ new[r] # Null
               PROVE  \E i \in 1 .. Len(told) : told[i] = AsReported(r, old, new)
    OBVIOUS
  <2>1. PICK p \in positions : calls[p] = r
    BY <1>5
  <2> QED BY <1>6, <2>1
<1>9. ASSUME NEW i \in 1 .. Len(told), NEW j \in 1 .. Len(told), i # j
      PROVE  told[i].row # told[j].row
  <2>1. PICK p \in positions, q \in positions :
          /\ p # q
          /\ told[i] = AsReported(calls[p], old, new)
          /\ told[j] = AsReported(calls[q], old, new)
    BY <1>6, <1>9
  <2>2. calls[p] # calls[q]
    BY <1>1, <1>2, <2>1
  <2> QED BY <2>1, <2>2 DEF AsReported
<1> QED
  <2>1. TellsTable(told, t, calls, old, new)
    BY <1>6, <1>7, <1>8, <1>9 DEF TellsTable
  <2> QED BY <2>1 DEF told

\* What the hooks have noted, phase by phase.
HooksInv ==
  /\ pc # "reported" => report = NoReport
  /\ pc \in {"idle", "committed", "threw"} => m_changes = touched
  /\ pc \in {"idle", "threw"} /\ ~pages => m_changes = <<>>
  /\ pc = "committed" => before \in Contents /\ m_read_snapshot = before
  /\ pc = "reported" =>
       /\ before \in Contents
       /\ m_changes = <<>>
       /\ report = [t \in Tables |-> _collect_changes(t, touched, before, db)]

DbInv == TypeOK /\ HooksInv

LEMMA DbInitInv == Init => DbInv
<1> SUFFICES ASSUME Init PROVE DbInv
  OBVIOUS
<1>1. NoReport \in [Tables -> Seq(RowChange)] /\ <<>> \in Seq(Rows)
  BY DEF NoReport
<1>2. TypeOK
  BY <1>1 DEF Init, TypeOK
<1>3. HooksInv
  BY DEF Init, HooksInv
<1> QED BY <1>2, <1>3 DEF DbInv

\* A row is noted.
LEMMA UpdateStep ==
  ASSUME DbInv, NEW r \in Rows, Executes, OnUpdate(r), work' \in Contents
  PROVE  DbInv'
<1>1. /\ pc = "idle" /\ m_changes = touched
      /\ m_changes' = Append(m_changes, r) /\ touched' = Append(touched, r)
      /\ pages' /\ writing' /\ pages' \in BOOLEAN /\ writing' \in BOOLEAN
      /\ UNCHANGED <<db, m_read_snapshot, pc, report, before, after, unpaired>>
  BY DEF DbInv, HooksInv, Executes, OnUpdate, listenerVars
<1>2. TypeOK'
  <2>1. m_changes' \in Seq(Rows) /\ touched' \in Seq(Rows)
    BY <1>1 DEF DbInv, TypeOK
  <2> QED BY <1>1, <2>1 DEF DbInv, TypeOK
<1>3. HooksInv'
  <2>1. NoReport' = NoReport BY DEF NoReport
  <2> QED BY <1>1, <2>1 DEF DbInv, HooksInv
<1> QED BY <1>2, <1>3 DEF DbInv

\* A statement of which the hook is not told.
LEMMA SilentStep ==
  ASSUME DbInv, Executes, work' \in Contents, UNCHANGED <<m_changes, touched>>,
         pages' = TRUE \/ pages' = pages
  PROVE  DbInv'
<1>1. /\ pc = "idle" /\ writing' \in BOOLEAN /\ pages' \in BOOLEAN
      /\ ~pages' => ~pages
      /\ UNCHANGED <<db, m_changes, touched, m_read_snapshot, pc, report, before, after, unpaired>>
  BY DEF DbInv, TypeOK, Executes, listenerVars
<1>2. TypeOK'
  BY <1>1 DEF DbInv, TypeOK
<1>3. HooksInv'
  <2>1. NoReport' = NoReport BY DEF NoReport
  <2> QED BY <1>1, <2>1 DEF DbInv, HooksInv
<1> QED BY <1>2, <1>3 DEF DbInv

LEMMA DbStepInv == DbInv /\ [Next]_vars => DbInv'
<1> SUFFICES ASSUME DbInv, [Next]_vars PROVE DbInv'
  OBVIOUS
<1> USE DEF DbInv
<1>0. NoReport' = NoReport /\ NoReport \in [Tables -> Seq(RowChange)] /\ <<>> \in Seq(Rows)
  BY DEF NoReport
<1>1. ASSUME NEW r \in Rows, NEW v \in Values \cup {Null}, Change(r, v) PROVE DbInv'
  <2>1. work' \in Contents BY <1>1 DEF Change, TypeOK, Contents
  <2>2. Executes /\ OnUpdate(r) BY <1>1 DEF Change
  <2> QED BY <2>1, <2>2, UpdateStep
<1>2. ASSUME NEW r \in Rows, NEW v \in Values \cup {Null}, ExternalCommit(r, v) PROVE DbInv'
  <2>1. /\ pc \in {"idle", "committed"} /\ pc' = pc
        /\ db' \in Contents /\ work' \in Contents
        /\ UNCHANGED <<writing, pages, touched, m_changes, m_read_snapshot,
                       report, before, after, unpaired>>
    BY <1>2 DEF ExternalCommit, TypeOK, Contents, listenerVars
  <2>2. TypeOK' BY <2>1 DEF TypeOK
  <2>3. HooksInv' BY <1>0, <2>1 DEF HooksInv
  <2> QED BY <2>2, <2>3
<1>3. ASSUME NEW r \in Rows, ChangeUndone(r) PROVE DbInv'
  <2>1. work' \in Contents BY <1>3 DEF ChangeUndone, TypeOK
  <2>2. Executes /\ OnUpdate(r) BY <1>3 DEF ChangeUndone
  <2> QED BY <2>1, <2>2, UpdateStep
<1>4. ASSUME NEW r \in Rows, NEW s \in Rows, ChangeRowid(r, s) PROVE DbInv'
  <2>1. work' \in Contents BY <1>4 DEF ChangeRowid, TypeOK, Contents
  <2>2. Executes /\ OnUpdate(s) BY <1>4 DEF ChangeRowid
  <2> QED BY <2>1, <2>2, UpdateStep
<1>5. ASSUME NEW r \in Rows, DeleteSilently(r) PROVE DbInv'
  <2>1. work' \in Contents BY <1>5 DEF DeleteSilently, TypeOK, Contents
  <2>2. Executes /\ pages' = TRUE /\ UNCHANGED <<m_changes, touched>>
    BY <1>5 DEF DeleteSilently
  <2> QED BY <2>1, <2>2, SilentStep
<1>6. CASE WriteNothing
  <2>1. work' \in Contents BY <1>6 DEF WriteNothing, TypeOK
  <2>2. Executes /\ pages' = pages /\ UNCHANGED <<m_changes, touched>>
    BY <1>6 DEF WriteNothing
  <2> QED BY <2>1, <2>2, SilentStep
<1>7. CASE Rollback
  <2>1. TypeOK' BY <1>0, <1>7 DEF Rollback, EndTransaction, listenerVars, TypeOK
  <2>2. HooksInv' BY <1>0, <1>7 DEF Rollback, EndTransaction, listenerVars, HooksInv
  <2> QED BY <2>1, <2>2
<1>8. CASE Commit
  <2>1. TypeOK' BY <1>8 DEF Commit, TypeOK
  <2>2. HooksInv' BY <1>0, <1>8 DEF Commit, TypeOK, HooksInv
  <2> QED BY <2>1, <2>2
<1>9. CASE CommitNothing
  <2>1. TypeOK' BY <1>0, <1>9 DEF CommitNothing, EndTransaction, TypeOK
  <2>2. HooksInv' BY <1>0, <1>9 DEF CommitNothing, EndTransaction, HooksInv
  <2> QED BY <2>1, <2>2
<1>10. CASE CommitFails
  <2>1. TypeOK' BY <1>0, <1>10 DEF CommitFails, EndTransaction, TypeOK
  <2>2. HooksInv' BY <1>0, <1>10 DEF CommitFails, EndTransaction, HooksInv
  <2> QED BY <2>1, <2>2
<1>11. CASE CommitThrows
  <2>1. TypeOK' BY <1>11 DEF CommitThrows, txnVars, listenerVars, TypeOK
  <2>2. HooksInv' BY <1>0, <1>11 DEF CommitThrows, txnVars, listenerVars, HooksInv
  <2> QED BY <2>1, <2>2
<1>12. CASE OnWal
  <2>1. /\ pc = "committed" /\ pc' = "reported"
        /\ report' = [t \in Tables |-> _collect_changes(t, m_changes, m_read_snapshot, db)]
        /\ m_changes' = <<>> /\ m_read_snapshot' = NoSnapshot
        /\ UNCHANGED <<db, work, writing, pages, touched, before, after, unpaired>>
    BY <1>12 DEF OnWal, txnVars
  <2>2. /\ m_changes = touched /\ m_read_snapshot = before
        /\ before \in Contents /\ db \in Contents /\ touched \in Seq(Rows)
    BY <2>1 DEF HooksInv, TypeOK
  <2>3. \A t \in Tables : _collect_changes(t, m_changes, m_read_snapshot, db) \in Seq(RowChange)
    BY <2>2, CollectedAre DEF TellsTable
  <2>4. report' \in [Tables -> Seq(RowChange)]
    BY <2>1, <2>3
  <2>5. TypeOK' BY <2>1, <2>4 DEF TypeOK
  <2>6. report' = [t \in Tables |-> _collect_changes(t, touched', before', db')]
    BY <2>1, <2>2
  <2>7. HooksInv' BY <2>1, <2>2, <2>6 DEF HooksInv
  <2> QED BY <2>5, <2>7
<1>15. CASE CheckpointThrows
  <2>1. TypeOK' BY <1>0, <1>15 DEF CheckpointThrows, txnVars, listenerVars, TypeOK
  <2>2. HooksInv' BY <1>0, <1>15 DEF CheckpointThrows, txnVars, listenerVars, HooksInv
  <2> QED BY <2>1, <2>2
<1>13. CASE OnChangeReturns
  <2>1. TypeOK' BY <1>0, <1>13 DEF OnChangeReturns, EndTransaction, TypeOK
  <2>2. HooksInv' BY <1>0, <1>13 DEF OnChangeReturns, EndTransaction, HooksInv
  <2> QED BY <2>1, <2>2
<1>14. CASE Threw \/ UNCHANGED vars
  <2>1. UNCHANGED vars BY <1>14 DEF Threw
  <2>2. TypeOK' BY <2>1 DEF vars, TypeOK
  <2>3. UNCHANGED <<db, pages, touched, m_changes, m_read_snapshot, pc, report, before>>
    BY <2>1 DEF vars
  <2>4. HooksInv' BY <1>0, <2>3 DEF HooksInv
  <2> QED BY <2>2, <2>4
<1> QED
  BY <1>1, <1>2, <1>3, <1>4, <1>5, <1>6, <1>7, <1>8, <1>9, <1>10, <1>11, <1>12, <1>13, <1>14, <1>15
  DEF Next

LEMMA DbInvariant == Spec => []DbInv
BY DbInitInv, DbStepInv, PTL DEF Spec

\* The type invariant: a listener is given, for each table, a list of changes of rows
\* of the database.
THEOREM DbTypeCorrect == Spec => []TypeOK
<1>1. DbInv => TypeOK BY DEF DbInv
<1> QED BY <1>1, DbInvariant, PTL

\* What the listener is given, in the form the properties use.
LEMMA ReportIs ==
  ASSUME DbInv, pc = "reported"
  PROVE  /\ \A t \in Tables : \A i \in 1 .. Len(report[t]) :
              \E r \in ToSet(touched) : Table(r) = t /\ report[t][i] = AsReported(r, before, db)
         /\ \A t \in Tables : \A i, j \in 1 .. Len(report[t]) :
              report[t][i].row = report[t][j].row => i = j
         /\ \A c \in Reported : \E r \in ToSet(touched) : c = AsReported(r, before, db)
         /\ \A r \in ToSet(touched) :
              before[r] # Null \/ db[r] # Null => AsReported(r, before, db) \in Reported
<1>1. /\ before \in Contents /\ db \in Contents /\ touched \in Seq(Rows)
      /\ \A t \in Tables : report[t] = _collect_changes(t, touched, before, db)
  BY DEF DbInv, HooksInv, TypeOK
<1>2. \A t \in Tables :
        /\ \A i \in 1 .. Len(report[t]) :
             \E r \in ToSet(touched) : Table(r) = t /\ report[t][i] = AsReported(r, before, db)
        /\ \A r \in ToSet(touched) :
             Table(r) = t /\ (before[r] # Null \/ db[r] # Null) =>
               \E i \in 1 .. Len(report[t]) : report[t][i] = AsReported(r, before, db)
        /\ \A i, j \in 1 .. Len(report[t]) : report[t][i].row = report[t][j].row => i = j
  <2> TAKE t \in Tables
  <2>1. TellsTable(report[t], t, touched, before, db)
    BY <1>1, CollectedAre
  <2> QED BY <2>1 DEF TellsTable
<1>3. \A c : c \in Reported <=> \E t \in Tables : \E i \in 1 .. Len(report[t]) : c = report[t][i]
  <2>1. \A c : c \in Reported <=> \E t \in Tables : c \in ToSet(report[t])
    BY DEF Reported
  <2>2. \A c : \A t \in Tables :
          c \in ToSet(report[t]) <=> \E i \in 1 .. Len(report[t]) : c = report[t][i]
    BY DEF ToSet
  <2> QED BY <2>1, <2>2
<1>4. \A r \in ToSet(touched) : Table(r) \in Tables
  BY <1>1 DEF ToSet, Tables
<1>5. \A c \in Reported : \E r \in ToSet(touched) : c = AsReported(r, before, db)
  BY <1>2, <1>3
<1>6. \A r \in ToSet(touched) :
        before[r] # Null \/ db[r] # Null => AsReported(r, before, db) \in Reported
  BY <1>2, <1>3, <1>4
<1> QED BY <1>2, <1>5, <1>6

\* For each row the hook saw, the rows before the commit with the reported changes
\* applied are the rows after it, whatever the transaction did to it on the way.
THEOREM ReportCorrect == Spec => []ReportExplainsCommit
<1>1. DbInv => ReportExplainsCommit
  <2> SUFFICES ASSUME DbInv, pc = "reported", NEW r \in ToSet(touched), db[r] = after[r]
               PROVE  LET told == {c \in Reported : c.row = r}
                      IN  \/ (told = {} /\ after[r] = before[r])
                          \/ \E c \in told : c.old_row = before[r] /\ c.new_row = after[r]
    BY DEF ReportExplainsCommit
  <2> DEFINE c == AsReported(r, before, db)
  <2>1. c.row = r /\ c.old_row = before[r] /\ c.new_row = after[r]
    BY DEF AsReported
  <2>2. CASE before[r] # Null \/ db[r] # Null
    <3>1. c \in Reported BY <2>2, ReportIs
    <3> HIDE DEF c
    <3> QED BY <2>1, <3>1
  <2>3. CASE before[r] = Null /\ db[r] = Null
    <3>1. after[r] = before[r] BY <2>3
    <3>2. CASE {d \in Reported : d.row = r} = {}
      BY <3>1, <3>2
    <3>3. CASE {d \in Reported : d.row = r} # {}
      <4>1. PICK d \in Reported : d.row = r BY <3>3
      <4>2. PICK q \in ToSet(touched) : d = AsReported(q, before, db)
        BY <4>1, ReportIs
      <4>3. d = c BY <4>1, <4>2 DEF AsReported
      <4>4. c \in Reported BY <4>1, <4>3
      <4> HIDE DEF c
      <4> QED BY <2>1, <4>4
    <3> QED BY <3>2, <3>3
  <2> QED BY <2>2, <2>3
<1> QED BY <1>1, DbInvariant, PTL

\* The old rows are those of the instant before the commit, although they are read
\* after it, when another process may have committed again.
THEOREM OldRowsCorrect == Spec => []OldRowsPrecedeCommit
<1>1. DbInv => OldRowsPrecedeCommit
  BY ReportIs DEF OldRowsPrecedeCommit, AsReported
<1> QED BY <1>1, DbInvariant, PTL

\* Nothing a rolled back or failed transaction changed is in a later report, and no row
\* is in a report twice.
THEOREM TransactionCorrect == Spec => []OnlyThisTransaction
<1>1. DbInv => OnlyThisTransaction
  <2> SUFFICES ASSUME DbInv PROVE OnlyThisTransaction
    OBVIOUS
  <2>1. CASE pc = "reported"
    <3> SUFFICES ASSUME NEW t \in Tables,
                        NEW i \in 1 .. Len(report[t]), NEW j \in 1 .. Len(report[t])
                 PROVE  /\ report[t][i].row \in ToSet(touched) /\ Table(report[t][i].row) = t
                        /\ report[t][i].row = report[t][j].row => i = j
      BY DEF OnlyThisTransaction
    <3>1. PICK r \in ToSet(touched) : Table(r) = t /\ report[t][i] = AsReported(r, before, db)
      BY <2>1, ReportIs
    <3>2. report[t][i].row = r BY <3>1 DEF AsReported
    <3> QED BY <2>1, <3>1, <3>2, ReportIs
  <2>2. CASE pc # "reported"
    <3>1. \A t \in Tables : report[t] = <<>>
      BY <2>2 DEF DbInv, HooksInv, NoReport
    <3> QED BY <3>1 DEF OnlyThisTransaction
  <2> QED BY <2>1, <2>2
<1> QED BY <1>1, DbInvariant, PTL

\* The read transaction is closed with the commit it was opened for, unless no WAL hook
\* followed the commit hook: only then does the next BEGIN throw.
THEOREM SnapshotCorrect == Spec => []SnapshotReleased
<1>1. Init => SnapshotReleased
  BY DEF Init, SnapshotReleased
<1>2. SnapshotReleased /\ [Next]_vars => SnapshotReleased'
  <2> SUFFICES ASSUME SnapshotReleased, [Next]_vars PROVE SnapshotReleased'
    OBVIOUS
  <2> USE DEF SnapshotReleased
  <2>1. ASSUME Executes PROVE SnapshotReleased'
    BY <2>1 DEF Executes, listenerVars
  <2>2. ASSUME NEW r \in Rows, NEW v \in Values \cup {Null}, ExternalCommit(r, v)
        PROVE  SnapshotReleased'
    BY <2>2 DEF ExternalCommit, listenerVars
  <2>3. CASE \E r \in Rows : \/ \E v \in Values \cup {Null} : Change(r, v) \/ ExternalCommit(r, v)
                             \/ ChangeUndone(r)
                             \/ \E s \in Rows : ChangeRowid(r, s)
                             \/ DeleteSilently(r)
    <3> PICK r \in Rows : \/ \E v \in Values \cup {Null} : Change(r, v) \/ ExternalCommit(r, v)
                          \/ ChangeUndone(r)
                          \/ \E s \in Rows : ChangeRowid(r, s)
                          \/ DeleteSilently(r)
      BY <2>3
    <3>1. Executes \/ \E v \in Values \cup {Null} : ExternalCommit(r, v)
      BY DEF Change, ChangeUndone, ChangeRowid, DeleteSilently
    <3> QED BY <2>1, <2>2, <3>1
  <2>4. CASE WriteNothing
    BY <2>1, <2>4 DEF WriteNothing
  <2>5. CASE Rollback
    BY <2>5 DEF Rollback, listenerVars
  <2>6. CASE Commit
    BY <2>6 DEF Commit
  <2>7. CASE CommitNothing \/ CommitFails
    BY <2>7 DEF CommitNothing, CommitFails
  <2>8. CASE CommitThrows
    BY <2>8 DEF CommitThrows, listenerVars
  <2>9. CASE OnWal
    BY <2>9 DEF OnWal
  <2>12. CASE CheckpointThrows
    BY <2>12 DEF CheckpointThrows, txnVars, listenerVars
  <2>10. CASE OnChangeReturns
    BY <2>10 DEF OnChangeReturns
  <2>11. CASE Threw \/ UNCHANGED vars
    BY <2>11 DEF Threw, vars
  <2> QED
    BY <2>3, <2>4, <2>5, <2>6, <2>7, <2>8, <2>9, <2>10, <2>11, <2>12
    DEF Next
<1> QED BY <1>1, <1>2, PTL DEF Spec

------------------------------------------------------------------------------
\* The report of all rows

\* Whoever applies a report to a copy of the database as it was before the commit has the
\* database: what the report leaves out has not changed.  (After a checkpoint that throws
\* there is no report.)
ReportIsComplete ==
  pc = "reported" =>
    \A r \in Rows :
      LET told == {c \in Reported : c.row = r}
      IN  \/ (told = {} /\ after[r] = before[r])
          \/ \E c \in told : c.old_row = before[r] /\ c.new_row = after[r]

\* The rows the hook saw are all that the transaction has changed.
TouchedInv ==
  /\ pc = "idle" => \A r \in Rows : work[r] # db[r] => r \in ToSet(touched)
  /\ pc \in {"committed", "reported"} =>
       /\ after = db
       /\ \A r \in Rows : before[r] # after[r] => r \in ToSet(touched)

LEMMA AppendedRow ==
  ASSUME NEW calls \in Seq(Rows), NEW r \in Rows
  PROVE  /\ r \in ToSet(Append(calls, r))
         /\ \A s \in ToSet(calls) : s \in ToSet(Append(calls, r))
<1> DEFINE longer == Append(calls, r)
<1>1. /\ longer \in Seq(Rows) /\ Len(calls) \in Nat /\ Len(longer) = Len(calls) + 1
      /\ longer[Len(calls) + 1] = r
      /\ \A k \in 1 .. Len(calls) : longer[k] = calls[k]
  OBVIOUS
<1>2. \A k \in 1 .. Len(longer) : longer[k] \in ToSet(longer)
  BY DEF ToSet
<1> HIDE DEF longer
<1>3. r \in ToSet(longer)
  BY <1>1, <1>2
<1>4. ASSUME NEW s \in ToSet(calls) PROVE s \in ToSet(longer)
  <2>1. PICK k \in 1 .. Len(calls) : calls[k] = s
    BY DEF ToSet
  <2>2. k \in 1 .. Len(longer) /\ longer[k] = s
    BY <1>1, <2>1
  <2> QED BY <1>2, <2>2
<1> QED BY <1>3, <1>4 DEF longer

\* Nothing has changed behind the hook's back: the file has one writer, and each of its
\* changes has a hook.
LEMMA TouchedStep ==
  ASSUME ~ExternalWriter, ~SilentChanges, DbInv, TouchedInv, [Next]_vars
  PROVE  TouchedInv'
<1> USE DEF TouchedInv
<1>0. db \in Contents /\ work \in Contents /\ touched \in Seq(Rows)
  BY DEF DbInv, TypeOK
<1>1. ASSUME NEW r \in Rows, NEW v \in Values \cup {Null}, Change(r, v) PROVE TouchedInv'
  <2>1. /\ pc = "idle" /\ pc' = pc /\ db' = db
        /\ touched' = Append(touched, r)
        /\ work' = [work EXCEPT ![r] = v]
    BY <1>1 DEF Change, Executes, OnUpdate
  <2>2. \A s \in Rows : work'[s] # db'[s] => s = r \/ s \in ToSet(touched)
    BY <1>0, <2>1 DEF Contents
  <2>3. \A s \in Rows : work'[s] # db'[s] => s \in ToSet(touched')
    BY <1>0, <2>1, <2>2, AppendedRow
  <2> QED BY <2>1, <2>3
<1>2. ASSUME NEW r \in Rows, ChangeUndone(r) PROVE TouchedInv'
  <2>1. /\ pc = "idle" /\ pc' = pc /\ db' = db /\ work' = work
        /\ touched' = Append(touched, r)
    BY <1>2 DEF ChangeUndone, Executes, OnUpdate
  <2>2. \A s \in Rows : work'[s] # db'[s] => s \in ToSet(touched')
    BY <1>0, <2>1, AppendedRow
  <2> QED BY <2>1, <2>2
<1>3. CASE WriteNothing
  BY <1>3 DEF WriteNothing, Executes
<1>4. CASE Rollback
  BY <1>4 DEF Rollback
<1>5. CASE Commit
  <2>1. /\ pc = "idle" /\ pc' = "committed" /\ db' = work
        /\ before' = db /\ after' = work /\ touched' = touched
    BY <1>5 DEF Commit
  <2> QED BY <2>1
<1>6. CASE CommitNothing
  <2>1. /\ pc = "idle" /\ pc' = pc /\ ~pages /\ UNCHANGED <<db, work>>
    BY <1>6 DEF CommitNothing
  <2>2. touched = <<>>
    BY <2>1 DEF DbInv, HooksInv
  <2>3. \A r \in Rows : work'[r] = db'[r]
    BY <2>1, <2>2 DEF ToSet
  <2> QED BY <2>1, <2>3
<1>7. CASE CommitFails
  BY <1>7 DEF CommitFails
<1>8. CASE CommitThrows
  BY <1>8 DEF CommitThrows
<1>9. CASE OnWal
  BY <1>9 DEF OnWal, txnVars
<1>13. CASE CheckpointThrows
  BY <1>13 DEF CheckpointThrows
<1>10. CASE OnChangeReturns
  BY <1>10 DEF OnChangeReturns
<1>11. CASE Threw \/ UNCHANGED vars
  BY <1>11 DEF Threw, vars
<1>12. ASSUME NEW r \in Rows
       PROVE  /\ ~DeleteSilently(r)
              /\ \A s \in Rows : ~ChangeRowid(r, s)
              /\ \A v \in Values \cup {Null} : ~ExternalCommit(r, v)
  BY DEF DeleteSilently, ChangeRowid, ExternalCommit
<1> QED
  BY <1>1, <1>2, <1>3, <1>4, <1>5, <1>6, <1>7, <1>8, <1>9, <1>10, <1>11, <1>12, <1>13
  DEF Next

\* Where nobody else writes to the file and every change has a hook, a report is the whole
\* difference that its commit made.
THEOREM ReportComplete ==
  ASSUME ~ExternalWriter, ~SilentChanges
  PROVE  Spec => []ReportIsComplete
<1>1. Init => TouchedInv
  BY DEF Init, TouchedInv
<1>2. DbInv /\ TouchedInv /\ [Next]_vars => TouchedInv'
  BY TouchedStep
<1>3. DbInv /\ TouchedInv /\ ReportExplainsCommit => ReportIsComplete
  <2> SUFFICES ASSUME DbInv, TouchedInv, ReportExplainsCommit, pc = "reported", NEW r \in Rows
               PROVE  LET told == {c \in Reported : c.row = r}
                      IN  \/ (told = {} /\ after[r] = before[r])
                          \/ \E c \in told : c.old_row = before[r] /\ c.new_row = after[r]
    BY DEF ReportIsComplete
  <2>1. CASE r \in ToSet(touched)
    BY <2>1 DEF ReportExplainsCommit, TouchedInv
  <2>2. CASE r \notin ToSet(touched)
    <3>1. \A c \in Reported : c.row \in ToSet(touched)
      BY ReportIs DEF AsReported
    <3>2. before[r] = after[r]
      BY <2>2 DEF TouchedInv
    <3> QED BY <2>2, <3>1, <3>2
  <2> QED BY <2>1, <2>2
<1> QED BY <1>1, <1>2, <1>3, DbInvariant, ReportCorrect, PTL DEF Spec

------------------------------------------------------------------------------
\* Rows of values, and the first change of each key

ExactRow(row) == \A k \in 1 .. Len(row) : IsExact(row[k])

\* std::set and operator== agree on rows as well: the lexicographical order leaves two
\* rows tied exactly where std::equal finds them equal, whatever their lengths.
THEOREM RowEqIsRowTie ==
  ASSUME NEW a \in Seq(Value), NEW b \in Seq(Value), ExactRow(a), ExactRow(b)
  PROVE  RowEq(a, b) <=> RowTie(a, b)
<1>1. Len(a) \in Nat /\ Len(b) \in Nat
  OBVIOUS
<1>2. \A k \in 1 .. Len(a) : a[k] \in Value /\ IsExact(a[k])
  BY DEF ExactRow
<1>3. \A k \in 1 .. Len(b) : b[k] \in Value /\ IsExact(b[k])
  BY DEF ExactRow
<1>4. \A k \in 1 .. Len(a) : k \in 1 .. Len(b) => (Eq(a[k], b[k]) <=> Tie(a[k], b[k]))
  BY <1>2, <1>3, EqIsTie
<1>5. ASSUME RowEq(a, b) PROVE ~RowLt(a, b) /\ ~RowLt(b, a)
  <2>1. Len(a) = Len(b) /\ \A k \in 1 .. Len(a) : Tie(a[k], b[k])
    BY <1>4, <1>5 DEF RowEq
  <2>2. \A k \in 1 .. Len(a) : ~Lt(a[k], b[k]) /\ ~Lt(b[k], a[k])
    BY <2>1 DEF Tie
  <2> QED BY <1>1, <2>1, <2>2 DEF RowLt
<1>6. ASSUME ~RowEq(a, b) PROVE RowLt(a, b) \/ RowLt(b, a)
  <2> DEFINE D == {k \in Nat : /\ k \in 1 .. Len(a) \/ k \in 1 .. Len(b)
                               /\ k > Len(a) \/ k > Len(b) \/ ~Tie(a[k], b[k])}
  <2>1. D # {}
    <3>1. CASE Len(a) < Len(b)
      <4>1. Len(b) \in D BY <1>1, <3>1
      <4> QED BY <4>1
    <3>2. CASE Len(b) < Len(a)
      <4>1. Len(a) \in D BY <1>1, <3>2
      <4> QED BY <4>1
    <3>3. CASE Len(a) = Len(b)
      <4>1. PICK k \in 1 .. Len(a) : ~Eq(a[k], b[k])
        BY <1>6, <3>3 DEF RowEq
      <4>2. ~Tie(a[k], b[k]) BY <1>4, <3>3, <4>1
      <4>3. k \in D BY <1>1, <4>1, <4>2
      <4> QED BY <4>3
    <3> QED BY <1>1, <3>1, <3>2, <3>3
  <2>2. D \in SUBSET Nat OBVIOUS
  <2>3. PICK k \in D : \A m \in D : k <= m
    <3> HIDE DEF D
    <3> QED BY <2>1, <2>2, LeastNat
  <2>4. /\ k \in Nat
        /\ k \in 1 .. Len(a) \/ k \in 1 .. Len(b)
        /\ k > Len(a) \/ k > Len(b) \/ ~Tie(a[k], b[k])
    OBVIOUS
  <2>5. ASSUME NEW j \in 1 .. k - 1
        PROVE  j <= Len(a) /\ j <= Len(b) /\ Tie(a[j], b[j]) /\ Tie(b[j], a[j])
    <3>1. j \in Nat /\ j < k /\ (j \in 1 .. Len(a) \/ j \in 1 .. Len(b))
      BY <1>1, <2>4
    <3>2. j \notin D BY <2>2, <2>3, <3>1
    <3>3. j <= Len(a) /\ j <= Len(b) /\ Tie(a[j], b[j])
      BY <1>1, <3>1, <3>2
    <3>4. Tie(b[j], a[j]) BY <3>3 DEF Tie
    <3> QED BY <3>3, <3>4
  <2> HIDE DEF D
  <2>6. CASE k > Len(a)
    <3>1. k \in 1 .. Len(b) BY <1>1, <2>4, <2>6
    <3> QED BY <2>5, <2>6, <3>1 DEF RowLt
  <2>7. CASE k > Len(b)
    <3>1. k \in 1 .. Len(a) BY <1>1, <2>4, <2>7
    <3> QED BY <2>5, <2>7, <3>1 DEF RowLt
  <2>8. CASE k <= Len(a) /\ k <= Len(b)
    <3>1. k \in 1 .. Len(a) /\ k \in 1 .. Len(b) BY <1>1, <2>4, <2>8
    <3>2. Lt(a[k], b[k]) \/ Lt(b[k], a[k])
      BY <1>1, <2>4, <2>8 DEF Tie
    <3> QED BY <2>5, <3>1, <3>2 DEF RowLt
  <2> QED BY <1>1, <2>4, <2>6, <2>7, <2>8
<1> QED BY <1>5, <1>6 DEF RowTie

LEMMA RowEqTransitive ==
  ASSUME NEW a \in Seq(Value), NEW b \in Seq(Value), NEW c \in Seq(Value),
         ExactRow(a), ExactRow(b), ExactRow(c), RowEq(a, b), RowEq(b, c)
  PROVE  RowEq(a, c)
<1>1. Len(a) = Len(b) /\ Len(b) = Len(c)
  BY DEF RowEq
<1>2. ASSUME NEW k \in 1 .. Len(a) PROVE Eq(a[k], c[k])
  <2>1. /\ a[k] \in Value /\ b[k] \in Value /\ c[k] \in Value
        /\ IsExact(a[k]) /\ IsExact(b[k]) /\ IsExact(c[k])
        /\ Eq(a[k], b[k]) /\ Eq(b[k], c[k])
    BY <1>1 DEF RowEq, ExactRow
  <2>2. Tie(a[k], b[k]) /\ Tie(b[k], c[k])
    BY <2>1, EqIsTie
  <2>3. Tie(a[k], c[k])
    BY <2>1, <2>2, LtIsStrictWeakOrder
  <2> QED BY <2>1, <2>3, EqIsTie
<1> QED BY <1>1, <1>2 DEF RowEq

\* The first of the first n keys that equal one another.
FirstOf(key, n) == {k \in 1 .. n : \A j \in 1 .. k - 1 : ~RowEq(key[j], key[k])}

\* It is enough to compare a key with the first of its equals.
LEMMA FirstsDecide ==
  ASSUME NEW n \in Nat, NEW key, NEW new \in Seq(Value), ExactRow(new),
         \A k \in 1 .. n : key[k] \in Seq(Value) /\ ExactRow(key[k])
  PROVE  (\A k \in FirstOf(key, n) : ~RowTie(key[k], new)) <=>
         (\A j \in 1 .. n : ~RowEq(key[j], new))
<1>1. \A k \in 1 .. n : RowEq(key[k], new) <=> RowTie(key[k], new)
  BY RowEqIsRowTie
<1>2. ASSUME \A k \in FirstOf(key, n) : ~RowTie(key[k], new),
             NEW i \in 1 .. n, RowEq(key[i], new)
      PROVE  FALSE
  <2> DEFINE T == {j \in 1 .. n : RowEq(key[j], new)}
  <2>0. i \in T BY <1>2
  <2>1. T \in SUBSET Nat /\ T # {} BY <2>0
  <2>2. PICK j \in T : \A m \in T : j <= m
    <3> HIDE DEF T
    <3> QED BY <2>1, LeastNat
  <2>3. j \in 1 .. n /\ RowEq(key[j], new) /\ j \notin FirstOf(key, n)
    BY <1>1, <1>2
  <2>4. PICK m \in 1 .. j - 1 : RowEq(key[m], key[j])
    BY <2>3 DEF FirstOf
  <2>5. m \in 1 .. n /\ m < j BY <2>3
  <2>6. RowEq(key[m], new) BY <2>3, <2>4, <2>5, RowEqTransitive
  <2>7. j <= m BY <2>2, <2>5, <2>6
  <2> QED BY <2>3, <2>5, <2>7
<1>3. FirstOf(key, n) \subseteq 1 .. n
  BY DEF FirstOf
<1> QED BY <1>1, <1>2, <1>3

LEMMA FirstOfNext ==
  ASSUME NEW n \in Nat, NEW key
  PROVE  FirstOf(key, n + 1) =
           IF \A j \in 1 .. n : ~RowEq(key[j], key[n + 1])
           THEN FirstOf(key, n) \cup {n + 1} ELSE FirstOf(key, n)
<1>1. \A k : k \in 1 .. n + 1 <=> k \in 1 .. n \/ k = n + 1
  OBVIOUS
<1>2. (n + 1) - 1 = n OBVIOUS
<1> QED BY <1>1, <1>2 DEF FirstOf

\* The positions of the key's columns.
LEMMA PkPositions ==
  ASSUME NEW columns \in Seq(Nat)
  PROVE  get_pk_pos(columns) \in Seq(1 .. Len(columns))
<1> DEFINE L == Len(columns)
           S == {k \in 1 .. L : columns[k] # 0}
           key == [k \in 1 .. L |-> columns[k] * (L + 1) + k]
<1>1. L \in Nat /\ \A k \in 1 .. L : columns[k] \in Nat
  OBVIOUS
<1>2. IsFiniteSet(S) /\ S \in SUBSET (1 .. L)
  <2>1. IsFiniteSet(1 .. L) BY <1>1, FS_Interval
  <2> QED BY <2>1, FS_Subset
<1>3. \A x \in 1 .. L : key[x] \in Int
  <2> HIDE DEF L
  <2> QED BY <1>1
<1>4. ASSUME NEW x \in 1 .. L, NEW y \in 1 .. L, columns[x] < columns[y]
      PROVE  key[x] < key[y]
  <2> DEFINE a == columns[x]
             b == columns[y]
             m == L + 1
  <2>1. a \in Nat /\ b \in Nat /\ m \in Nat /\ a + 1 <= b /\ x < m /\ x \in Nat /\ y \in Nat /\ 0 < y
    BY <1>1, <1>4
  <2>2. key[x] = a * m + x /\ key[y] = b * m + y
    OBVIOUS
  <2> HIDE DEF a, b, m, key
  <2>3. (a + 1) * m <= b * m
    BY <2>1
  <2>4. (a + 1) * m = a * m + m
    BY <2>1
  <2>5. a * m \in Nat /\ b * m \in Nat
    BY <2>1
  <2> QED BY <2>1, <2>2, <2>3, <2>4, <2>5
<1>5. \A x, y \in 1 .. L : key[x] = key[y] => x = y
  <2> SUFFICES ASSUME NEW x \in 1 .. L, NEW y \in 1 .. L, key[x] = key[y] PROVE x = y
    OBVIOUS
  <2>1. ~(key[x] < key[y]) /\ ~(key[y] < key[x])
    <3> HIDE DEF key
    <3> QED BY <1>3
  <2>2. ~(columns[x] < columns[y]) /\ ~(columns[y] < columns[x])
    <3> HIDE DEF key
    <3> QED BY <1>4, <2>1
  <2>3. columns[x] = columns[y]
    BY <1>1, <2>2
  <2>4. columns[x] * (L + 1) \in Nat
    BY <1>1
  <2>5. columns[x] * (L + 1) + x = columns[x] * (L + 1) + y
    BY <2>3
  <2> DEFINE p == columns[x] * (L + 1)
  <2> HIDE DEF p
  <2> QED BY <2>4, <2>5 DEF p
<1>6. get_pk_pos(columns) = SortedBy(S, key)
  BY DEF get_pk_pos
<1> HIDE DEF key, S
<1>7. IsKey(S, key)
  BY <1>2, <1>3, <1>5 DEF IsKey
<1>8. Enumerates(SortedBy(S, key), S, key)
  BY <1>2, <1>7, SortedByIs
<1>9. Cardinality(S) \in Nat
  BY <1>2, FS_CardinalityType
<1>10. SortedBy(S, key) \in [1 .. Cardinality(S) -> S]
  BY <1>8 DEF Enumerates
<1>11. SortedBy(S, key) \in [1 .. Cardinality(S) -> 1 .. L]
  BY <1>2, <1>10
<1>12. SortedBy(S, key) \in Seq(1 .. L)
  BY <1>9, <1>11
<1> QED BY <1>6, <1>12

Changed == [old_row : Seq(Value), new_row : Seq(Value)]

\* The key of a change that has one.
LEMMA KeyTyped ==
  ASSUME NEW c \in Changed, NEW positions \in Seq(Nat \ {0}), HasKey(c, positions)
  PROVE  /\ extract_primary_key(c, positions) \in Seq(Value)
         /\ ExactRow(c.old_row) /\ ExactRow(c.new_row) =>
              ExactRow(extract_primary_key(c, positions))
<1> DEFINE row == IF c.old_row # NoRow THEN c.old_row ELSE c.new_row
           key == RowKey(row, positions)
<1>1. row \in Seq(Value) /\ row # NoRow /\ HasColumns(row, positions)
  BY DEF HasKey, Changed
<1>2. ExactRow(c.old_row) /\ ExactRow(c.new_row) => ExactRow(row)
  OBVIOUS
<1>3. extract_primary_key(c, positions) = key
  BY DEF extract_primary_key
<1> HIDE DEF row
<1>4. \A k \in 1 .. Len(positions) : positions[k] \in 1 .. Len(row)
  BY <1>1 DEF HasColumns
<1>5. key = [k \in 1 .. Len(positions) |-> row[positions[k]]] /\ Len(positions) \in Nat
  BY DEF RowKey
<1>6. \A k \in 1 .. Len(positions) : row[positions[k]] \in Value
  BY <1>1, <1>4
<1> HIDE DEF key
<1>7. key \in Seq(Value) /\ Len(key) = Len(positions)
  <2>1. key \in [1 .. Len(positions) -> Value]
    BY <1>5, <1>6
  <2> QED BY <1>5, <2>1
<1>8. ASSUME ExactRow(row) PROVE ExactRow(key)
  <2> SUFFICES ASSUME NEW k \in 1 .. Len(key) PROVE IsExact(key[k])
    BY DEF ExactRow
  <2>1. key[k] = row[positions[k]] /\ positions[k] \in 1 .. Len(row)
    BY <1>4, <1>5, <1>7
  <2> QED BY <1>8, <2>1 DEF ExactRow
<1> QED BY <1>2, <1>3, <1>7, <1>8

\* What holds while a table is looked at.
LookInv ==
  /\ at = "table" => \A k \in table .. Len(TableNames) : kept[k] = {}
  /\ at = "row" =>
       /\ table <= Len(TableNames) /\ KnownTable
       /\ pos <= Len(changes)
       /\ \A k \in table + 1 .. Len(TableNames) : kept[k] = {}
       /\ \A k \in 1 .. pos : HasKey(changes[k], pk_positions)

ArgumentsInv == FirstChangeTypeOK /\ LookInv

LEMMA ArgumentsInit == FirstChangeInit => ArgumentsInv
<1> SUFFICES ASSUME FirstChangeInit PROVE ArgumentsInv
  OBVIOUS
<1>1. FirstChangeTypeOK
  BY FirstChangeAssumption DEF FirstChangeInit, FirstChangeTypeOK
<1>2. LookInv
  BY FirstChangeAssumption DEF FirstChangeInit, LookInv
<1> QED BY <1>1, <1>2 DEF ArgumentsInv

\* The changes of the table and the columns of its key.
LEMMA ArgumentTypes ==
  ASSUME ArgumentsInv, table <= Len(TableNames), KnownTable
  PROVE  /\ table \in 1 .. Len(TableNames)
         /\ changes \in Seq(Changed) /\ Len(changes) \in Nat
         /\ \A k \in 1 .. Len(changes) : changes[k] \in Changed
         /\ pk_positions \in Seq(Nat \ {0})
<1>1. table \in 1 .. Len(TableNames) /\ IsInput(input)
  BY FirstChangeAssumption DEF ArgumentsInv, FirstChangeTypeOK
<1>2. changes \in Seq(Changed)
  BY <1>1 DEF IsInput, changes, Changed
<1>3. Len(changes) \in Nat /\ \A k \in 1 .. Len(changes) : changes[k] \in Changed
  BY <1>2
<1>4. input.schema[TableNames[table]] \in Seq(Nat)
  BY <1>1 DEF IsInput, KnownTable
<1>5. pk_positions \in Seq(1 .. Len(input.schema[TableNames[table]]))
  BY <1>4, PkPositions DEF pk_positions
<1>6. 1 .. Len(input.schema[TableNames[table]]) \subseteq Nat \ {0}
  BY <1>4
<1>7. pk_positions \in Seq(Nat \ {0})
  <2> DEFINE p == pk_positions
             S == 1 .. Len(input.schema[TableNames[table]])
  <2>1. p \in Seq(S) /\ S \subseteq Nat \ {0} BY <1>5, <1>6
  <2> HIDE DEF p, S
  <2>2. p \in [1 .. Len(p) -> S] /\ Len(p) \in Nat BY <2>1
  <2>3. p \in [1 .. Len(p) -> Nat \ {0}] BY <2>1, <2>2
  <2>4. p \in Seq(Nat \ {0}) BY <2>2, <2>3
  <2> QED BY <2>4 DEF p
<1> QED BY <1>1, <1>2, <1>3, <1>7

LEMMA ArgumentsStep == ArgumentsInv /\ [FirstChangeNext]_firstChangeVars => ArgumentsInv'
<1> SUFFICES ASSUME ArgumentsInv, [FirstChangeNext]_firstChangeVars PROVE ArgumentsInv'
  OBVIOUS
<1>0. /\ Len(TableNames) \in Nat /\ table \in 1 .. Len(TableNames) + 1 /\ pos \in Nat
      /\ IsInput(input) /\ seen \in SUBSET Seq(Value)
      /\ kept \in [1 .. Len(TableNames) -> SUBSET (Nat \ {0})]
      /\ at \in {"table", "row", "done", "threw"}
  BY FirstChangeAssumption DEF ArgumentsInv, FirstChangeTypeOK
<1>1. CASE UnknownTable
  BY <1>0, <1>1 DEF ArgumentsInv, UnknownTable, FirstChangeTypeOK, LookInv
<1>2. CASE TableWithoutKey
  <2>1. /\ at = "table" /\ at' = "table" /\ table <= Len(TableNames) /\ KnownTable
        /\ kept' = [kept EXCEPT ![table] = 1 .. Len(changes)]
        /\ table' = table + 1
        /\ UNCHANGED <<input, pos, seen>>
    BY <1>2 DEF TableWithoutKey
  <2>2. 1 .. Len(changes) \in SUBSET (Nat \ {0}) /\ table \in 1 .. Len(TableNames)
    BY <2>1, ArgumentTypes
  <2>3. FirstChangeTypeOK'
    BY <1>0, <2>1, <2>2 DEF FirstChangeTypeOK
  <2>4. \A k \in table' .. Len(TableNames) : kept'[k] = {}
    BY <1>0, <2>1, <2>2 DEF ArgumentsInv, LookInv
  <2>5. LookInv' BY <2>1, <2>4 DEF LookInv
  <2> QED BY <2>3, <2>5 DEF ArgumentsInv
<1>3. CASE TableWithKey
  <2>1. /\ at = "table" /\ at' = "row" /\ table <= Len(TableNames) /\ KnownTable
        /\ pos' = 0 /\ seen' = {}
        /\ UNCHANGED <<input, table, kept>>
    BY <1>3 DEF TableWithKey
  <2>2. Len(changes) \in Nat
    BY <2>1, ArgumentTypes
  <2>3. FirstChangeTypeOK'
    BY <1>0, <2>1 DEF FirstChangeTypeOK
  <2>4. KnownTable' /\ changes' = changes
    BY <2>1 DEF KnownTable, changes
  <2>5. \A k \in table .. Len(TableNames) : kept[k] = {}
    BY <2>1 DEF ArgumentsInv, LookInv
  <2>6. LookInv' BY <1>0, <2>1, <2>2, <2>4, <2>5 DEF LookInv
  <2> QED BY <2>3, <2>6 DEF ArgumentsInv
<1>4. CASE Examine
  <2>1. /\ at = "row" /\ pos < Len(changes) /\ HasKey(changes[pos + 1], pk_positions)
        /\ pos' = pos + 1
        /\ UNCHANGED <<input, table, at>>
        /\ \/ UNCHANGED <<seen, kept>>
           \/ /\ seen' = seen \cup {extract_primary_key(changes[pos + 1], pk_positions)}
              /\ kept' = [kept EXCEPT ![table] = @ \cup {pos + 1}]
    BY <1>4 DEF Examine
  <2>2. /\ table <= Len(TableNames) /\ KnownTable
        /\ \A k \in table + 1 .. Len(TableNames) : kept[k] = {}
        /\ \A k \in 1 .. pos : HasKey(changes[k], pk_positions)
    BY <2>1 DEF ArgumentsInv, LookInv
  <2>3. /\ table \in 1 .. Len(TableNames) /\ Len(changes) \in Nat
        /\ \A k \in 1 .. Len(changes) : changes[k] \in Changed
        /\ pk_positions \in Seq(Nat \ {0})
    BY <2>2, ArgumentTypes
  <2>4. extract_primary_key(changes[pos + 1], pk_positions) \in Seq(Value)
    <3>1. pos + 1 \in 1 .. Len(changes) BY <1>0, <2>1, <2>3
    <3> QED BY <2>1, <2>3, <3>1, KeyTyped
  <2>5. seen' \in SUBSET Seq(Value)
    BY <1>0, <2>1, <2>4
  <2>6. kept' \in [1 .. Len(TableNames) -> SUBSET (Nat \ {0})]
    BY <1>0, <2>1, <2>3
  <2>7. FirstChangeTypeOK'
    BY <1>0, <2>1, <2>5, <2>6 DEF FirstChangeTypeOK
  <2>8. KnownTable' /\ changes' = changes /\ pk_positions' = pk_positions
    BY <2>1, <2>2 DEF KnownTable, changes, pk_positions
  <2>9. \A k \in table + 1 .. Len(TableNames) : kept'[k] = {}
    BY <1>0, <2>1, <2>2, <2>3
  <2>10. \A k \in 1 .. pos' : HasKey(changes[k], pk_positions)
    BY <1>0, <2>1, <2>2
  <2>11. \A k : HasKey(changes[k], pk_positions)' <=> HasKey(changes[k], pk_positions)
    BY <2>8 DEF HasKey, HasColumns, RowKey
  <2>12. pos' <= Len(changes') BY <1>0, <2>1, <2>3, <2>8
  <2>13. LookInv'
    BY <2>1, <2>2, <2>8, <2>9, <2>10, <2>11, <2>12 DEF LookInv
  <2> QED BY <2>7, <2>13 DEF ArgumentsInv
<1>5. CASE BadState
  BY <1>0, <1>5 DEF ArgumentsInv, BadState, FirstChangeTypeOK, LookInv
<1>6. CASE TableDone
  <2>1. /\ at = "row" /\ at' = "table" /\ table' = table + 1
        /\ UNCHANGED <<input, pos, seen, kept>>
    BY <1>6 DEF TableDone
  <2>2. /\ table <= Len(TableNames)
        /\ \A k \in table + 1 .. Len(TableNames) : kept[k] = {}
    BY <2>1 DEF ArgumentsInv, LookInv
  <2>3. FirstChangeTypeOK' BY <1>0, <2>1, <2>2 DEF FirstChangeTypeOK
  <2>4. LookInv' BY <2>1, <2>2 DEF LookInv
  <2> QED BY <2>3, <2>4 DEF ArgumentsInv
<1>7. CASE Return
  BY <1>0, <1>7 DEF ArgumentsInv, Return, FirstChangeTypeOK, LookInv
<1>8. CASE Over \/ UNCHANGED firstChangeVars
  <2>1. UNCHANGED <<input, table, pos, seen, kept, at>>
    BY <1>8 DEF Over, firstChangeVars
  <2>2. KnownTable' = KnownTable /\ changes' = changes /\ pk_positions' = pk_positions
    BY <2>1 DEF KnownTable, changes, pk_positions
  <2>3. \A k : HasKey(changes[k], pk_positions)' <=> HasKey(changes[k], pk_positions)
    BY <2>2 DEF HasKey, HasColumns, RowKey
  <2>4. FirstChangeTypeOK' BY <1>0, <2>1 DEF FirstChangeTypeOK
  <2>5. LookInv' BY <2>1, <2>2, <2>3 DEF ArgumentsInv, LookInv
  <2> QED BY <2>4, <2>5 DEF ArgumentsInv
<1> QED
  BY <1>1, <1>2, <1>3, <1>4, <1>5, <1>6, <1>7, <1>8 DEF FirstChangeNext

LEMMA ArgumentsInvariant == FirstChangeSpec => []ArgumentsInv
BY ArgumentsInit, ArgumentsStep, PTL DEF FirstChangeSpec

\* The type invariant of the call: the positions that are kept are positions, the keys
\* of the set are rows of values.
THEOREM FirstChangeTypeCorrect == FirstChangeSpec => []FirstChangeTypeOK
<1>1. ArgumentsInv => FirstChangeTypeOK BY DEF ArgumentsInv
<1> QED BY <1>1, ArgumentsInvariant, PTL

------------------------------------------------------------------------------
\* The integers of the rows are within the exact range.
ExactInput(in) ==
  \A k \in 1 .. Len(TableNames) :
    LET list == in.changes[TableNames[k]]
    IN  \A i \in 1 .. Len(list) : ExactRow(list[i].old_row) /\ ExactRow(list[i].new_row)

KeyFunction == [k \in 1 .. Len(changes) |-> KeyAt(k)]

\* The set holds the keys of the changes that are kept.
KeysInv ==
  /\ ExactInput(input)
  /\ at = "row" =>
       /\ kept[table] = FirstOf(KeyFunction, pos)
       /\ seen = {KeyFunction[k] : k \in kept[table]}

LEMMA KeysTyped ==
  ASSUME ArgumentsInv, ExactInput(input), at = "row", NEW k \in 1 .. Len(changes),
         HasKey(changes[k], pk_positions)
  PROVE  KeyFunction[k] \in Seq(Value) /\ ExactRow(KeyFunction[k])
<1>1. table <= Len(TableNames) /\ KnownTable
  BY DEF ArgumentsInv, LookInv
<1>2. /\ table \in 1 .. Len(TableNames)
      /\ changes[k] \in Changed
      /\ pk_positions \in Seq(Nat \ {0})
  BY <1>1, ArgumentTypes
<1>3. ExactRow(changes[k].old_row) /\ ExactRow(changes[k].new_row)
  BY <1>2 DEF ExactInput, changes
<1>4. KeyFunction[k] = extract_primary_key(changes[k], pk_positions)
  BY DEF KeyFunction, KeyAt
<1> QED BY <1>2, <1>3, <1>4, KeyTyped

\* The test of the set, and what it makes of the set.
LEMMA ExamineKeys ==
  ASSUME ArgumentsInv, KeysInv, Examine
  PROVE  /\ kept'[table] = FirstOf(KeyFunction, pos + 1)
         /\ seen' = {KeyFunction[k] : k \in kept'[table]}
<1> DEFINE key == KeyFunction[pos + 1]
           F == KeyFunction
<1>1. /\ at = "row" /\ pos < Len(changes) /\ HasKey(changes[pos + 1], pk_positions)
      /\ pos \in Nat /\ table \in 1 .. Len(TableNames) /\ Len(changes) \in Nat
      /\ kept \in [1 .. Len(TableNames) -> SUBSET (Nat \ {0})]
      /\ \A k \in 1 .. pos : HasKey(changes[k], pk_positions)
  <2>1. at = "row" /\ pos < Len(changes) /\ HasKey(changes[pos + 1], pk_positions)
    BY DEF Examine
  <2>2. /\ table <= Len(TableNames) /\ KnownTable
        /\ \A k \in 1 .. pos : HasKey(changes[k], pk_positions)
    BY <2>1 DEF ArgumentsInv, LookInv
  <2>3. table \in 1 .. Len(TableNames) /\ Len(changes) \in Nat
    BY <2>2, ArgumentTypes
  <2> QED BY <2>1, <2>2, <2>3 DEF ArgumentsInv, FirstChangeTypeOK
<1>2. pos + 1 \in 1 .. Len(changes)
  BY <1>1
<1>3. key = extract_primary_key(changes[pos + 1], pk_positions)
  BY <1>2 DEF KeyFunction, KeyAt
<1>4. IF IsNew(key)
      THEN /\ seen' = seen \cup {key}
           /\ kept'[table] = kept[table] \cup {pos + 1}
      ELSE seen' = seen /\ kept'[table] = kept[table]
  <2> HIDE DEF key
  <2> QED BY <1>1, <1>3 DEF Examine
<1>5. kept[table] = FirstOf(F, pos) /\ seen = {F[k] : k \in kept[table]} /\ ExactInput(input)
  BY <1>1 DEF KeysInv
<1>6. \A k \in 1 .. pos : F[k] \in Seq(Value) /\ ExactRow(F[k])
  <2> TAKE k \in 1 .. pos
  <2>1. k \in 1 .. Len(changes) BY <1>1
  <2> QED BY <1>1, <1>5, <2>1, KeysTyped
<1>7. key \in Seq(Value) /\ ExactRow(key)
  BY <1>1, <1>2, <1>5, KeysTyped
<1>8. IsNew(key) <=> \A k \in FirstOf(F, pos) : ~RowTie(F[k], key)
  <2> HIDE DEF key, F
  <2> QED BY <1>5 DEF IsNew
<1>9. IsNew(key) <=> \A j \in 1 .. pos : ~RowEq(F[j], key)
  <2> HIDE DEF key, F
  <2> QED BY <1>1, <1>6, <1>7, <1>8, FirstsDecide
<1>10. FirstOf(F, pos + 1) = IF IsNew(key) THEN FirstOf(F, pos) \cup {pos + 1}
                             ELSE FirstOf(F, pos)
  <2>1. key = F[pos + 1] OBVIOUS
  <2> HIDE DEF key, F
  <2> QED BY <1>1, <1>9, <2>1, FirstOfNext
<1>11. kept'[table] = FirstOf(F, pos + 1)
  <2> HIDE DEF key, F
  <2> QED BY <1>4, <1>5, <1>10
<1>12. seen' = {F[k] : k \in kept'[table]}
  <2>1. key = F[pos + 1] OBVIOUS
  <2> HIDE DEF key, F
  <2>2. CASE IsNew(key)
    <3>1. seen' = seen \cup {key} /\ kept'[table] = kept[table] \cup {pos + 1}
      BY <1>4, <2>2
    <3>2. \A x : x \in seen <=> \E k \in kept[table] : x = F[k]
      BY <1>5
    <3>3. \A x : x \in seen' <=> \E k \in kept'[table] : x = F[k]
      BY <2>1, <3>1, <3>2
    <3> QED BY <3>3
  <2>3. CASE ~IsNew(key)
    BY <1>4, <1>5, <2>3
  <2> QED BY <2>2, <2>3
<1> QED BY <1>11, <1>12

LEMMA KeysInit ==
  ASSUME \A in \in Inputs : ExactInput(in)
  PROVE  FirstChangeInit => KeysInv
BY DEF FirstChangeInit, KeysInv

LEMMA KeysStep == ArgumentsInv /\ KeysInv /\ [FirstChangeNext]_firstChangeVars => KeysInv'
<1> SUFFICES ASSUME ArgumentsInv, KeysInv, [FirstChangeNext]_firstChangeVars PROVE KeysInv'
  OBVIOUS
<1>1. input' = input
  BY DEF FirstChangeNext, UnknownTable, TableWithoutKey, TableWithKey, Examine, BadState,
         TableDone, Return, Over, firstChangeVars
<1>2. ExactInput(input)'
  BY <1>1 DEF KeysInv, ExactInput
<1>3. ASSUME table' = table PROVE KeyFunction' = KeyFunction
  BY <1>1, <1>3 DEF KeyFunction, KeyAt, changes, pk_positions
<1>4. CASE TableWithKey
  <2>1. /\ at = "table" /\ at' = "row" /\ table <= Len(TableNames) /\ KnownTable
        /\ pos' = 0 /\ seen' = {} /\ UNCHANGED <<table, kept>>
    BY <1>4 DEF TableWithKey
  <2>2. kept[table] = {}
    BY <2>1, ArgumentTypes DEF ArgumentsInv, LookInv
  <2>3. FirstOf(KeyFunction, 0) = {}
    BY DEF FirstOf
  <2> QED BY <1>2, <1>3, <2>1, <2>2, <2>3 DEF KeysInv
<1>5. CASE Examine
  <2>1. at' = at /\ pos' = pos + 1 /\ table' = table
    BY <1>5 DEF Examine
  <2>2. /\ kept'[table] = FirstOf(KeyFunction, pos + 1)
        /\ seen' = {KeyFunction[k] : k \in kept'[table]}
    BY <1>5, ExamineKeys
  <2> QED BY <1>2, <1>3, <2>1, <2>2 DEF KeysInv
<1>6. CASE UnknownTable \/ TableWithoutKey \/ BadState \/ TableDone \/ Return
  <2>1. at' # "row"
    BY <1>6 DEF UnknownTable, TableWithoutKey, BadState, TableDone, Return
  <2> QED BY <1>2, <2>1 DEF KeysInv
<1>7. CASE Over \/ UNCHANGED firstChangeVars
  <2>1. UNCHANGED <<table, pos, seen, kept, at>>
    BY <1>7 DEF Over, firstChangeVars
  <2> QED BY <1>2, <1>3, <2>1 DEF KeysInv
<1> QED BY <1>4, <1>5, <1>6, <1>7 DEF FirstChangeNext

\* However the keys are ordered, split over columns and stored, as long as their
\* integers are exact as doubles, the changes that are kept are the first of each key.
THEOREM FirstChangeCorrect ==
  ASSUME \A in \in Inputs : ExactInput(in)
  PROVE  FirstChangeSpec => []KeepsTheFirstOfEachKey
<1>1. FirstChangeInit => KeysInv
  BY KeysInit
<1>2. ArgumentsInv /\ KeysInv => KeepsTheFirstOfEachKey
  <2> SUFFICES ASSUME ArgumentsInv, KeysInv, at = "row"
               PROVE  kept[table] = {k \in 1 .. pos :
                                       \A j \in 1 .. k - 1 : ~RowEq(KeyAt(j), KeyAt(k))}
    BY DEF KeepsTheFirstOfEachKey
  <2>1. kept[table] = FirstOf(KeyFunction, pos)
    BY DEF KeysInv
  <2>2. pos <= Len(changes) /\ pos \in Nat /\ Len(changes) \in Nat
    BY ArgumentTypes DEF ArgumentsInv, LookInv, FirstChangeTypeOK
  <2>3. \A k \in 1 .. pos : KeyFunction[k] = KeyAt(k)
    BY <2>2 DEF KeyFunction
  <2>4. \A k \in 1 .. pos : \A j \in 1 .. k - 1 : j \in 1 .. pos
    BY <2>2
  <2> QED BY <2>1, <2>3, <2>4 DEF FirstOf
<1> QED BY <1>1, <1>2, KeysStep, ArgumentsInvariant, PTL DEF FirstChangeSpec
==============================================================================
