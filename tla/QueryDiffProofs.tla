--------------------------- MODULE QueryDiffProofs ---------------------------
(***************************************************************************)
(* Proofs about calculate_diff for lists of any length and any relations:   *)
(* the result is in incremental_consistent_order, it accounts for every row *)
(* of both lists exactly once, replaying it gives the new list, and it is    *)
(* the exact difference when the order identifies the entity.               *)
(***************************************************************************)
EXTENDS QueryDiff, ListDiffProofs

\* What the merge has found so far, in terms of how far it has read.
DeletesInv ==
  /\ \A k \in 1 .. Len(deletes) : deletes[k].to_index = -1
  /\ \A k, l \in 1 .. Len(deletes) :
       k < l => deletes[k].from_index < deletes[l].from_index

InsertsInv ==
  /\ \A k \in 1 .. Len(inserts) :
       inserts[k].from_index = -1 /\ inserts[k].to_index # -1
  /\ \A k, l \in 1 .. Len(inserts) :
       k < l => inserts[k].to_index < inserts[l].to_index

UpdatesInv ==
  /\ \A k \in 1 .. Len(updates) :
       updates[k].from_index # -1 /\ updates[k].to_index # -1
  /\ \A k, l \in 1 .. Len(updates) :
       k < l => updates[k].to_index < updates[l].to_index

ReadInv ==
  /\ Partition(0 .. old_pos - 1, From(deletes), From(updates), From(kept))
  /\ Partition(0 .. new_pos - 1, To(inserts), To(updates), To(kept))

ResultInv ==
  /\ pc = "done" => /\ old_pos = Len(old_list) /\ new_pos = Len(new_list)
                    /\ changes = Reverse(deletes) \o inserts \o updates
  /\ pc # "done" => changes = <<>>

IInv == TypeOK /\ DeletesInv /\ InsertsInv /\ UpdatesInv /\ ReadInv /\ ResultInv

------------------------------------------------------------------------------

\* push_back on a vector of changes.
LEMMA PushBack ==
  ASSUME NEW s \in Seq(ListChange), NEW c \in ListChange
  PROVE  /\ Append(s, c) \in Seq(ListChange)
         /\ Len(Append(s, c)) = Len(s) + 1
         /\ \A k \in 1 .. Len(s) : Append(s, c)[k] = s[k]
         /\ Append(s, c)[Len(s) + 1] = c
         /\ From(Append(s, c)) = From(s) \cup {c.from_index}
         /\ To(Append(s, c)) = To(s) \cup {c.to_index}
<1>1. /\ Append(s, c) \in Seq(ListChange)
      /\ Len(Append(s, c)) = Len(s) + 1
      /\ \A k \in 1 .. Len(s) : Append(s, c)[k] = s[k]
      /\ Append(s, c)[Len(s) + 1] = c
      /\ Len(s) \in Nat
  BY AppendProperties
<1>2. 1 .. Len(Append(s, c)) = (1 .. Len(s)) \cup {Len(s) + 1}
  BY <1>1
<1>3. From(Append(s, c)) = From(s) \cup {c.from_index}
  BY <1>1, <1>2 DEF From
<1>4. To(Append(s, c)) = To(s) \cup {c.to_index}
  BY <1>1, <1>2 DEF To
<1> QED
  BY <1>1, <1>3, <1>4

\* A list of changes with increasing targets stays so when a larger one is appended.
LEMMA PushIncreasing ==
  ASSUME NEW s \in Seq(ListChange), NEW c \in ListChange,
         \A k, l \in 1 .. Len(s) : k < l => s[k].to_index < s[l].to_index,
         \A k \in 1 .. Len(s) : s[k].to_index < c.to_index
  PROVE  \A k, l \in 1 .. Len(Append(s, c)) :
           k < l => Append(s, c)[k].to_index < Append(s, c)[l].to_index
<1> SUFFICES ASSUME NEW k \in 1 .. Len(Append(s, c)), NEW l \in 1 .. Len(Append(s, c)), k < l
             PROVE  Append(s, c)[k].to_index < Append(s, c)[l].to_index
  OBVIOUS
<1>1. Len(s) \in Nat /\ Len(Append(s, c)) = Len(s) + 1
  BY PushBack, LenProperties
<1>2. k \in 1 .. Len(s) /\ Append(s, c)[k] = s[k]
  BY <1>1, PushBack
<1>3. CASE l \in 1 .. Len(s)
  BY <1>2, <1>3, PushBack
<1>4. CASE l = Len(s) + 1
  BY <1>2, <1>4, PushBack
<1> QED
  BY <1>1, <1>3, <1>4

\* The positions found so far are those already read, so each lies below the position
\* of the next row.
LEMMA BelowPos ==
  ASSUME TypeOK, ReadInv
  PROVE  /\ \A k \in 1 .. Len(deletes) : deletes[k].from_index < old_pos
         /\ \A k \in 1 .. Len(inserts) : inserts[k].to_index < new_pos
         /\ \A k \in 1 .. Len(updates) : updates[k].to_index < new_pos
<1>1. \A k \in 1 .. Len(deletes) : deletes[k].from_index \in 0 .. old_pos - 1
  BY DEF ReadInv, Partition, From
<1>2. \A k \in 1 .. Len(inserts) : inserts[k].to_index \in 0 .. new_pos - 1
  BY DEF ReadInv, Partition, To
<1>3. \A k \in 1 .. Len(updates) : updates[k].to_index \in 0 .. new_pos - 1
  BY DEF ReadInv, Partition, To
<1>4. old_pos \in Int /\ new_pos \in Int
  BY DEF TypeOK
<1> QED
  BY <1>1, <1>2, <1>3, <1>4

\* Reading one more row extends one of the three parts.
LEMMA PartitionStep ==
  ASSUME NEW n \in Nat, NEW A, NEW B, NEW C, Partition(0 .. n - 1, A, B, C)
  PROVE  /\ Partition(0 .. (n + 1) - 1, A \cup {n}, B, C)
         /\ Partition(0 .. (n + 1) - 1, A, B \cup {n}, C)
         /\ Partition(0 .. (n + 1) - 1, A, B, C \cup {n})
<1>1. 0 .. (n + 1) - 1 = (0 .. n - 1) \cup {n} /\ n \notin 0 .. n - 1
  OBVIOUS
<1> QED
  BY <1>1 DEF Partition

LEMMA ChangeTypes ==
  ASSUME NEW i \in Nat, NEW j \in Nat
  PROVE  /\ Delete(i) \in ListChange /\ Insert(j) \in ListChange
         /\ Update(i, j) \in ListChange
BY DEF Delete, Insert, Update, ListChange

LEMMA ReverseDeletes ==
  ASSUME NEW s \in Seq(ListChange)
  PROVE  /\ Reverse(s) \in Seq(ListChange)
         /\ Len(Reverse(s)) = Len(s)
         /\ \A k \in 1 .. Len(s) : Reverse(s)[k] = s[(Len(s) - k) + 1]
<1>1. Len(s) \in Nat
  BY LenProperties
<1>2. Reverse(s) \in [1 .. Len(s) -> ListChange]
  BY <1>1, ElementOfSeq DEF Reverse
<1> QED
  BY <1>1, <1>2, SeqDef, LenProperties DEF Reverse

------------------------------------------------------------------------------

LEMMA TypeCorrect == TypeOK /\ [Next]_vars => TypeOK'
<1> SUFFICES ASSUME TypeOK, [Next]_vars PROVE TypeOK'
  OBVIOUS
<1> USE DEF TypeOK, args
<1>0. /\ Len(old_list) \in Nat /\ Len(new_list) \in Nat
      /\ old_pos \in Nat /\ new_pos \in Nat
  OBVIOUS
<1>1. CASE Check
  BY <1>1 DEF Check
<1>2. CASE MergeUpdate
  <2>1. updates' \in Seq(ListChange)
    BY <1>0, <1>2, ChangeTypes, PushBack DEF MergeUpdate
  <2>2. old_pos' \in 0 .. Len(old_list) /\ new_pos' \in 0 .. Len(new_list)
    BY <1>0, <1>2 DEF MergeUpdate, OldLeft, NewLeft
  <2> QED
    BY <1>2, <2>1, <2>2 DEF MergeUpdate
<1>3. CASE MergeSuppress
  <2>1. kept' \in Seq(ListChange)
    BY <1>0, <1>3, ChangeTypes, PushBack DEF MergeSuppress
  <2>2. old_pos' \in 0 .. Len(old_list) /\ new_pos' \in 0 .. Len(new_list)
    BY <1>0, <1>3 DEF MergeSuppress, OldLeft, NewLeft
  <2> QED
    BY <1>3, <2>1, <2>2 DEF MergeSuppress
<1>4. CASE MergeDelete
  BY <1>0, <1>4, ChangeTypes, PushBack DEF MergeDelete, OldLeft
<1>5. CASE MergeInsert
  BY <1>0, <1>5, ChangeTypes, PushBack DEF MergeInsert, NewLeft
<1>6. CASE Assemble
  <2>1. Reverse(deletes) \o inserts \o updates \in Seq(ListChange)
    BY ReverseDeletes, ConcatProperties
  <2> QED
    BY <1>6, <2>1 DEF Assemble
<1>7. CASE UNCHANGED vars
  BY <1>7 DEF vars
<1> QED
  BY <1>1, <1>2, <1>3, <1>4, <1>5, <1>6, <1>7 DEF Next, Returned

LEMMA MergeStep ==
  ASSUME TypeOK, DeletesInv, InsertsInv, UpdatesInv, ReadInv,
         MergeUpdate \/ MergeSuppress \/ MergeDelete \/ MergeInsert
  PROVE  DeletesInv' /\ InsertsInv' /\ UpdatesInv' /\ ReadInv'
<1>0. /\ old_pos \in Nat /\ new_pos \in Nat
      /\ deletes \in Seq(ListChange) /\ inserts \in Seq(ListChange)
      /\ updates \in Seq(ListChange) /\ kept \in Seq(ListChange)
  BY DEF TypeOK
<1>1. CASE MergeUpdate
  <2> DEFINE c == Update(old_pos, new_pos)
  <2>1. /\ updates' = Append(updates, c)
        /\ old_pos' = old_pos + 1 /\ new_pos' = new_pos + 1
        /\ UNCHANGED <<deletes, inserts, kept>>
    BY <1>1 DEF MergeUpdate
  <2>2. c \in ListChange /\ c.from_index = old_pos /\ c.to_index = new_pos
    BY <1>0, ChangeTypes DEF Update
  <2> HIDE DEF c
  <2>3. UpdatesInv'
    <3>1. \A k, l \in 1 .. Len(updates') : k < l => updates'[k].to_index < updates'[l].to_index
      BY <1>0, <2>1, <2>2, BelowPos, PushIncreasing DEF UpdatesInv
    <3>2. \A k \in 1 .. Len(updates') : k \in 1 .. Len(updates) \/ k = Len(updates) + 1
      BY <1>0, <2>1, <2>2, PushBack, LenProperties
    <3> QED
      BY <1>0, <2>1, <2>2, <3>1, <3>2, PushBack DEF UpdatesInv
  <2>4. ReadInv'
    <3>1. From(updates') = From(updates) \cup {old_pos} /\ To(updates') = To(updates) \cup {new_pos}
      BY <1>0, <2>1, <2>2, PushBack
    <3>2. Partition(0 .. old_pos' - 1, From(deletes), From(updates) \cup {old_pos}, From(kept))
      BY <1>0, <2>1, <3>1, PartitionStep DEF ReadInv
    <3>3. Partition(0 .. new_pos' - 1, To(inserts), To(updates) \cup {new_pos}, To(kept))
      BY <1>0, <2>1, <3>1, PartitionStep DEF ReadInv
    <3> QED
      BY <2>1, <3>1, <3>2, <3>3 DEF ReadInv
  <2> QED
    BY <2>1, <2>3, <2>4 DEF DeletesInv, InsertsInv
<1>2. CASE MergeSuppress
  <2> DEFINE c == Update(old_pos, new_pos)
  <2>1. /\ kept' = Append(kept, c)
        /\ old_pos' = old_pos + 1 /\ new_pos' = new_pos + 1
        /\ UNCHANGED <<deletes, inserts, updates>>
    BY <1>2 DEF MergeSuppress
  <2>2. c \in ListChange /\ c.from_index = old_pos /\ c.to_index = new_pos
    BY <1>0, ChangeTypes DEF Update
  <2> HIDE DEF c
  <2>3. ReadInv'
    <3>1. From(kept') = From(kept) \cup {old_pos} /\ To(kept') = To(kept) \cup {new_pos}
      BY <1>0, <2>1, <2>2, PushBack
    <3>2. Partition(0 .. old_pos' - 1, From(deletes), From(updates), From(kept) \cup {old_pos})
      BY <1>0, <2>1, <3>1, PartitionStep DEF ReadInv
    <3>3. Partition(0 .. new_pos' - 1, To(inserts), To(updates), To(kept) \cup {new_pos})
      BY <1>0, <2>1, <3>1, PartitionStep DEF ReadInv
    <3> QED
      BY <2>1, <3>1, <3>2, <3>3 DEF ReadInv
  <2> QED
    BY <2>1, <2>3 DEF DeletesInv, InsertsInv, UpdatesInv
<1>3. CASE MergeDelete
  <2> DEFINE c == Delete(old_pos)
  <2>1. /\ deletes' = Append(deletes, c)
        /\ old_pos' = old_pos + 1
        /\ UNCHANGED <<new_pos, inserts, updates, kept>>
    BY <1>3 DEF MergeDelete
  <2>2. c \in ListChange /\ c.from_index = old_pos /\ c.to_index = -1
    BY <1>0, ChangeTypes DEF Delete
  <2> HIDE DEF c
  <2>3. DeletesInv'
    BY <1>0, <2>1, <2>2, PushBack, BelowPos, LenProperties DEF DeletesInv
  <2>4. ReadInv'
    <3>1. From(deletes') = From(deletes) \cup {old_pos}
      BY <1>0, <2>1, <2>2, PushBack
    <3>2. Partition(0 .. old_pos' - 1, From(deletes) \cup {old_pos}, From(updates), From(kept))
      BY <1>0, <2>1, <3>1, PartitionStep DEF ReadInv
    <3> QED
      BY <2>1, <3>1, <3>2 DEF ReadInv
  <2> QED
    BY <2>1, <2>3, <2>4 DEF InsertsInv, UpdatesInv
<1>4. CASE MergeInsert
  <2> DEFINE c == Insert(new_pos)
  <2>1. /\ inserts' = Append(inserts, c)
        /\ new_pos' = new_pos + 1
        /\ UNCHANGED <<old_pos, deletes, updates, kept>>
    BY <1>4 DEF MergeInsert
  <2>2. c \in ListChange /\ c.from_index = -1 /\ c.to_index = new_pos
    BY <1>0, ChangeTypes DEF Insert
  <2> HIDE DEF c
  <2>3. InsertsInv'
    <3>1. \A k, l \in 1 .. Len(inserts') : k < l => inserts'[k].to_index < inserts'[l].to_index
      BY <1>0, <2>1, <2>2, BelowPos, PushIncreasing DEF InsertsInv
    <3>2. \A k \in 1 .. Len(inserts') : k \in 1 .. Len(inserts) \/ k = Len(inserts) + 1
      BY <1>0, <2>1, <2>2, PushBack, LenProperties
    <3> QED
      BY <1>0, <2>1, <2>2, <3>1, <3>2, PushBack DEF InsertsInv
  <2>4. ReadInv'
    <3>1. To(inserts') = To(inserts) \cup {new_pos}
      BY <1>0, <2>1, <2>2, PushBack
    <3>2. Partition(0 .. new_pos' - 1, To(inserts) \cup {new_pos}, To(updates), To(kept))
      BY <1>0, <2>1, <3>1, PartitionStep DEF ReadInv
    <3> QED
      BY <2>1, <3>1, <3>2 DEF ReadInv
  <2> QED
    BY <2>1, <2>3, <2>4 DEF DeletesInv, UpdatesInv
<1> QED
  BY <1>1, <1>2, <1>3, <1>4

LEMMA ResultStep ==
  ASSUME TypeOK, ResultInv, [Next]_vars
  PROVE  ResultInv'
<1>1. CASE Check
  BY <1>1 DEF Check, ResultInv
<1>2. CASE MergeUpdate \/ MergeSuppress \/ MergeDelete \/ MergeInsert
  BY <1>2 DEF MergeUpdate, MergeSuppress, MergeDelete, MergeInsert, ResultInv
<1>3. CASE Assemble
  BY <1>3 DEF Assemble, ResultInv, TypeOK, OldLeft, NewLeft, args
<1>4. CASE UNCHANGED vars
  BY <1>4 DEF vars, ResultInv
<1> QED
  BY <1>1, <1>2, <1>3, <1>4 DEF Next, Returned

\* The loop invariant of the merge.
THEOREM Inductive == Spec => []IInv
<1>1. Init => IInv
  <2> SUFFICES ASSUME Init PROVE IInv
    OBVIOUS
  <2>1. /\ <<>> \in Seq(ListChange) /\ Len(<<>>) = 0
        /\ old_list \in Seq(Rows) /\ new_list \in Seq(Rows)
    BY EmptySeq, QueryDiffAssumption DEF Init
  <2>2. TypeOK
    BY <2>1 DEF Init, TypeOK
  <2>3. 0 .. 0 - 1 = {} /\ From(<<>>) = {} /\ To(<<>>) = {}
    BY DEF From, To
  <2>4. ReadInv
    BY <2>3 DEF Init, ReadInv, Partition
  <2>5. DeletesInv /\ InsertsInv /\ UpdatesInv /\ ResultInv
    BY <2>1 DEF Init, DeletesInv, InsertsInv, UpdatesInv, ResultInv
  <2> QED
    BY <2>2, <2>4, <2>5 DEF IInv
<1>2. IInv /\ [Next]_vars => IInv'
  <2> SUFFICES ASSUME IInv, [Next]_vars
               PROVE  DeletesInv' /\ InsertsInv' /\ UpdatesInv' /\ ReadInv'
    BY TypeCorrect, ResultStep DEF IInv
  <2>1. CASE MergeUpdate \/ MergeSuppress \/ MergeDelete \/ MergeInsert
    BY <2>1, MergeStep DEF IInv
  <2>2. CASE UNCHANGED <<old_pos, new_pos, deletes, inserts, updates, kept>>
    BY <2>2 DEF IInv, DeletesInv, InsertsInv, UpdatesInv, ReadInv
  <2> QED
    BY <2>1, <2>2 DEF Next, Check, Assemble, Returned, vars
<1> QED
  BY <1>1, <1>2, PTL DEF Spec

\* Typing of the positions, the three vectors and the result.
THEOREM TypeCorrectness == Spec => []TypeOK
BY Inductive, PTL DEF IInv

\* When calculate_diff returns, no row of either list was skipped or counted twice.
THEOREM RowsAccounted == Spec => []RowsAccountedFor
<1>1. IInv => RowsAccountedFor
  BY DEF IInv, ReadInv, ResultInv, RowsAccountedFor
<1> QED
  BY <1>1, Inductive, PTL

\* Two ordered lists, each change of the first before each of the second.
LEMMA ConcatOrdered ==
  ASSUME NEW s \in Seq(ListChange), NEW t \in Seq(ListChange),
         Ordered(s), Ordered(t),
         \A i \in 1 .. Len(s), j \in 1 .. Len(t) :
           incremental_consistent_order(s[i], t[j])
  PROVE  Ordered(s \o t)
<1> DEFINE st == s \o t
<1>1. /\ Len(s) \in Nat /\ Len(t) \in Nat
      /\ Len(st) = Len(s) + Len(t)
      /\ \A i \in 1 .. Len(st) :
           st[i] = IF i <= Len(s) THEN s[i] ELSE t[i - Len(s)]
  BY ConcatProperties, LenProperties
<1> SUFFICES ASSUME NEW i \in 1 .. Len(st), NEW j \in 1 .. Len(st), i < j
             PROVE  incremental_consistent_order(st[i], st[j])
  BY DEF Ordered
<1> HIDE DEF st
<1>2. CASE j <= Len(s)
  <2>1. st[i] = s[i] /\ st[j] = s[j] /\ i \in 1 .. Len(s) /\ j \in 1 .. Len(s)
    BY <1>1, <1>2
  <2> QED
    BY <2>1 DEF Ordered
<1>3. CASE i <= Len(s) /\ ~(j <= Len(s))
  <2>1. /\ st[i] = s[i] /\ st[j] = t[j - Len(s)]
        /\ i \in 1 .. Len(s) /\ j - Len(s) \in 1 .. Len(t)
    BY <1>1, <1>3
  <2> QED
    BY <2>1
<1>4. CASE ~(i <= Len(s))
  <2>1. /\ st[i] = t[i - Len(s)] /\ st[j] = t[j - Len(s)]
        /\ i - Len(s) \in 1 .. Len(t) /\ j - Len(s) \in 1 .. Len(t)
        /\ i - Len(s) < j - Len(s)
    BY <1>1, <1>4
  <2> QED
    BY <2>1 DEF Ordered
<1> QED
  BY <1>1, <1>2, <1>3, <1>4

\* The result is strictly sorted by incremental_consistent_order.
THEOREM ResultOrdered == Spec => []ConsistentlyOrdered
<1>1. IInv => ConsistentlyOrdered
  <2> SUFFICES ASSUME IInv PROVE Ordered(changes)
    BY DEF ConsistentlyOrdered
  <2>1. CASE pc # "done"
    BY <2>1, EmptySeq DEF IInv, ResultInv, Ordered
  <2>2. CASE pc = "done"
    <3> DEFINE rev == Reverse(deletes)
    <3> USE DEF IInv, TypeOK, incremental_consistent_order, ord_class
    <3>1. /\ rev \in Seq(ListChange) /\ Len(rev) = Len(deletes)
          /\ \A k \in 1 .. Len(deletes) : rev[k] = deletes[(Len(deletes) - k) + 1]
      BY ReverseDeletes
    <3>2. Len(deletes) \in Nat
      BY LenProperties
    <3>3. \A k \in 1 .. Len(deletes) : (Len(deletes) - k) + 1 \in 1 .. Len(deletes)
      BY <3>2
    <3>4. \A k \in 1 .. Len(rev) : rev[k].to_index = -1
      BY <3>1, <3>3 DEF DeletesInv
    <3> HIDE DEF rev
    <3>5. Ordered(rev)
      <4> SUFFICES ASSUME NEW i \in 1 .. Len(rev), NEW j \in 1 .. Len(rev), i < j
                   PROVE  rev[i].from_index > rev[j].from_index
        BY <3>4 DEF Ordered
      <4> DEFINE p == (Len(deletes) - i) + 1
                 q == (Len(deletes) - j) + 1
      <4>1. p \in 1 .. Len(deletes) /\ q \in 1 .. Len(deletes) /\ q < p
        BY <3>1, <3>2
      <4>2. rev[i] = deletes[p] /\ rev[j] = deletes[q]
        BY <3>1
      <4> HIDE DEF p, q
      <4>3. deletes[q].from_index < deletes[p].from_index
        BY <4>1 DEF DeletesInv
      <4>4. deletes[q] \in ListChange /\ deletes[p] \in ListChange
        BY <4>1, ElementOfSeq
      <4> QED
        BY <4>2, <4>3, <4>4 DEF ListChange
    <3>6. Ordered(inserts)
      BY DEF InsertsInv, Ordered
    <3>7. Ordered(updates)
      BY DEF UpdatesInv, Ordered
    <3>8. rev \o inserts \in Seq(ListChange) /\ Ordered(rev \o inserts)
      <4>1. \A i \in 1 .. Len(rev), j \in 1 .. Len(inserts) :
              incremental_consistent_order(rev[i], inserts[j])
        BY <3>4 DEF InsertsInv
      <4> HIDE DEF IInv, TypeOK, incremental_consistent_order, ord_class
      <4>2. inserts \in Seq(ListChange)
        BY DEF IInv, TypeOK
      <4> QED
        BY <3>1, <3>5, <3>6, <4>1, <4>2, ConcatOrdered, ConcatProperties
    <3>9. \A i \in 1 .. Len(rev \o inserts) :
            (rev \o inserts)[i].to_index = -1 \/ (rev \o inserts)[i].from_index = -1
      <4>1. inserts \in Seq(ListChange) /\ InsertsInv
        OBVIOUS
      <4> HIDE DEF IInv, TypeOK, incremental_consistent_order, ord_class
      <4> SUFFICES ASSUME NEW i \in 1 .. Len(rev \o inserts)
                   PROVE  \/ (rev \o inserts)[i].to_index = -1
                          \/ (rev \o inserts)[i].from_index = -1
        OBVIOUS
      <4>2. CASE i \in 1 .. Len(rev)
        <5>1. (rev \o inserts)[i] = rev[i]
          BY <3>1, <4>1, <4>2, ConcatProperties
        <5> QED
          BY <3>4, <4>2, <5>1
      <4>3. CASE i \notin 1 .. Len(rev)
        <5>1. i - Len(rev) \in 1 .. Len(inserts)
          BY <3>1, <4>1, <4>3, ConcatProperties, LenProperties
        <5>2. (rev \o inserts)[i] = inserts[i - Len(rev)]
          BY <3>1, <4>1, <4>3, <5>1, ConcatProperties, LenProperties
        <5> QED
          BY <4>1, <5>1, <5>2 DEF InsertsInv
      <4> QED
        BY <4>2, <4>3
    <3>10. Ordered((rev \o inserts) \o updates)
      <4>1. \A i \in 1 .. Len(rev \o inserts), j \in 1 .. Len(updates) :
              incremental_consistent_order((rev \o inserts)[i], updates[j])
        <5> SUFFICES ASSUME NEW i \in 1 .. Len(rev \o inserts), NEW j \in 1 .. Len(updates)
                     PROVE  incremental_consistent_order((rev \o inserts)[i], updates[j])
          OBVIOUS
        <5>1. updates[j].from_index # -1 /\ updates[j].to_index # -1
          BY DEF UpdatesInv
        <5> HIDE DEF IInv, TypeOK
        <5>2. ord_class(updates[j]) = 1
          BY <5>1
        <5>3. ord_class((rev \o inserts)[i]) \in {-1, 0}
          BY <3>9
        <5> QED
          BY <5>2, <5>3 DEF incremental_consistent_order
      <4> HIDE DEF IInv, TypeOK, incremental_consistent_order, ord_class
      <4>2. updates \in Seq(ListChange)
        BY DEF IInv, TypeOK
      <4> QED
        BY <3>7, <3>8, <4>1, <4>2, ConcatOrdered
    <3> QED
      BY <2>2, <3>10 DEF ResultInv, rev
  <2> QED
    BY <2>1, <2>2
<1> QED
  BY <1>1, Inductive, PTL

------------------------------------------------------------------------------
\* Replaying what the merge has found turns the rows of the old list it has read into
\* those of the new list it has read, but for the differences that are suppressed.

Shown(screen) ==
  /\ Leads(Rows, SubSeq(old_list, 1, old_pos), deletes, inserts, updates, new_list, screen)
  /\ screen \in Seq(Rows) /\ Len(screen) = new_pos
  /\ \A j \in 1 .. new_pos :
       screen[j] = new_list[j] \/ <<screen[j], new_list[j]>> \in Suppressed

ReplayInv == \E screen : Shown(screen)

LEMMA ReplayStart == Init => ReplayInv
<1> SUFFICES ASSUME Init PROVE ReplayInv
  OBVIOUS
<1>1. SubSeq(old_list, 1, 0) = <<>>
  BY SubSeqEmpty
<1>2. Leads(Rows, <<>>, <<>>, <<>>, <<>>, new_list, <<>>)
  BY LeadsStart
<1>3. Leads(Rows, SubSeq(old_list, 1, old_pos), deletes, inserts, updates, new_list, <<>>)
  <2>1. /\ SubSeq(old_list, 1, old_pos) = <<>>
        /\ deletes = <<>> /\ inserts = <<>> /\ updates = <<>>
    BY <1>1 DEF Init
  <2> QED BY <1>2, <2>1, Zenon
<1>4. <<>> \in Seq(Rows) /\ Len(<<>>) = new_pos /\ 1 .. new_pos = {}
  BY DEF Init
<1>5. Shown(<<>>)
  BY <1>3, <1>4, Zenon DEF Shown
<1> QED BY <1>5 DEF ReplayInv

LEMMA ReplayStep ==
  ASSUME TypeOK, ReplayInv, MergeUpdate \/ MergeSuppress \/ MergeDelete \/ MergeInsert
  PROVE  ReplayInv'
<1> DEFINE list == SubSeq(old_list, 1, old_pos)
           x == old_list[old_pos + 1]
           y == new_list[new_pos + 1]
<1>0. /\ old_list \in Seq(Rows) /\ new_list \in Seq(Rows)
      /\ old_pos \in Nat /\ new_pos \in Nat
      /\ Len(old_list) \in Nat /\ Len(new_list) \in Nat
  BY DEF TypeOK
<1>1. PICK screen : Shown(screen)
  BY DEF ReplayInv
<1>2. /\ Leads(Rows, list, deletes, inserts, updates, new_list, screen)
      /\ screen \in Seq(Rows) /\ Len(screen) = new_pos
      /\ \A j \in 1 .. new_pos :
           screen[j] = new_list[j] \/ <<screen[j], new_list[j]>> \in Suppressed
  BY <1>1 DEF Shown
<1>3. ASSUME OldLeft
      PROVE  /\ SubSeq(old_list, 1, old_pos + 1) = Append(list, x) /\ x \in Rows
             /\ list \in Seq(Rows) /\ Len(list) = old_pos
  <2>1. old_pos \in 0 .. Len(old_list) - 1
    BY <1>0, <1>3 DEF OldLeft
  <2> QED BY <1>0, <2>1, SubSeqAdd
<1>4. ASSUME NewLeft PROVE y \in Rows
  <2>1. new_pos + 1 \in 1 .. Len(new_list)
    BY <1>0, <1>4 DEF NewLeft
  <2> QED BY <1>0, <2>1, ElementOfSeq
<1>5. AB = <<x, y>>
  BY DEF AB
<1> HIDE DEF list, x, y
\* A pair: the old row comes on screen, and the update, if there is one, replaces it.
<1>6. ASSUME OldLeft, NewLeft
      PROVE  LET z == Append(screen, x)
             IN /\ Leads(Rows, Append(list, x), deletes, inserts, updates, new_list, z)
                /\ z \in Seq(Rows) /\ Len(z) = new_pos + 1 /\ z[new_pos + 1] = x
                /\ \A j \in 1 .. new_pos : z[j] = screen[j]
  BY <1>2, <1>3, <1>6, LeadsPair, AppendProperties
<1>7. CASE MergeUpdate
  <2> DEFINE z == Append(screen, x)
             w == ReplaceAt(z, new_pos + 1, y)
             c == Update(old_pos, new_pos)
  <2>1. /\ OldLeft /\ NewLeft /\ updates' = Append(updates, c)
        /\ old_pos' = old_pos + 1 /\ new_pos' = new_pos + 1
        /\ UNCHANGED <<old_list, new_list, deletes, inserts>>
    BY <1>7 DEF MergeUpdate, args
  <2>2. /\ Leads(Rows, Append(list, x), deletes, inserts, updates, new_list, z)
        /\ z \in Seq(Rows) /\ Len(z) = new_pos + 1 /\ z[new_pos + 1] = x
        /\ \A j \in 1 .. new_pos : z[j] = screen[j]
    BY <1>6, <2>1
  <2>3. y \in Rows
    BY <1>4, <2>1
  <2> HIDE DEF z
  <2>4. Leads(Rows, Append(list, x), deletes, inserts, Append(updates, c), new_list, w)
    <3>1. new_pos \in 0 .. Len(z) - 1 /\ new_list[new_pos + 1] \in Rows
      BY <1>0, <2>2, <2>3 DEF y
    <3>2. Leads(Rows, Append(list, x), deletes, inserts, Append(updates, Update(old_pos, new_pos)),
                new_list, ReplaceAt(z, new_pos + 1, new_list[new_pos + 1]))
      BY <1>0, <2>2, <3>1, LeadsUpdate
    <3> QED BY <3>2 DEF y
  <2>5. /\ w \in Seq(Rows) /\ Len(w) = new_pos + 1
        /\ \A j \in 1 .. new_pos + 1 : w[j] = IF j = new_pos + 1 THEN y ELSE z[j]
    <3> DEFINE p == new_pos + 1
    <3>1. p \in 1 .. Len(z)
      BY <1>0, <2>2
    <3> HIDE DEF p, w
    <3>2. /\ ReplaceAt(z, p, y) \in Seq(Rows) /\ Len(ReplaceAt(z, p, y)) = Len(z)
          /\ \A j \in 1 .. Len(z) : ReplaceAt(z, p, y)[j] = IF j = p THEN y ELSE z[j]
      <4>1. z \in Seq(Rows)
        BY <2>2
      <4> QED BY <2>3, <3>1, <4>1, ReplaceAtIs
    <3> QED BY <2>2, <3>2 DEF p, w
  <2> HIDE DEF w, c
  <2>6. ASSUME NEW j \in 1 .. new_pos + 1
        PROVE  w[j] = new_list[j] \/ <<w[j], new_list[j]>> \in Suppressed
    <3>1. CASE j = new_pos + 1
      BY <1>0, <2>5, <3>1 DEF y
    <3>2. CASE j \in 1 .. new_pos
      <4>1. w[j] = screen[j]
        BY <1>0, <2>2, <2>5, <3>2
      <4> QED BY <1>2, <3>2, <4>1
    <3> QED BY <1>0, <3>1, <3>2
  <2>7. ASSUME NEW s, s = w PROVE Shown(s)'
    BY <1>3, <2>1, <2>4, <2>5, <2>6, <2>7 DEF Shown
  <2> QED BY <2>7 DEF ReplayInv
<1>8. CASE MergeSuppress
  <2> DEFINE z == Append(screen, x)
  <2>1. /\ OldLeft /\ NewLeft /\ <<x, y>> \in Suppressed
        /\ old_pos' = old_pos + 1 /\ new_pos' = new_pos + 1
        /\ UNCHANGED <<old_list, new_list, deletes, inserts, updates>>
    BY <1>5, <1>8 DEF MergeSuppress, args
  <2>2. /\ Leads(Rows, Append(list, x), deletes, inserts, updates, new_list, z)
        /\ z \in Seq(Rows) /\ Len(z) = new_pos + 1 /\ z[new_pos + 1] = x
        /\ \A j \in 1 .. new_pos : z[j] = screen[j]
    BY <1>6, <2>1
  <2> HIDE DEF z
  <2>3. ASSUME NEW j \in 1 .. new_pos + 1
        PROVE  z[j] = new_list[j] \/ <<z[j], new_list[j]>> \in Suppressed
    <3>1. CASE j = new_pos + 1
      BY <2>1, <2>2, <3>1 DEF y
    <3>2. CASE j \in 1 .. new_pos
      BY <1>2, <2>2, <3>2
    <3> QED BY <1>0, <3>1, <3>2
  <2>4. ASSUME NEW s, s = z PROVE Shown(s)'
    BY <1>3, <2>1, <2>2, <2>3, <2>4 DEF Shown
  <2> QED BY <2>4 DEF ReplayInv
<1>9. CASE MergeDelete
  <2>1. /\ OldLeft /\ deletes' = Append(deletes, Delete(old_pos)) /\ old_pos' = old_pos + 1
        /\ UNCHANGED <<old_list, new_list, new_pos, inserts, updates>>
    BY <1>9 DEF MergeDelete, args
  <2>2. Leads(Rows, Append(list, x), Append(deletes, Delete(Len(list))), inserts, updates,
              new_list, screen)
    BY <1>2, <1>3, <2>1, LeadsDelete
  <2>3. Shown(screen)'
    BY <1>2, <1>3, <2>1, <2>2 DEF Shown
  <2> QED BY <2>3 DEF ReplayInv
<1>10. CASE MergeInsert
  <2> DEFINE z == Append(screen, y)
             c == Insert(new_pos)
  <2>1. /\ NewLeft /\ inserts' = Append(inserts, c) /\ new_pos' = new_pos + 1
        /\ UNCHANGED <<old_list, new_list, old_pos, deletes, updates>>
    BY <1>10 DEF MergeInsert, args
  <2>2. y \in Rows
    BY <1>4, <2>1
  <2>3. Leads(Rows, list, deletes, Append(inserts, c), updates, new_list, z)
    <3>1. new_list[Len(screen) + 1] = y
      BY <1>2 DEF y
    <3>2. Leads(Rows, list, deletes, Append(inserts, Insert(Len(screen))), updates, new_list,
                Append(screen, new_list[Len(screen) + 1]))
      BY <1>2, <2>2, <3>1, LeadsInsert
    <3> QED BY <1>2, <3>1, <3>2
  <2>4. /\ z \in Seq(Rows) /\ Len(z) = new_pos + 1 /\ z[new_pos + 1] = y
        /\ \A j \in 1 .. new_pos : z[j] = screen[j]
    BY <1>2, <2>2, AppendProperties
  <2> HIDE DEF z, c
  <2>5. ASSUME NEW j \in 1 .. new_pos + 1
        PROVE  z[j] = new_list[j] \/ <<z[j], new_list[j]>> \in Suppressed
    <3>1. CASE j = new_pos + 1
      BY <2>4, <3>1 DEF y
    <3>2. CASE j \in 1 .. new_pos
      BY <1>2, <2>4, <3>2
    <3> QED BY <1>0, <3>1, <3>2
  <2>6. ASSUME NEW s, s = z PROVE Shown(s)'
    BY <2>1, <2>3, <2>4, <2>5, <2>6 DEF Shown, list
  <2> QED BY <2>6 DEF ReplayInv
<1> QED
  BY <1>7, <1>8, <1>9, <1>10

LEMMA ReplayAlways == Spec => []ReplayInv
<1>1. TypeOK /\ ReplayInv /\ [Next]_vars => ReplayInv'
  <2> SUFFICES ASSUME TypeOK, ReplayInv, [Next]_vars PROVE ReplayInv'
    OBVIOUS
  <2>1. CASE MergeUpdate \/ MergeSuppress \/ MergeDelete \/ MergeInsert
    BY <2>1, ReplayStep
  <2>2. CASE UNCHANGED <<old_list, new_list, old_pos, new_pos, deletes, inserts, updates>>
    BY <2>2 DEF ReplayInv, Shown
  <2> QED
    BY <2>1, <2>2 DEF Next, Check, Assemble, Returned, vars, args
<1> QED
  BY <1>1, ReplayStart, TypeCorrectness, PTL DEF Spec

\* The changes that calculate_diff returns, applied to the old list one by one, give the
\* new list, but for the rows whose update the caller asked to suppress.
THEOREM ReplayCorrect == Spec => []ReplayGivesNewList
<1>1. IInv /\ ReplayInv => ReplayGivesNewList
  <2> SUFFICES ASSUME IInv, ReplayInv, pc = "done"
               PROVE  LET screen == Replay(old_list, changes, new_list)
                      IN /\ Len(screen) = Len(new_list)
                         /\ \A j \in 1 .. Len(new_list) :
                              \/ screen[j] = new_list[j]
                              \/ <<screen[j], new_list[j]>> \in Suppressed
    BY DEF ReplayGivesNewList
  <2>1. /\ old_pos = Len(old_list) /\ new_pos = Len(new_list)
        /\ changes = Reverse(deletes) \o inserts \o updates
    BY DEF IInv, ResultInv
  <2>2. PICK screen : Shown(screen)
    BY DEF ReplayInv
  <2>3. SubSeq(old_list, 1, old_pos) = old_list
    BY <2>1, SubSeqFull DEF IInv, TypeOK
  <2>4. /\ Leads(Rows, old_list, deletes, inserts, updates, new_list, screen)
        /\ Len(screen) = Len(new_list)
        /\ \A j \in 1 .. Len(new_list) :
             screen[j] = new_list[j] \/ <<screen[j], new_list[j]>> \in Suppressed
    BY <2>1, <2>2, <2>3 DEF Shown
  <2>5. Replay(old_list, changes, new_list) = screen
    BY <2>1, <2>4, LeadsReplay
  <2> QED BY <2>4, <2>5
<1> QED
  BY <1>1, Inductive, ReplayAlways, PTL
------------------------------------------------------------------------------
\* When the order identifies the entity, a row that has been read has met every row of
\* the other list that it matches.

ExactInv ==
  SortedByEntity =>
    /\ deletes = InOrder(GoneUpTo(old_list, new_list, old_pos, new_pos), DeleteOf)
    /\ inserts = InOrder(CameUpTo(old_list, new_list, old_pos, new_pos), InsertOf)
    /\ updates = InOrder(DifferUpTo(old_list, new_list, old_pos, new_pos),
                         UpdateOf(old_list, new_list))
    /\ \A i \in 0 .. old_pos - 1, j \in new_pos .. Len(new_list) - 1 :
         ~Match(old_list, new_list, i, j)
    /\ \A i \in old_pos .. Len(old_list) - 1, j \in 0 .. new_pos - 1 :
         ~Match(old_list, new_list, i, j)

\* What SortedByEntity says of two rows: i and j count from 0.
LEMMA EntityOrder ==
  ASSUME old_list \in Seq(Rows), new_list \in Seq(Rows), SortedByEntity
  PROVE  /\ \A i \in 0 .. Len(old_list) - 1, j \in 0 .. Len(new_list) - 1 :
              LET x == old_list[i + 1]
                  y == new_list[j + 1]
              IN /\ x \in Rows /\ y \in Rows
                 /\ Match(old_list, new_list, i, j) <=>
                      <<x, y>> \notin LessThan /\ <<y, x>> \notin LessThan
                 /\ Match(old_list, new_list, i, j) <=> <<x, y>> \in SameEntity
                 /\ Match(old_list, new_list, i, j) => (<<x, y>> \in Suppressed <=> x = y)
         /\ \A i, k \in 0 .. Len(old_list) - 1 :
              i < k => <<old_list[i + 1], old_list[k + 1]>> \in LessThan
         /\ \A j, k \in 0 .. Len(new_list) - 1 :
              j < k => <<new_list[j + 1], new_list[k + 1]>> \in LessThan
<1> DEFINE rows == old_list \o new_list
           a == Len(old_list)
           b == Len(new_list)
<1>1. a \in Nat /\ b \in Nat
  OBVIOUS
<1>2. /\ rows \in Seq(Rows) /\ Len(rows) = a + b
      /\ \A k \in 1 .. a + b : rows[k] = IF k <= a THEN old_list[k] ELSE new_list[k - a]
  BY ConcatProperties
<1>3. \A k, l \in 1 .. Len(rows) :
        LET p == <<rows[k], rows[l]>>
        IN /\ p \in SameEntity <=> p \notin LessThan /\ <<p[2], p[1]>> \notin LessThan
           /\ p \in SameEntity <=> p[1].id = p[2].id
           /\ p \in SameEntity => (p \in Suppressed <=> p[1] = p[2])
  BY DEF SortedByEntity
<1>4. ASSUME NEW i \in 1 .. a, NEW k \in 1 .. a, i < k
      PROVE  <<old_list[i], old_list[k]>> \in LessThan
  BY <1>4 DEF SortedByEntity
<1>5. ASSUME NEW i \in 1 .. b, NEW k \in 1 .. b, i < k
      PROVE  <<new_list[i], new_list[k]>> \in LessThan
  BY <1>5 DEF SortedByEntity
<1> HIDE DEF rows
<1>6. ASSUME NEW i \in 0 .. a - 1, NEW j \in 0 .. b - 1
      PROVE  LET x == old_list[i + 1]
                 y == new_list[j + 1]
             IN /\ x \in Rows /\ y \in Rows
                /\ Match(old_list, new_list, i, j) <=>
                     <<x, y>> \notin LessThan /\ <<y, x>> \notin LessThan
                /\ Match(old_list, new_list, i, j) <=> <<x, y>> \in SameEntity
                /\ Match(old_list, new_list, i, j) => (<<x, y>> \in Suppressed <=> x = y)
  <2> DEFINE x == old_list[i + 1]
             y == new_list[j + 1]
             k == i + 1
             l == a + (j + 1)
  <2>1. k \in 1 .. a /\ j + 1 \in 1 .. b /\ k \in 1 .. a + b /\ l \in 1 .. a + b
        /\ ~(l <= a) /\ l - a = j + 1 /\ k <= a
    BY <1>1
  <2>2. x \in Rows /\ y \in Rows
    BY <2>1, ElementOfSeq
  <2>3. Match(old_list, new_list, i, j) <=> x.id = y.id
    BY DEF Match
  <2> HIDE DEF a, b, k, l
  <2>4. rows[k] = x /\ rows[l] = y
    <3>1. rows[k] = old_list[k] /\ rows[l] = new_list[l - a]
      BY <1>2, <2>1
    <3> QED BY <2>1, <3>1 DEF k
  <2>5. LET p == <<rows[k], rows[l]>>
        IN /\ p \in SameEntity <=> p \notin LessThan /\ <<p[2], p[1]>> \notin LessThan
           /\ p \in SameEntity <=> p[1].id = p[2].id
           /\ p \in SameEntity => (p \in Suppressed <=> p[1] = p[2])
    BY <1>2, <1>3, <2>1
  <2> HIDE DEF x, y
  <2>6. /\ <<x, y>> \in SameEntity <=> <<x, y>> \notin LessThan /\ <<y, x>> \notin LessThan
        /\ <<x, y>> \in SameEntity <=> x.id = y.id
        /\ <<x, y>> \in SameEntity => (<<x, y>> \in Suppressed <=> x = y)
    BY <2>4, <2>5
  <2>7. /\ x \in Rows /\ y \in Rows
        /\ Match(old_list, new_list, i, j) <=>
             <<x, y>> \notin LessThan /\ <<y, x>> \notin LessThan
        /\ Match(old_list, new_list, i, j) <=> <<x, y>> \in SameEntity
        /\ Match(old_list, new_list, i, j) => (<<x, y>> \in Suppressed <=> x = y)
    BY <2>2, <2>3, <2>6
  <2> QED BY <2>7 DEF x, y
<1>7. ASSUME NEW i \in 0 .. a - 1, NEW k \in 0 .. a - 1, i < k
      PROVE  <<old_list[i + 1], old_list[k + 1]>> \in LessThan
  <2>1. i + 1 \in 1 .. a /\ k + 1 \in 1 .. a /\ i + 1 < k + 1
    BY <1>1, <1>7
  <2> QED BY <1>4, <2>1
<1>8. ASSUME NEW j \in 0 .. b - 1, NEW k \in 0 .. b - 1, j < k
      PROVE  <<new_list[j + 1], new_list[k + 1]>> \in LessThan
  <2>1. j + 1 \in 1 .. b /\ k + 1 \in 1 .. b /\ j + 1 < k + 1
    BY <1>1, <1>8
  <2> QED BY <1>5, <2>1
<1> QED
  BY <1>6, <1>7, <1>8

\* The rows under consideration match none of those beyond the other one, when they
\* match each other; and the lower of two that do not match none that are left.
LEMMA NoMatchAhead ==
  ASSUME TypeOK, SortedByEntity
  PROVE  /\ OldLeft /\ NewLeft /\ Match(old_list, new_list, old_pos, new_pos) =>
              /\ \A j \in new_pos + 1 .. Len(new_list) - 1 : ~Match(old_list, new_list, old_pos, j)
              /\ \A i \in old_pos + 1 .. Len(old_list) - 1 : ~Match(old_list, new_list, i, new_pos)
         /\ OldLeft /\ (NewLeft => AB \in LessThan) =>
              \A j \in new_pos .. Len(new_list) - 1 : ~Match(old_list, new_list, old_pos, j)
         /\ NewLeft /\ (OldLeft => BA \in LessThan) =>
              \A i \in old_pos .. Len(old_list) - 1 : ~Match(old_list, new_list, i, new_pos)
<1> DEFINE x(i) == old_list[i + 1]
           y(j) == new_list[j + 1]
           M(i, j) == Match(old_list, new_list, i, j)
           I == 0 .. Len(old_list) - 1
           J == 0 .. Len(new_list) - 1
<1>1. /\ old_pos \in Nat /\ new_pos \in Nat
      /\ Len(old_list) \in Nat /\ Len(new_list) \in Nat
      /\ old_list \in Seq(Rows) /\ new_list \in Seq(Rows)
  BY DEF TypeOK
<1>2. /\ \A i \in I, j \in J :
           /\ x(i) \in Rows /\ y(j) \in Rows
           /\ M(i, j) <=> <<x(i), y(j)>> \notin LessThan /\ <<y(j), x(i)>> \notin LessThan
      /\ \A i, k \in I : i < k => <<x(i), x(k)>> \in LessThan
      /\ \A j, k \in J : j < k => <<y(j), y(k)>> \in LessThan
  BY <1>1, EntityOrder
<1>3. AB = <<x(old_pos), y(new_pos)>> /\ BA = <<y(new_pos), x(old_pos)>>
  BY DEF AB, BA
<1>4. \A c, d, e \in Rows :
        /\ <<c, d>> \in LessThan /\ <<d, e>> \in LessThan => <<c, e>> \in LessThan
        /\ <<c, e>> \in LessThan => <<c, d>> \in LessThan \/ <<d, e>> \in LessThan
  BY QueryDiffAssumption
<1>5. /\ OldLeft <=> old_pos \in I
      /\ NewLeft <=> new_pos \in J
      /\ \A j \in new_pos .. Len(new_list) - 1 :
           j \in J /\ NewLeft /\ (j = new_pos \/ new_pos < j)
      /\ \A i \in old_pos .. Len(old_list) - 1 :
           i \in I /\ OldLeft /\ (i = old_pos \/ old_pos < i)
      /\ \A j \in new_pos + 1 .. Len(new_list) - 1 : j \in J /\ new_pos < j
      /\ \A i \in old_pos + 1 .. Len(old_list) - 1 : i \in I /\ old_pos < i
  BY <1>1 DEF OldLeft, NewLeft
<1> HIDE DEF x, y, M, I, J
<1>6. ASSUME OldLeft, NewLeft, M(old_pos, new_pos)
      PROVE  /\ \A j \in new_pos + 1 .. Len(new_list) - 1 : ~M(old_pos, j)
             /\ \A i \in old_pos + 1 .. Len(old_list) - 1 : ~M(i, new_pos)
  <2>1. ASSUME NEW j \in new_pos + 1 .. Len(new_list) - 1 PROVE ~M(old_pos, j)
    <3>1. j \in J /\ old_pos \in I /\ new_pos \in J /\ <<y(new_pos), y(j)>> \in LessThan
      BY <1>2, <1>5, <1>6
    <3>2. <<y(new_pos), x(old_pos)>> \notin LessThan
      BY <1>2, <1>6, <3>1
    <3>3. <<x(old_pos), y(j)>> \in LessThan
      BY <1>2, <1>4, <3>1, <3>2
    <3> QED BY <1>2, <3>1, <3>3
  <2>2. ASSUME NEW i \in old_pos + 1 .. Len(old_list) - 1 PROVE ~M(i, new_pos)
    <3>1. i \in I /\ old_pos \in I /\ new_pos \in J /\ <<x(old_pos), x(i)>> \in LessThan
      BY <1>2, <1>5, <1>6
    <3>2. <<x(old_pos), y(new_pos)>> \notin LessThan
      BY <1>2, <1>6, <3>1
    <3>3. <<y(new_pos), x(i)>> \in LessThan
      BY <1>2, <1>4, <3>1, <3>2
    <3> QED BY <1>2, <3>1, <3>3
  <2> QED BY <2>1, <2>2
<1>7. ASSUME OldLeft, NewLeft => AB \in LessThan,
             NEW j \in new_pos .. Len(new_list) - 1
      PROVE  ~M(old_pos, j)
  <2>1. old_pos \in I /\ new_pos \in J /\ j \in J /\ (j = new_pos \/ new_pos < j)
    BY <1>5, <1>7
  <2>2. <<x(old_pos), y(new_pos)>> \in LessThan
    BY <1>3, <1>5, <1>7
  <2>3. <<x(old_pos), y(j)>> \in LessThan
    <3>1. CASE j = new_pos
      BY <2>2, <3>1
    <3>2. CASE new_pos < j
      BY <1>2, <1>4, <2>1, <2>2, <3>2
    <3> QED BY <2>1, <3>1, <3>2
  <2> QED BY <1>2, <2>1, <2>3
<1>8. ASSUME NewLeft, OldLeft => BA \in LessThan,
             NEW i \in old_pos .. Len(old_list) - 1
      PROVE  ~M(i, new_pos)
  <2>1. old_pos \in I /\ new_pos \in J /\ i \in I /\ (i = old_pos \/ old_pos < i)
    BY <1>5, <1>8
  <2>2. <<y(new_pos), x(old_pos)>> \in LessThan
    BY <1>3, <1>5, <1>8
  <2>3. <<y(new_pos), x(i)>> \in LessThan
    <3>1. CASE i = old_pos
      BY <2>2, <3>1
    <3>2. CASE old_pos < i
      BY <1>2, <1>4, <2>1, <2>2, <3>2
    <3> QED BY <2>1, <3>1, <3>2
  <2> QED BY <1>2, <2>1, <2>3
<1> QED
  BY <1>6, <1>7, <1>8 DEF M
LEMMA ExactStart == Init => ExactInv
<1> SUFFICES ASSUME Init, SortedByEntity
             PROVE  /\ deletes = InOrder(GoneUpTo(old_list, new_list, 0, 0), DeleteOf)
                    /\ inserts = InOrder(CameUpTo(old_list, new_list, 0, 0), InsertOf)
                    /\ updates = InOrder(DifferUpTo(old_list, new_list, 0, 0),
                                         UpdateOf(old_list, new_list))
                    /\ 0 .. 0 - 1 = {}
  BY DEF Init, ExactInv
<1>1. /\ GoneUpTo(old_list, new_list, 0, 0) = {} /\ CameUpTo(old_list, new_list, 0, 0) = {}
      /\ DifferUpTo(old_list, new_list, 0, 0) = {}
  BY DEF GoneUpTo, CameUpTo, DifferUpTo
<1>2. deletes = <<>> /\ inserts = <<>> /\ updates = <<>> /\ 0 .. 0 - 1 = {}
  BY DEF Init
<1> QED BY <1>1, <1>2, InOrderEmpty, Zenon

\* The loop writes neither list.
LEMMA SameLists ==
  ASSUME UNCHANGED <<old_list, new_list>> PROVE SortedByEntity' <=> SortedByEntity
BY DEF SortedByEntity

LEMMA ExactStep ==
  ASSUME TypeOK, ExactInv, MergeUpdate \/ MergeSuppress \/ MergeDelete \/ MergeInsert
  PROVE  ExactInv'
<1> DEFINE a == old_pos
           b == new_pos
           M(i, j) == Match(old_list, new_list, i, j)
           GoneTo(m, n) == GoneUpTo(old_list, new_list, m, n)
           CameTo(m, n) == CameUpTo(old_list, new_list, m, n)
           DifferTo(m, n) == DifferUpTo(old_list, new_list, m, n)
           F == UpdateOf(old_list, new_list)
<1>0. UNCHANGED <<old_list, new_list>>
  BY DEF MergeUpdate, MergeSuppress, MergeDelete, MergeInsert, args
<1> SUFFICES ASSUME SortedByEntity
             PROVE  /\ deletes' = InOrder(GoneTo(old_pos', new_pos'), DeleteOf)
                    /\ inserts' = InOrder(CameTo(old_pos', new_pos'), InsertOf)
                    /\ updates' = InOrder(DifferTo(old_pos', new_pos'), F)
                    /\ \A i \in 0 .. old_pos' - 1, j \in new_pos' .. Len(new_list) - 1 : ~M(i, j)
                    /\ \A i \in old_pos' .. Len(old_list) - 1, j \in 0 .. new_pos' - 1 : ~M(i, j)
  <2> HIDE DEF a, b, M, GoneTo, CameTo, DifferTo, F
  <2>1. SortedByEntity' <=> SortedByEntity
    BY <1>0, SameLists
  <2> QED BY <1>0, <2>1 DEF ExactInv, M, GoneTo, CameTo, DifferTo, F
<1>1. /\ a \in Nat /\ b \in Nat /\ a <= Len(old_list) /\ b <= Len(new_list)
      /\ Len(old_list) \in Nat /\ Len(new_list) \in Nat
      /\ old_list \in Seq(Rows) /\ new_list \in Seq(Rows)
  BY DEF TypeOK
<1>2. /\ deletes = InOrder(GoneTo(a, b), DeleteOf)
      /\ inserts = InOrder(CameTo(a, b), InsertOf)
      /\ updates = InOrder(DifferTo(a, b), F)
      /\ \A i \in 0 .. a - 1, j \in b .. Len(new_list) - 1 : ~M(i, j)
      /\ \A i \in a .. Len(old_list) - 1, j \in 0 .. b - 1 : ~M(i, j)
  BY DEF ExactInv
<1>3. (OldLeft => a < Len(old_list)) /\ (NewLeft => b < Len(new_list))
  BY DEF OldLeft, NewLeft
<1>4. OldLeft => \A j \in 0 .. b - 1 : ~M(a, j)
  BY <1>1, <1>2, <1>3
<1>5. NewLeft => \A i \in 0 .. a - 1 : ~M(i, b)
  BY <1>1, <1>2, <1>3
\* A pair of rows, updated or suppressed.
<1>6. ASSUME MergeUpdate \/ MergeSuppress
      PROVE  /\ OldLeft /\ NewLeft /\ old_pos' = a + 1 /\ new_pos' = b + 1
             /\ M(a, b) /\ (AB \in Suppressed <=> old_list[a + 1] = new_list[b + 1])
             /\ UNCHANGED <<deletes, inserts>>
  <2>1. /\ OldLeft /\ NewLeft /\ old_pos' = a + 1 /\ new_pos' = b + 1 /\ Paired
        /\ UNCHANGED <<deletes, inserts>>
    BY <1>6 DEF MergeUpdate, MergeSuppress
  <2>2. a \in 0 .. Len(old_list) - 1 /\ b \in 0 .. Len(new_list) - 1
    BY <1>1, <1>3, <2>1
  <2>3. LET x == old_list[a + 1]
            y == new_list[b + 1]
        IN /\ M(a, b) <=> <<x, y>> \notin LessThan /\ <<y, x>> \notin LessThan
           /\ M(a, b) <=> <<x, y>> \in SameEntity
           /\ M(a, b) => (<<x, y>> \in Suppressed <=> x = y)
    BY <1>1, <2>2, EntityOrder
  <2> QED BY <2>1, <2>3 DEF Paired, AB, BA
<1>7. ASSUME MergeUpdate \/ MergeSuppress
      PROVE  /\ \A i \in 0 .. old_pos' - 1, j \in new_pos' .. Len(new_list) - 1 : ~M(i, j)
             /\ \A i \in old_pos' .. Len(old_list) - 1, j \in 0 .. new_pos' - 1 : ~M(i, j)
  <2>1. /\ \A j \in b + 1 .. Len(new_list) - 1 : ~M(a, j)
        /\ \A i \in a + 1 .. Len(old_list) - 1 : ~M(i, b)
    BY <1>6, <1>7, NoMatchAhead
  <2> HIDE DEF M
  <2>2. ASSUME NEW i \in 0 .. a, NEW j \in b + 1 .. Len(new_list) - 1 PROVE ~M(i, j)
    <3>1. CASE i = a
      BY <2>1, <3>1
    <3>2. CASE i \in 0 .. a - 1
      BY <1>1, <1>2, <3>2
    <3> QED BY <1>1, <3>1, <3>2
  <2>3. ASSUME NEW i \in a + 1 .. Len(old_list) - 1, NEW j \in 0 .. b PROVE ~M(i, j)
    <3>1. CASE j = b
      BY <2>1, <3>1
    <3>2. CASE j \in 0 .. b - 1
      BY <1>1, <1>2, <3>2
    <3> QED BY <1>1, <3>1, <3>2
  <2>4. old_pos' - 1 = a /\ new_pos' - 1 = b /\ old_pos' = a + 1 /\ new_pos' = b + 1
    BY <1>1, <1>6, <1>7
  <2> QED BY <2>2, <2>3, <2>4
<1>8. ASSUME MergeUpdate \/ MergeSuppress
      PROVE  /\ GoneTo(a + 1, b + 1) = GoneTo(a, b) /\ CameTo(a + 1, b + 1) = CameTo(a, b)
             /\ old_list[a + 1] = new_list[b + 1] => DifferTo(a + 1, b + 1) = DifferTo(a, b)
             /\ old_list[a + 1] # new_list[b + 1] =>
                  DifferTo(a + 1, b + 1) = DifferTo(a, b) \cup {b}
  <2>1. M(a, b) /\ (\A j \in 0 .. b - 1 : ~M(a, j)) /\ (\A i \in 0 .. a - 1 : ~M(i, b))
    BY <1>4, <1>5, <1>6, <1>8
  <2> HIDE DEF a, b
  <2>2. /\ GoneTo(a + 1, b + 1) = GoneTo(a, b) /\ CameTo(a + 1, b + 1) = CameTo(a, b)
        /\ old_list[a + 1] = new_list[b + 1] =>
             \A j : j \in DifferTo(a + 1, b + 1) <=> j \in DifferTo(a, b)
        /\ old_list[a + 1] # new_list[b + 1] =>
             \A j : j \in DifferTo(a + 1, b + 1) <=> j \in DifferTo(a, b) \/ j = b
    BY <1>1, <2>1, StepPair
  <2> HIDE DEF GoneTo, CameTo, DifferTo
  <2> QED BY <2>2
<1>9. CASE MergeSuppress
  <2>1. updates' = updates /\ AB \in Suppressed
    BY <1>9 DEF MergeSuppress
  <2> HIDE DEF GoneTo, CameTo, DifferTo, F, M, a, b
  <2> QED BY <1>2, <1>6, <1>7, <1>8, <1>9, <2>1
<1>10. CASE MergeUpdate
  <2>1. updates' = Append(updates, Update(a, b)) /\ AB \notin Suppressed
    BY <1>10 DEF MergeUpdate
  <2>2. a \in 0 .. Len(old_list) /\ b \in 0 .. Len(new_list) /\ b < Len(new_list)
        /\ a \in 0 .. Len(old_list) - 1 /\ b \in 0 .. Len(new_list) - 1
    BY <1>1, <1>3, <1>6, <1>10
  <2>3. OldAt(old_list, new_list, b) = {a}
    <3>1. ASSUME NEW i \in 0 .. Len(old_list) - 1, M(i, b) PROVE i = a
      <4>1. ~(i \in 0 .. a - 1)
        BY <1>5, <1>6, <1>10, <3>1
      <4>2. ~(i \in a + 1 .. Len(old_list) - 1)
        BY <1>6, <1>10, <3>1, NoMatchAhead
      <4> QED BY <1>1, <4>1, <4>2
    <3>2. M(a, b)
      BY <1>6, <1>10
    <3> QED BY <2>2, <3>1, <3>2 DEF OldAt, Match
  <2>4. F[b] = Update(a, b)
    <3>1. (CHOOSE i \in {a} : TRUE) = a
      OBVIOUS
    <3> QED BY <2>2, <2>3, <3>1 DEF UpdateOf
  <2>5. InOrder(DifferTo(a, b) \cup {b}, F) = Append(InOrder(DifferTo(a, b), F), F[b])
    <3> HIDE DEF a, b
    <3> QED BY <1>1, <2>2, <2>3, UpdatesInOrder
  <2> HIDE DEF GoneTo, CameTo, DifferTo, F, M, a, b
  <2>6. /\ old_pos' = a + 1 /\ new_pos' = b + 1 /\ UNCHANGED <<deletes, inserts>>
        /\ GoneTo(a + 1, b + 1) = GoneTo(a, b) /\ CameTo(a + 1, b + 1) = CameTo(a, b)
        /\ DifferTo(a + 1, b + 1) = DifferTo(a, b) \cup {b}
    BY <1>6, <1>8, <1>10, <2>1
  <2> QED BY <1>2, <1>7, <1>10, <2>1, <2>4, <2>5, <2>6
<1>11. CASE MergeDelete
  <2>1. /\ OldLeft /\ (NewLeft => AB \in LessThan)
        /\ deletes' = Append(deletes, Delete(a)) /\ old_pos' = a + 1 /\ new_pos' = b
        /\ UNCHANGED <<inserts, updates>>
    BY <1>11 DEF MergeDelete
  <2>2. /\ \A j \in b .. Len(new_list) - 1 : ~M(a, j)
        /\ \A j \in 0 .. b - 1 : ~M(a, j)
    BY <1>4, <2>1, NoMatchAhead
  <2>3. /\ GoneTo(a + 1, b) = GoneTo(a, b) \cup {a} /\ CameTo(a + 1, b) = CameTo(a, b)
        /\ DifferTo(a + 1, b) = DifferTo(a, b)
    <3> HIDE DEF a, b
    <3> QED BY <1>1, <2>2, StepOld
  <2>4. InOrder(GoneTo(a, b) \cup {a}, DeleteOf) = Append(InOrder(GoneTo(a, b), DeleteOf), Delete(a))
    <3>1. GoneTo(a, b) \in SUBSET (0 .. a - 1)
      BY DEF GoneUpTo
    <3> HIDE DEF GoneTo, a, b
    <3> QED BY <1>1, <3>1, DeletesInOrder
  <2>5. \A i \in 0 .. (a + 1) - 1, j \in b .. Len(new_list) - 1 : ~M(i, j)
    <3> HIDE DEF M
    <3>1. \A i \in 0 .. (a + 1) - 1 : i = a \/ i \in 0 .. a - 1
      BY <1>1
    <3> QED BY <1>2, <2>2, <3>1
  <2>6. \A i \in a + 1 .. Len(old_list) - 1, j \in 0 .. b - 1 : ~M(i, j)
    <3> HIDE DEF M
    <3>1. \A i \in a + 1 .. Len(old_list) - 1 : i \in a .. Len(old_list) - 1
      BY <1>1
    <3> QED BY <1>2, <3>1
  <2> HIDE DEF GoneTo, CameTo, DifferTo, F, M, a, b
  <2> QED BY <1>2, <2>1, <2>3, <2>4, <2>5, <2>6
<1>12. CASE MergeInsert
  <2>1. /\ NewLeft /\ (OldLeft => BA \in LessThan)
        /\ inserts' = Append(inserts, Insert(b)) /\ new_pos' = b + 1 /\ old_pos' = a
        /\ UNCHANGED <<deletes, updates>>
    BY <1>12 DEF MergeInsert
  <2>2. /\ \A i \in a .. Len(old_list) - 1 : ~M(i, b)
        /\ \A i \in 0 .. a - 1 : ~M(i, b)
    BY <1>5, <2>1, NoMatchAhead
  <2>3. /\ GoneTo(a, b + 1) = GoneTo(a, b) /\ CameTo(a, b + 1) = CameTo(a, b) \cup {b}
        /\ DifferTo(a, b + 1) = DifferTo(a, b)
    <3>1. \A i \in 0 .. a - 1 : ~M(i, b)
      BY <2>2
    <3> HIDE DEF a, b
    <3>2. /\ GoneTo(a, b + 1) = GoneTo(a, b) /\ DifferTo(a, b + 1) = DifferTo(a, b)
      BY <1>1, <3>1, StepNew
    <3>3. CameTo(a, b + 1) = CameTo(a, b) \cup {b}
      BY <1>1, <3>1, StepNew
    <3> QED BY <3>2, <3>3
  <2>4. InOrder(CameTo(a, b) \cup {b}, InsertOf) = Append(InOrder(CameTo(a, b), InsertOf), Insert(b))
    <3>1. CameTo(a, b) \in SUBSET (0 .. b - 1)
      BY DEF CameUpTo
    <3> HIDE DEF CameTo, a, b
    <3> QED BY <1>1, <3>1, InsertsInOrder
  <2>5. \A i \in a .. Len(old_list) - 1, j \in 0 .. (b + 1) - 1 : ~M(i, j)
    <3> HIDE DEF M
    <3>1. \A j \in 0 .. (b + 1) - 1 : j = b \/ j \in 0 .. b - 1
      BY <1>1
    <3> QED BY <1>2, <2>2, <3>1
  <2>6. \A i \in 0 .. a - 1, j \in b + 1 .. Len(new_list) - 1 : ~M(i, j)
    <3> HIDE DEF M
    <3>1. \A j \in b + 1 .. Len(new_list) - 1 : j \in b .. Len(new_list) - 1
      BY <1>1
    <3> QED BY <1>2, <3>1
  <2> HIDE DEF GoneTo, CameTo, DifferTo, F, M, a, b
  <2> QED BY <1>2, <2>1, <2>3, <2>4, <2>5, <2>6
<1> QED
  BY <1>9, <1>10, <1>11, <1>12

\* With lists sorted by a unique id, as s_list_stmt gives them, the result is exactly the
\* entities that are gone, that are new, and whose rows differ.
THEOREM ExactCorrect == Spec => []ChangesAreExact
<1>1. TypeOK /\ ExactInv /\ [Next]_vars => ExactInv'
  <2> SUFFICES ASSUME TypeOK, ExactInv, [Next]_vars PROVE ExactInv'
    OBVIOUS
  <2>1. CASE MergeUpdate \/ MergeSuppress \/ MergeDelete \/ MergeInsert
    BY <2>1, ExactStep
  <2>2. CASE UNCHANGED <<old_list, new_list, old_pos, new_pos, deletes, inserts, updates>>
    <3>1. SortedByEntity' <=> SortedByEntity
      BY <2>2, SameLists
    <3> QED BY <2>2, <3>1 DEF ExactInv
  <2> QED
    BY <2>1, <2>2 DEF Next, Check, Assemble, Returned, vars, args
<1>2. IInv /\ ExactInv => ChangesAreExact
  <2> SUFFICES ASSUME IInv, ExactInv, pc = "done", SortedByEntity
               PROVE  changes = EntityDiff(old_list, new_list)
    BY DEF ChangesAreExact
  <2>1. /\ old_pos = Len(old_list) /\ new_pos = Len(new_list)
        /\ changes = Reverse(deletes) \o inserts \o updates
        /\ old_list \in Seq(Rows) /\ new_list \in Seq(Rows)
    BY DEF IInv, ResultInv, TypeOK
  <2> QED BY <2>1, EntityDiffIs DEF ExactInv
<1> QED
  BY <1>1, <1>2, ExactStart, Inductive, TypeCorrectness, PTL DEF Spec
==============================================================================
