----------------------------- MODULE QueryDiffMC -----------------------------
(***************************************************************************)
(* Instances of QueryDiff for TLC: rows with an entity, a sort key that may *)
(* change and may tie, and a caller that suppresses the updates of what it  *)
(* does not show.  The lists are all the sorted ones over few such rows, the *)
(* unsorted ones of two, and the lists of users: sorted by an id that is    *)
(* the entity, no id twice.                                                 *)
(***************************************************************************)
EXTENDS QueryDiff

CONSTANTS MaxLen, MaxId  \* the longest list of each kind

Row(id, key, data) == [id |-> id, key |-> key, data |-> data]

MCRows == [id : 1 .. MaxId, key : 1 .. MaxId, data : 1 .. 2]
MCSameEntity == {p \in MCRows \X MCRows : p[1].id = p[2].id}
MCLessThan == {p \in MCRows \X MCRows : p[1].key < p[2].key}
MCSuppressed ==
  {p \in MCRows \X MCRows : p[1].key = p[2].key /\ p[1].data = p[2].data}

AnyLists ==
  {list \in UNION {[1 .. n -> [id : 1 .. 2, key : 1 .. 2, data : 1 .. 2]] : n \in 0 .. MaxLen} :
     Len(list) > 2 => is_sorted(list)}

UserLists ==
  {[k \in 1 .. Len(ids) |-> Row(ids[k], ids[k], data[ids[k]])] :
     ids \in {SetToSortSeq(S, <) : S \in SUBSET (1 .. MaxId)},
     data \in [1 .. MaxId -> 1 .. 2]}

MCLists == AnyLists \cup UserLists
==============================================================================
