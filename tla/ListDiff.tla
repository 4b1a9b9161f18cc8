------------------------------ MODULE ListDiff ------------------------------
(***************************************************************************)
(* Changes between two lists of rows (ListChange, src/sqlite_query/         *)
(* query_diff.hpp) and what an observer makes of them that applies one      *)
(* after the other, as query_diff.hpp says it may.  (The example for iOS    *)
(* hands them to its table in one batch, the one for Android ignores them.) *)
(*                                                                          *)
(* Positions are the code's: they count from 0, and -1 stands for "none".   *)
(***************************************************************************)
EXTENDS Integers, Sequences, SequencesExt, Sorting

ListChange == [from_index : Nat \cup {-1}, to_index : Nat \cup {-1}]
Delete(i) == [from_index |-> i, to_index |-> -1]
Insert(j) == [from_index |-> -1, to_index |-> j]
Update(i, j) == [from_index |-> i, to_index |-> j]

\* One change applied to the list of the observer; one that is out of range is lost.
ApplyChange(list, c, new) ==
  LET to == c.to_index + 1
  IN CASE c.to_index = -1 /\ c.from_index < Len(list)
            -> RemoveAt(list, c.from_index + 1)
       [] c.from_index = -1 /\ c.to_index <= Len(list)
            -> InsertAt(list, to, new[to])
       [] c.from_index # -1 /\ c.to_index \in 0 .. Len(list) - 1
            -> ReplaceAt(list, to, new[to])
       [] OTHER -> list

Replay(list, changes, new) ==
  LET screen[k \in 0 .. Len(changes)] ==
        IF k = 0 THEN list ELSE ApplyChange(screen[k - 1], changes[k], new)
  IN screen[Len(changes)]

\* Where the entity of the row at j of the new list is in the old one.
OldAt(old, new, j) == {i \in 0 .. Len(old) - 1 : old[i + 1].id = new[j + 1].id}

Gone(old, new) ==
  {i \in 0 .. Len(old) - 1 : \A j \in 0 .. Len(new) - 1 : i \notin OldAt(old, new, j)}
Came(old, new) == {j \in 0 .. Len(new) - 1 : OldAt(old, new, j) = {}}
Differ(old, new) ==
  {j \in 0 .. Len(new) - 1 : \E i \in OldAt(old, new, j) : old[i + 1] # new[j + 1]}

\* What calculate_diff returns for lists sorted by a unique id (ChangesAreExact of
\* QueryDiff): deletes from the back, inserts from the front, updates of rows that differ.
EntityDiff(old, new) ==
  LET gone == Ascending(Gone(old, new))
      came == Ascending(Came(old, new))
      differ == Ascending(Differ(old, new))
  IN Reverse([k \in 1 .. Len(gone) |-> Delete(gone[k])])
       \o [k \in 1 .. Len(came) |-> Insert(came[k])]
       \o [k \in 1 .. Len(differ) |->
             Update(CHOOSE i \in OldAt(old, new, differ[k]) : TRUE, differ[k])]
=============================================================================
