------------------------------ MODULE QueryDiff ------------------------------
(***************************************************************************)
(* calculate_diff (src/sqlite_query/query_diff.hpp): the merge of two       *)
(* sorted lists of rows into the deletes, inserts and updates that turn     *)
(* the first into the second, and the order they are returned in.           *)
(*                                                                          *)
(* The three function parameters are relations on rows.                     *)
(***************************************************************************)
EXTENDS ListDiff

CONSTANTS
  Rows,        \* the rows a list may hold
  Lists,       \* the lists the function is called with
  SameEntity,  \* the pairs of rows for which is_same_entity holds
  LessThan,    \* the pairs for which less_than holds
  Suppressed   \* the pairs <<old row, new row>> for which should_suppress_update holds

\* std::is_sorted is defined for a strict weak order only.
ASSUME QueryDiffAssumption ==
  /\ Lists \subseteq Seq(Rows)
  /\ \A a \in Rows : <<a, a>> \notin LessThan
  /\ \A a, b, c \in Rows :
       /\ <<a, b>> \in LessThan /\ <<b, c>> \in LessThan => <<a, c>> \in LessThan
       /\ <<a, c>> \in LessThan => <<a, b>> \in LessThan \/ <<b, c>> \in LessThan

VARIABLES
  old_list, new_list,         \* the arguments
  old_pos, new_pos,           \* how far the merge has read them
  deletes, inserts, updates,  \* the changes found, in the order they were found
  changes,                    \* the result
  pc,                         \* "check", "merge", "done" or "threw"
  kept                        \* history: the suppressed pairs of positions

args == <<old_list, new_list>>
vars == <<old_list, new_list, old_pos, new_pos, deletes, inserts, updates,
          changes, pc, kept>>

TypeOK ==
  /\ old_list \in Seq(Rows) /\ new_list \in Seq(Rows)
  /\ old_pos \in 0 .. Len(old_list) /\ new_pos \in 0 .. Len(new_list)
  /\ deletes \in Seq(ListChange) /\ inserts \in Seq(ListChange)
  /\ updates \in Seq(ListChange) /\ kept \in Seq(ListChange)
  /\ changes \in Seq(ListChange)
  /\ pc \in {"check", "merge", "done", "threw"}

Init ==
  /\ old_list \in Lists /\ new_list \in Lists
  /\ old_pos = 0 /\ new_pos = 0
  /\ deletes = <<>> /\ inserts = <<>> /\ updates = <<>> /\ kept = <<>>
  /\ changes = <<>>
  /\ pc = "check"

------------------------------------------------------------------------------

is_sorted(list) ==
  \A i \in 1 .. Len(list) - 1 : <<list[i + 1], list[i]>> \notin LessThan

Check ==
  /\ pc = "check"
  /\ pc' = IF is_sorted(old_list) /\ is_sorted(new_list) THEN "merge" ELSE "threw"
  /\ UNCHANGED <<args, old_pos, new_pos, deletes, inserts, updates, changes, kept>>

OldLeft == old_pos < Len(old_list)
NewLeft == new_pos < Len(new_list)

\* The two rows under consideration, as the relations take them.
AB == <<old_list[old_pos + 1], new_list[new_pos + 1]>>
BA == <<new_list[new_pos + 1], old_list[old_pos + 1]>>

\* Rows that are the same entity, or that the order does not tell apart, are paired.
Paired == AB \in SameEntity \/ (AB \notin LessThan /\ BA \notin LessThan)

MergeUpdate ==
  /\ pc = "merge" /\ OldLeft /\ NewLeft
  /\ Paired /\ AB \notin Suppressed
  /\ updates' = Append(updates, Update(old_pos, new_pos))
  /\ old_pos' = old_pos + 1 /\ new_pos' = new_pos + 1
  /\ UNCHANGED <<args, deletes, inserts, changes, pc, kept>>

\* Mutant of MergeSuppress: neither position is advanced.
MergeSuppressStuck ==
  /\ pc = "merge" /\ OldLeft /\ NewLeft
  /\ Paired /\ AB \in Suppressed
  /\ UNCHANGED vars

MergeSuppress ==
  /\ pc = "merge" /\ OldLeft /\ NewLeft
  /\ Paired /\ AB \in Suppressed
  /\ kept' = Append(kept, Update(old_pos, new_pos))
  /\ old_pos' = old_pos + 1 /\ new_pos' = new_pos + 1
  /\ UNCHANGED <<args, deletes, inserts, updates, changes, pc>>

\* Mutant of MergeDelete: the arguments of less_than are swapped.
MergeDeleteSwapped ==
  /\ pc = "merge" /\ OldLeft
  /\ NewLeft => AB \notin SameEntity /\ BA \in LessThan
  /\ deletes' = Append(deletes, Delete(old_pos))
  /\ old_pos' = old_pos + 1
  /\ UNCHANGED <<args, new_pos, inserts, updates, changes, pc, kept>>

\* An old row that sorts before every new row left, or that has none left to meet.
MergeDelete ==
  /\ pc = "merge" /\ OldLeft
  /\ NewLeft => AB \notin SameEntity /\ AB \in LessThan
  /\ deletes' = Append(deletes, Delete(old_pos))
  /\ old_pos' = old_pos + 1
  /\ UNCHANGED <<args, new_pos, inserts, updates, changes, pc, kept>>

MergeInsert ==
  /\ pc = "merge" /\ NewLeft
  /\ OldLeft => AB \notin SameEntity /\ AB \notin LessThan /\ BA \in LessThan
  /\ inserts' = Append(inserts, Insert(new_pos))
  /\ new_pos' = new_pos + 1
  /\ UNCHANGED <<args, old_pos, deletes, updates, changes, pc, kept>>

\* Mutants of Assemble: deletes from the front, updates before inserts, and no tails.
AssembleForward ==
  /\ pc = "merge" /\ ~OldLeft /\ ~NewLeft
  /\ changes' = deletes \o inserts \o updates
  /\ pc' = "done"
  /\ UNCHANGED <<args, old_pos, new_pos, deletes, inserts, updates, kept>>

AssembleUpdatesFirst ==
  /\ pc = "merge" /\ ~OldLeft /\ ~NewLeft
  /\ changes' = Reverse(deletes) \o updates \o inserts
  /\ pc' = "done"
  /\ UNCHANGED <<args, old_pos, new_pos, deletes, inserts, updates, kept>>

AssembleEarly ==
  /\ pc = "merge" /\ (~OldLeft \/ ~NewLeft)
  /\ changes' = Reverse(deletes) \o inserts \o updates
  /\ pc' = "done"
  /\ UNCHANGED <<args, old_pos, new_pos, deletes, inserts, updates, kept>>

Assemble ==
  /\ pc = "merge" /\ ~OldLeft /\ ~NewLeft
  /\ changes' = Reverse(deletes) \o inserts \o updates
  /\ pc' = "done"
  /\ UNCHANGED <<args, old_pos, new_pos, deletes, inserts, updates, kept>>

Returned == pc \in {"done", "threw"} /\ UNCHANGED vars

Next ==
  \/ Check
  \/ MergeUpdate \/ MergeSuppress \/ MergeDelete \/ MergeInsert
  \/ Assemble
  \/ Returned

Spec == Init /\ [][Next]_vars

\* The call is sequential code: it keeps running.
FairSpec == Spec /\ WF_vars(Next)

------------------------------------------------------------------------------
\* incremental_consistent_order (src/sqlite_query/query_diff.cpp)

ord_class(c) == IF c.to_index = -1 THEN -1 ELSE IF c.from_index = -1 THEN 0 ELSE 1

incremental_consistent_order(a, b) ==
  \/ ord_class(a) < ord_class(b)
  \/ /\ ord_class(a) = ord_class(b)
     /\ IF a.to_index = -1 THEN a.from_index > b.from_index
                           ELSE a.to_index < b.to_index

------------------------------------------------------------------------------
\* Properties.

\* Applying the returned changes one after the other turns the old list into the new
\* one, up to the differences the caller asked to suppress (query_diff.hpp: "such
\* an order that they could be applied incrementally").
ReplayGivesNewList ==
  pc = "done" =>
    LET screen == Replay(old_list, changes, new_list)
    IN /\ Len(screen) = Len(new_list)
       /\ \A j \in 1 .. Len(new_list) :
            screen[j] = new_list[j] \/ <<screen[j], new_list[j]>> \in Suppressed

Ordered(list) ==
  \A i, j \in 1 .. Len(list) :
    i < j => incremental_consistent_order(list[i], list[j])

\* The result is strictly sorted by incremental_consistent_order, as the header says.
ConsistentlyOrdered == Ordered(changes)

From(list) == {list[k].from_index : k \in 1 .. Len(list)}
To(list) == {list[k].to_index : k \in 1 .. Len(list)}

Partition(S, A, B, C) ==
  A \cup B \cup C = S /\ A \cap B = {} /\ A \cap C = {} /\ B \cap C = {}

\* Each old row is deleted, updated or kept, each new row inserted, updated or kept,
\* and never two of them: the merge loop and the two tail loops skip no row.
RowsAccountedFor ==
  pc = "done" =>
    /\ Partition(0 .. Len(old_list) - 1, From(deletes), From(updates), From(kept))
    /\ Partition(0 .. Len(new_list) - 1, To(inserts), To(updates), To(kept))

\* The order is the identity of the rows, as UserListVmHandle has it: it sorts by id,
\* compares ids, no id twice, and suppresses the updates of equal rows only.
SortedByEntity ==
  LET rows == old_list \o new_list
  IN /\ \A list \in {old_list, new_list} : \A i, j \in 1 .. Len(list) :
          i < j => <<list[i], list[j]>> \in LessThan
     /\ \A i, j \in 1 .. Len(rows) :
          LET p == <<rows[i], rows[j]>>
          IN /\ p \in SameEntity <=> p \notin LessThan /\ <<p[2], p[1]>> \notin LessThan
             /\ p \in SameEntity <=> p[1].id = p[2].id
             /\ p \in SameEntity => (p \in Suppressed <=> p[1] = p[2])

\* When the order identifies the entity the result is exact: an entity of both lists is
\* neither deleted nor inserted, and only rows that differ are updated.
ChangesAreExact ==
  pc = "done" /\ SortedByEntity => changes = EntityDiff(old_list, new_list)

\* The merge ends: every iteration advances in one of the lists.
Terminates == <>(pc \in {"done", "threw"})
==============================================================================
