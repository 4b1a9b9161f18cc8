------------------------------- MODULE Sorting -------------------------------
(***************************************************************************)
(* What std::sort and ORDER BY leave in place of a set, when no two         *)
(* elements tie.  SetToSortSeq of SequencesExt is the same list; this form  *)
(* is first-order, so that theorems can be proved about it.                 *)
(***************************************************************************)
EXTENDS Integers, FiniteSets

\* The elements of S, by increasing key.
SortedBy(S, key) ==
  CHOOSE s \in [1 .. Cardinality(S) -> S] :
    \A m, n \in 1 .. Cardinality(S) : m < n => key[s[m]] < key[s[n]]

Ascending(S) == SortedBy(S, [i \in S |-> i])
==============================================================================
