----------------------------- MODULE StatementMC -----------------------------
(***************************************************************************)
(* An instance of Statement for TLC: a query that finds no row while        *)
(* nothing is bound, and otherwise more rows in each version than before,   *)
(* then fewer.                                                              *)
(***************************************************************************)
EXTENDS Statement

MCSize ==
  [v \in 0 .. MaxVersion |->
     [k \in Keys \cup {Unbound} |->
        CASE k = Unbound -> 0
          [] k # Unbound /\ v % 2 = 0 -> v + 1
          [] k # Unbound /\ v % 2 = 1 -> 3]]
==============================================================================
