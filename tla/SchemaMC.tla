------------------------------- MODULE SchemaMC -------------------------------
(***************************************************************************)
(* An instance of Schema for TLC: from one version to the next a table is    *)
(* changed, made, dropped, or replaced by the other.                        *)
(***************************************************************************)
EXTENDS Schema

CONSTANTS t1, t2

MCTables == {t1, t2}

MCTablesOf ==
  [v \in 0 .. MaxVersion |-> CASE v % 4 = 0 -> {t1}
                               [] v % 4 = 1 -> {t1, t2}
                               [] v % 4 = 2 -> {t2}
                               [] OTHER -> {}]
==============================================================================
