--------------------------- MODULE ObservableDbMC ---------------------------
(***************************************************************************)
(* ObservableDb for TLC: two rows of one table and one of another.  Nothing *)
(* tells the values apart.                                                  *)
(***************************************************************************)
EXTENDS ObservableDb, TLC

MCRows == {<<"users", 1>>, <<"users", 2>>, <<"store", 1>>}

Symmetry == Permutations(Values)
=============================================================================
