---------------------------- MODULE FirstChangeMC ----------------------------
(***************************************************************************)
(* Inputs of FirstChange for TLC: one table with many changes, under every   *)
(* primary key of one or two columns, or two tables with few; keys of all   *)
(* types, the same number as INT and as DOUBLE, the ends of the exact range, *)
(* and the changes and tables that make the function throw.                 *)
(***************************************************************************)
EXTENDS FirstChange

CONSTANTS MaxChanges, t1, t2

Val(type, val) == [type |-> type, val |-> val]

FirstColumn == {Val("INT", 1), Val("DOUBLE", 2), Val("DOUBLE", 3), Val("INT", 2), Val("STRING", 1)}
OtherRows == {<<Val("INT", 1), Val("BLOB", 2)>>, <<Nul, Val("INT", 1)>>,
              <<Val("INT", Exact), Nul>>, <<Val("DOUBLE", 2 * Exact), Nul>>}
MCRows == {<<v, Nul>> : v \in FirstColumn} \cup OtherRows

Inserted == {[old_row |-> NoRow, new_row |-> r] : r \in MCRows}
Bad == {[old_row |-> NoRow, new_row |-> NoRow],
        [old_row |-> <<Val("INT", 1)>>, new_row |-> NoRow],
        [old_row |-> <<Val("INT", 1), Nul>>, new_row |-> <<Val("INT", 2), Nul>>]}
Touched == {[old_row |-> <<Val("INT", 1), Nul>>, new_row |-> <<Val("DOUBLE", 2), Nul>>]}

Schemas == {<<0, 0>>, <<1, 0>>, <<0, 1>>, <<1, 2>>, <<2, 1>>}
UpTo(n, S) == UNION {[1 .. k -> S] : k \in 0 .. n}

MCTables == <<t1, t2>>
Call(c1, c2, schema) == [changes |-> (t1 :> c1 @@ t2 :> c2), schema |-> schema]

MCInputs ==
  {Call(c, <<>>, (t1 :> s @@ t2 :> <<0>>)) :
     c \in UpTo(MaxChanges, Inserted \cup Touched), s \in Schemas}
  \cup
  {Call(c, d, schema) :
     c \in UpTo(1, Inserted \cup Bad), d \in UpTo(2, Touched \cup Bad),
     schema \in {(t1 :> <<1, 0>> @@ t2 :> <<2, 1>>), (t1 :> <<0, 0>> @@ t2 :> <<1, 0>>),
                 (t1 :> <<1, 0>>)}}
==============================================================================
