------------------------------ MODULE SqlValue ------------------------------
(***************************************************************************)
(* sqlite::Value: the equality and the order of values of mixed type.       *)
(*                                                                          *)
(* The value of an INT is an integer; that of a DOUBLE is counted in halves, *)
(* which puts a double on every integer and between any two; that of a      *)
(* STRING or a BLOB is its place in the byte order.  NaN is left out: SQLite *)
(* stores it as NULL.                                                       *)
(***************************************************************************)
EXTENDS Integers, Sequences

CONSTANT Exact  \* an int64_t up to this size is a double: 2^53

ASSUME SqlValueAssumption == Exact \in Nat /\ Exact % 4 = 0

Types == {"NUL", "INT", "DOUBLE", "STRING", "BLOB"}
Rank == [t \in Types |-> CASE t = "NUL" -> 0 [] t = "INT" -> 1 [] t = "DOUBLE" -> 2
                            [] t = "STRING" -> 3 [] t = "BLOB" -> 4]

Value == [type : Types, val : Int]
Nul == [type |-> "NUL", val |-> 0]

IsExact(v) == v.type = "INT" => v.val \in -Exact .. Exact

\* The double an INT is converted to, in halves: itself or, beyond Exact (and up to
\* twice that, the bound of the model), the even integer next to it, of two the one
\* whose last place is even.
Nearest(i) == IF (i - 1) % 4 = 0 THEN i - 1 ELSE i + 1
ToDouble(i) == IF i \in -Exact .. Exact \/ i % 2 = 0 THEN 2 * i ELSE 2 * Nearest(i)

Affinity(t) == IF t = "DOUBLE" THEN "INT" ELSE t

\* Both sides of a comparison, once their affinities agree.
Left(l, r) == IF l.type = "INT" /\ r.type = "DOUBLE" THEN ToDouble(l.val) ELSE l.val
Right(l, r) == IF l.type = "DOUBLE" /\ r.type = "INT" THEN ToDouble(r.val) ELSE r.val

\* operator==
Eq(l, r) ==
  /\ Affinity(l.type) = Affinity(r.type)
  /\ l.type = "NUL" \/ Left(l, r) = Right(l, r)

\* Mutant of Lt: types are compared before affinities are looked up.
LtByType(l, r) ==
  \/ Rank[l.type] < Rank[r.type]
  \/ l.type = r.type /\ l.type # "NUL" /\ l.val < r.val

\* operator<
Lt(l, r) ==
  \/ Rank[Affinity(l.type)] < Rank[Affinity(r.type)]
  \/ /\ Affinity(l.type) = Affinity(r.type) /\ l.type # "NUL"
     /\ Left(l, r) < Right(l, r)

------------------------------------------------------------------------------
(* vector<Value>: std::equal and std::lexicographical_compare *)

RowEq(a, b) == Len(a) = Len(b) /\ \A k \in 1 .. Len(a) : Eq(a[k], b[k])

Tie(l, r) == ~Lt(l, r) /\ ~Lt(r, l)

RowLt(a, b) ==
  \E k \in 1 .. Len(b) :
    /\ \A j \in 1 .. k - 1 : j <= Len(a) /\ Tie(a[j], b[j])
    /\ k > Len(a) \/ Lt(a[k], b[k])

RowTie(a, b) == ~RowLt(a, b) /\ ~RowLt(b, a)
==============================================================================
