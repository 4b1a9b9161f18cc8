---------------------------- MODULE ListDiffProofs ----------------------------
(***************************************************************************)
(* Facts about sorted lists and about replaying a list of changes, shared   *)
(* by the proofs about calculate_diff, the user list and ObservableDb.      *)
(***************************************************************************)
EXTENDS ListDiff, FiniteSetTheorems, SequenceTheorems, TLAPS

\* A set of natural numbers that is not empty has a least element: a property that
\* fails for some natural number fails for a least one, which is how the proofs here
\* go by induction.
LEMMA LeastNat ==
  ASSUME NEW T \in SUBSET Nat, T # {}
  PROVE  \E n \in T : \A m \in T : n <= m
<1> DEFINE R == StrictSubsetOrdering(Nat)
           U == {1 .. n : n \in T}
<1>1. U \subseteq FiniteSubsetsOf(Nat)
  <2>1. \A n \in T : 1 .. n \in SUBSET Nat /\ IsFiniteSet(1 .. n)
    BY FS_Interval
  <2> QED BY <2>1 DEF FiniteSubsetsOf
<1>2. U # {} OBVIOUS
<1>3. IsWellFoundedOn(R, FiniteSubsetsOf(Nat))
  BY FS_StrictSubsetOrderingWellFounded
<1>4. \E x \in U : \A y \in U : <<y, x>> \notin R
  <2> HIDE DEF R, U
  <2> QED BY <1>1, <1>2, <1>3, WFMin
<1>5. PICK n \in T : \A m \in T : <<1 .. m, 1 .. n>> \notin R
  BY <1>4
<1>6. \A m \in T : m < n => <<1 .. m, 1 .. n>> \in R
  <2> SUFFICES ASSUME NEW m \in T, m < n PROVE <<1 .. m, 1 .. n>> \in R
    OBVIOUS
  <2>1. m \in Nat /\ n \in Nat OBVIOUS
  <2>2. 1 .. m \subseteq 1 .. n /\ n \in 1 .. n /\ n \notin 1 .. m
    BY <2>1
  <2> QED BY <2>1, <2>2 DEF StrictSubsetOrdering
<1> HIDE DEF R, U
<1>7. \A m \in T : ~(m < n)
  BY <1>5, <1>6
<1>8. \A m \in T : n <= m
  <2> TAKE m \in T
  <2> QED BY <1>7
<1> QED BY <1>8

------------------------------------------------------------------------------
\* Sorting

\* The elements that sort up to x, and the position of x.
UpTo(S, key, x) == {y \in S : key[y] <= key[x]}
Place(S, key, x) == Cardinality(UpTo(S, key, x))

IsKey(S, key) ==
  /\ \A x \in S : key[x] \in Int
  /\ \A x, y \in S : key[x] = key[y] => x = y

LEMMA PlaceGrows ==
  ASSUME NEW S, IsFiniteSet(S), NEW key, IsKey(S, key), NEW x \in S, NEW y \in S
  PROVE  /\ Place(S, key, x) \in 1 .. Cardinality(S)
         /\ Place(S, key, x) < Place(S, key, y) <=> key[x] < key[y]
         /\ Place(S, key, x) = Place(S, key, y) => x = y
<1>1. \A u \in S : /\ UpTo(S, key, u) \in SUBSET S /\ u \in UpTo(S, key, u)
                   /\ IsFiniteSet(UpTo(S, key, u))
                   /\ Place(S, key, u) \in Nat
                   /\ Place(S, key, u) <= Cardinality(S)
                   /\ Place(S, key, u) # 0
  <2> TAKE u \in S
  <2>1. UpTo(S, key, u) \in SUBSET S /\ u \in UpTo(S, key, u)
    BY DEF UpTo, IsKey
  <2>2. IsFiniteSet(UpTo(S, key, u)) /\ Place(S, key, u) <= Cardinality(S)
    BY <2>1, FS_Subset DEF Place
  <2> QED
    BY <2>1, <2>2, FS_CardinalityType, FS_EmptySet DEF Place
<1>2. ASSUME NEW u \in S, NEW v \in S, key[u] < key[v]
      PROVE  Place(S, key, u) < Place(S, key, v)
  <2>1. UpTo(S, key, u) \in SUBSET UpTo(S, key, v)
    BY <1>2 DEF UpTo, IsKey
  <2>2. v \in UpTo(S, key, v) /\ v \notin UpTo(S, key, u)
    BY <1>2 DEF UpTo, IsKey
  <2>3. Place(S, key, u) <= Place(S, key, v) /\ Place(S, key, u) # Place(S, key, v)
    BY <1>1, <2>1, <2>2, FS_Subset DEF Place
  <2> QED BY <1>1, <2>3
<1>3. key[x] \in Int /\ key[y] \in Int /\ Cardinality(S) \in Nat
  BY FS_CardinalityType DEF IsKey
<1>4. key[x] < key[y] \/ key[y] < key[x] \/ key[x] = key[y]
  BY <1>3
<1>5. key[x] = key[y] => x = y
  BY DEF IsKey
<1>6. /\ key[x] < key[y] => Place(S, key, x) < Place(S, key, y)
      /\ key[y] < key[x] => Place(S, key, y) < Place(S, key, x)
  BY <1>2
<1> QED
  BY <1>1, <1>3, <1>4, <1>5, <1>6

\* Every position is taken.
LEMMA PlaceReaches ==
  ASSUME NEW S, IsFiniteSet(S), NEW key, IsKey(S, key), NEW n \in 1 .. Cardinality(S)
  PROVE  \E x \in S : Place(S, key, x) = n
<1> DEFINE r == [x \in S |-> Place(S, key, x)]
           I == 1 .. Cardinality(S)
<1>1. r \in Injection(S, I)
  <2>1. r \in [S -> I]
    BY PlaceGrows
  <2>2. \A x, y \in S : r[x] = r[y] => x = y
    BY PlaceGrows
  <2> QED
    BY <2>1, <2>2 DEF Injection, IsInjective
<1>2. Cardinality(S) \in Nat /\ IsFiniteSet(I) /\ Cardinality(I) = Cardinality(S)
  BY FS_CardinalityType, FS_Interval
<1>3. r \in Surjection(S, I)
  <2> HIDE DEF r, I
  <2> QED BY <1>1, <1>2, FS_Injection
<1>4. \E x \in S : r[x] = n
  <2> HIDE DEF r
  <2> QED BY <1>3 DEF Surjection
<1> QED
  BY <1>4

\* A list of the elements of S, each once, by increasing key.
Enumerates(s, S, key) ==
  /\ s \in [1 .. Cardinality(S) -> S]
  /\ \A m, n \in 1 .. Cardinality(S) : m < n => key[s[m]] < key[s[n]]

LEMMA SortedListExists ==
  ASSUME NEW S, IsFiniteSet(S), NEW key, IsKey(S, key)
  PROVE  \E s : Enumerates(s, S, key)
<1> DEFINE s == [n \in 1 .. Cardinality(S) |-> CHOOSE x \in S : Place(S, key, x) = n]
<1>1. \A n \in 1 .. Cardinality(S) : s[n] \in S /\ Place(S, key, s[n]) = n
  BY PlaceReaches
<1>2. s \in [1 .. Cardinality(S) -> S]
  BY <1>1
<1>3. \A m, n \in 1 .. Cardinality(S) : m < n => key[s[m]] < key[s[n]]
  <2> TAKE m, n \in 1 .. Cardinality(S)
  <2> HIDE DEF s
  <2> QED BY <1>1, PlaceGrows
<1> HIDE DEF s
<1> QED
  BY <1>2, <1>3 DEF Enumerates

\* Such a list holds every element of S, and there is one only.
LEMMA SortedListHolds ==
  ASSUME NEW S, IsFiniteSet(S), NEW key, IsKey(S, key), NEW s, Enumerates(s, S, key)
  PROVE  /\ \A x \in S : \E n \in 1 .. Cardinality(S) : s[n] = x
         /\ \A m, n \in 1 .. Cardinality(S) : key[s[m]] < key[s[n]] => m < n
<1> DEFINE I == 1 .. Cardinality(S)
<1>1. Cardinality(S) \in Nat /\ IsFiniteSet(I) /\ Cardinality(I) = Cardinality(S)
  BY FS_CardinalityType, FS_Interval
<1>2. s \in [I -> S] /\ \A m, n \in I : m < n => key[s[m]] < key[s[n]]
  BY DEF Enumerates
<1>3. \A n \in I : key[s[n]] \in Int
  BY <1>2 DEF IsKey
<1>4. \A m, n \in I : s[m] = s[n] => m = n
  <2> SUFFICES ASSUME NEW m \in I, NEW n \in I, s[m] = s[n], m < n PROVE FALSE
    BY <1>1
  <2> QED BY <1>2, <1>3
<1>5. s \in Injection(I, S)
  BY <1>2, <1>4 DEF Injection, IsInjective
<1>6. s \in Surjection(I, S)
  <2> HIDE DEF I
  <2> QED BY <1>1, <1>5, FS_Injection
<1>7. \A x \in S : \E n \in I : s[n] = x
  BY <1>6 DEF Surjection
<1>8. \A m, n \in I : key[s[m]] < key[s[n]] => m < n
  <2> SUFFICES ASSUME NEW m \in I, NEW n \in I, key[s[m]] < key[s[n]], ~(m < n) PROVE FALSE
    BY <1>1
  <2>1. n < m \/ n = m
    BY <1>1
  <2> QED BY <1>2, <1>3, <2>1
<1> QED
  BY <1>7, <1>8

LEMMA SortedListUnique ==
  ASSUME NEW S, IsFiniteSet(S), NEW key, IsKey(S, key),
         NEW s, Enumerates(s, S, key), NEW t, Enumerates(t, S, key)
  PROVE  s = t
<1> DEFINE I == 1 .. Cardinality(S)
           T == {n \in I : s[n] # t[n]}
<1>1. Cardinality(S) \in Nat
  BY FS_CardinalityType
<1>2. s \in [I -> S] /\ t \in [I -> S]
  BY DEF Enumerates
<1>3. CASE T = {}
  <2>1. \A n \in I : s[n] = t[n]
    BY <1>3
  <2> HIDE DEF I, T
  <2> QED BY <1>2, <2>1
<1>4. CASE T # {}
  <2>0. T \in SUBSET Nat
    BY <1>1
  <2>1. PICK n \in T : \A m \in T : n <= m
    <3> HIDE DEF T
    <3> QED BY <2>0, <1>4, LeastNat
  <2>2. n \in I /\ s[n] # t[n] /\ \A m \in I : m < n => s[m] = t[m]
    BY <1>1, <2>1
  <2>9. s[n] \in S /\ t[n] \in S
    BY <1>2, <2>2
  <2>3. PICK k \in I : t[k] = s[n]
    <3>1. \A x \in S : \E k \in 1 .. Cardinality(S) : t[k] = x
      BY SortedListHolds
    <3> HIDE DEF T
    <3> QED BY <2>9, <3>1
  <2>4. PICK l \in I : s[l] = t[n]
    <3>1. \A x \in S : \E m \in 1 .. Cardinality(S) : s[m] = x
      BY SortedListHolds
    <3> HIDE DEF T
    <3> QED BY <2>9, <3>1
  <2>5. n < k
    <3>1. k < n => s[k] = s[n]
      BY <2>2, <2>3
    <3>2. k < n => key[s[k]] < key[s[n]]
      BY <2>2, <2>3 DEF Enumerates
    <3>3. key[s[n]] \in Int
      BY <1>2, <2>2 DEF IsKey
    <3>4. k # n
      BY <2>2, <2>3
    <3> QED BY <1>1, <2>2, <3>1, <3>2, <3>3, <3>4
  <2>6. n < l
    <3>1. l < n => t[l] = t[n]
      BY <2>2, <2>4
    <3>2. l < n => key[t[l]] < key[t[n]]
      BY <2>2, <2>4 DEF Enumerates
    <3>3. key[t[n]] \in Int
      BY <1>2, <2>2 DEF IsKey
    <3>4. l # n
      BY <2>2, <2>4
    <3> QED BY <1>1, <2>2, <3>1, <3>2, <3>3, <3>4
  <2>7. key[t[n]] < key[t[k]] /\ key[s[n]] < key[s[l]]
    BY <2>2, <2>5, <2>6 DEF Enumerates
  <2>8. key[s[n]] \in Int /\ key[t[n]] \in Int
    BY <1>2, <2>2 DEF IsKey
  <2> QED BY <2>3, <2>4, <2>7, <2>8
<1> QED
  BY <1>3, <1>4

\* SortedBy is that list.
LEMMA SortedByIs ==
  ASSUME NEW S, IsFiniteSet(S), NEW key, IsKey(S, key)
  PROVE  /\ Enumerates(SortedBy(S, key), S, key)
         /\ \A s : Enumerates(s, S, key) => s = SortedBy(S, key)
<1>1. SortedBy(S, key) = CHOOSE s : Enumerates(s, S, key)
  BY DEF SortedBy, Enumerates
<1>2. Enumerates(SortedBy(S, key), S, key)
  BY <1>1, SortedListExists
<1> QED
  BY <1>2, SortedListUnique

\* The positions in order: every one of the set, each once, increasing.
LEMMA AscendingIs ==
  ASSUME NEW S \in SUBSET Int, IsFiniteSet(S)
  PROVE  /\ Ascending(S) \in Seq(S)
         /\ Len(Ascending(S)) = Cardinality(S)
         /\ \A m, n \in 1 .. Cardinality(S) : m < n <=> Ascending(S)[m] < Ascending(S)[n]
         /\ \A x \in S : \E n \in 1 .. Cardinality(S) : Ascending(S)[n] = x
<1> DEFINE key == [i \in S |-> i]
<1>1. IsKey(S, key)
  BY DEF IsKey
<1>2. Enumerates(Ascending(S), S, key)
  <2> HIDE DEF key
  <2>1. Enumerates(SortedBy(S, key), S, key)
    BY <1>1, SortedByIs
  <2> QED BY <2>1 DEF Ascending, key
<1>3. Cardinality(S) \in Nat
  BY FS_CardinalityType
<1>4. Ascending(S) \in [1 .. Cardinality(S) -> S]
  BY <1>2 DEF Enumerates
<1>5. Ascending(S) \in Seq(S) /\ Len(Ascending(S)) = Cardinality(S)
  BY <1>3, <1>4
<1>6. \A m, n \in 1 .. Cardinality(S) : m < n => Ascending(S)[m] < Ascending(S)[n]
  BY <1>2, <1>4 DEF Enumerates
<1>7. /\ \A x \in S : \E n \in 1 .. Cardinality(S) : Ascending(S)[n] = x
      /\ \A m, n \in 1 .. Cardinality(S) : Ascending(S)[m] < Ascending(S)[n] => m < n
  <2>1. /\ \A x \in S : \E n \in 1 .. Cardinality(S) : Ascending(S)[n] = x
        /\ \A m, n \in 1 .. Cardinality(S) :
             key[Ascending(S)[m]] < key[Ascending(S)[n]] => m < n
    <3> HIDE DEF key
    <3> QED BY <1>1, <1>2, SortedListHolds
  <2> QED BY <1>4, <2>1
<1> QED
  BY <1>5, <1>6, <1>7

\* A largest element comes last.
LEMMA AscendingAdd ==
  ASSUME NEW S \in SUBSET Int, IsFiniteSet(S), NEW x \in Int, \A y \in S : y < x
  PROVE  Ascending(S \cup {x}) = Append(Ascending(S), x)
<1> DEFINE T == S \cup {x}
           key == [i \in T |-> i]
           s == Ascending(S)
           t == Append(s, x)
           n == Cardinality(S)
<1>1. IsFiniteSet(T) /\ Cardinality(T) = n + 1 /\ n \in Nat
  <2>1. x \notin S OBVIOUS
  <2> QED BY <2>1, FS_AddElement, FS_CardinalityType
<1>2. s \in Seq(S) /\ Len(s) = n /\ \A k, m \in 1 .. n : k < m => s[k] < s[m]
  BY AscendingIs
<1>3. IsKey(T, key)
  BY DEF IsKey
<1>4. t \in Seq(T) /\ Len(t) = n + 1 /\ t[n + 1] = x /\ \A k \in 1 .. n : t[k] = s[k]
  <2> HIDE DEF s
  <2>1. s \in Seq(T) /\ x \in T
    BY <1>2
  <2> HIDE DEF T, n
  <2> QED BY <1>1, <1>2, <2>1
<1>5. Enumerates(t, T, key)
  <2> HIDE DEF t, s, n
  <2>1. t \in [1 .. n + 1 -> T]
    BY <1>1, <1>4
  <2>2. ASSUME NEW k \in 1 .. n + 1, NEW m \in 1 .. n + 1, k < m
        PROVE  t[k] < t[m]
    <3>1. k \in 1 .. n /\ t[k] = s[k] /\ s[k] \in S
      BY <1>1, <1>2, <1>4, <2>2
    <3>2. CASE m = n + 1
      BY <1>4, <3>1, <3>2
    <3>3. CASE m \in 1 .. n
      BY <1>2, <1>4, <2>2, <3>1, <3>3
    <3> QED BY <1>1, <3>2, <3>3
  <2> QED BY <1>1, <2>1, <2>2 DEF Enumerates
<1>6. t = SortedBy(T, key)
  <2> HIDE DEF t, T, key
  <2> QED BY <1>1, <1>3, <1>5, SortedByIs
<1> QED
  BY <1>6 DEF Ascending

LEMMA AscendingEmpty == Ascending({}) = <<>>
<1>1. Len(Ascending({})) = 0 /\ Ascending({}) \in Seq({})
  BY AscendingIs, FS_EmptySet
<1> QED BY <1>1
------------------------------------------------------------------------------
\* Lists on screen

LEMMA SameList ==
  ASSUME NEW S, NEW s \in Seq(S), NEW t \in Seq(S), Len(s) = Len(t),
         \A i \in 1 .. Len(s) : s[i] = t[i]
  PROVE  s = t
BY SeqEqual

LEMMA RemoveAtIs ==
  ASSUME NEW S, NEW s \in Seq(S), NEW p \in 1 .. Len(s)
  PROVE  /\ RemoveAt(s, p) \in Seq(S)
         /\ Len(RemoveAt(s, p)) = Len(s) - 1
         /\ \A i \in 1 .. Len(s) - 1 : RemoveAt(s, p)[i] = IF i < p THEN s[i] ELSE s[i + 1]
<1> DEFINE a == SubSeq(s, 1, p - 1)
           b == SubSeq(s, p + 1, Len(s))
<1>1. a \in Seq(S) /\ Len(a) = p - 1 /\ \A i \in 1 .. p - 1 : a[i] = s[i]
  BY SubSeqProperties
<1>2. b \in Seq(S) /\ Len(b) = Len(s) - p /\ \A i \in 1 .. Len(s) - p : b[i] = s[p + i]
  <2>1. \A i \in p + 1 .. Len(s) : s[i] \in S
    OBVIOUS
  <2>2. /\ b \in Seq(S) /\ Len(b) = IF p + 1 <= Len(s) THEN Len(s) - (p + 1) + 1 ELSE 0
        /\ \A i \in 1 .. Len(s) - (p + 1) + 1 : b[i] = s[(p + 1) + i - 1]
    BY <2>1, SubSeqProperties
  <2> QED BY <2>2
<1>3. RemoveAt(s, p) = a \o b
  BY DEF RemoveAt
<1> HIDE DEF a, b
<1> DEFINE r == a \o b
<1>4. /\ r \in Seq(S) /\ Len(r) = Len(a) + Len(b)
      /\ \A i \in 1 .. Len(a) + Len(b) : r[i] = IF i <= Len(a) THEN a[i] ELSE b[i - Len(a)]
  BY <1>1, <1>2, ConcatProperties
<1> HIDE DEF r
<1>5. ASSUME NEW i \in 1 .. Len(s) - 1
      PROVE  r[i] = IF i < p THEN s[i] ELSE s[i + 1]
  <2>1. CASE i < p
    <3>1. i \in 1 .. p - 1
      BY <2>1
    <3>2. i \in 1 .. Len(a) + Len(b) /\ i <= Len(a)
      BY <1>1, <1>2, <2>1
    <3>3. r[i] = a[i] /\ a[i] = s[i]
      BY <1>1, <1>4, <3>1, <3>2
    <3> QED BY <2>1, <3>3
  <2>2. CASE ~(i < p)
    <3>1. r[i] = b[i - (p - 1)] /\ i - (p - 1) \in 1 .. Len(s) - p
      BY <1>1, <1>2, <1>4, <2>2
    <3>2. p + (i - (p - 1)) = i + 1
      OBVIOUS
    <3> QED BY <1>2, <2>2, <3>1, <3>2
  <2> QED BY <2>1, <2>2
<1> QED
  BY <1>1, <1>2, <1>3, <1>4, <1>5 DEF r

LEMMA InsertAtIs ==
  ASSUME NEW S, NEW s \in Seq(S), NEW p \in 1 .. Len(s) + 1, NEW x \in S
  PROVE  /\ InsertAt(s, p, x) \in Seq(S)
         /\ Len(InsertAt(s, p, x)) = Len(s) + 1
         /\ \A i \in 1 .. Len(s) + 1 :
              InsertAt(s, p, x)[i] = IF i < p THEN s[i] ELSE IF i = p THEN x ELSE s[i - 1]
<1> DEFINE a == SubSeq(s, 1, p - 1)
           b == SubSeq(s, p, Len(s))
           c == a \o <<x>>
<1>1. a \in Seq(S) /\ Len(a) = p - 1 /\ \A i \in 1 .. p - 1 : a[i] = s[i]
  BY SubSeqProperties
<1>2. b \in Seq(S) /\ Len(b) = Len(s) - p + 1 /\ \A i \in 1 .. Len(s) - p + 1 : b[i] = s[p + i - 1]
  <2>1. \A i \in p .. Len(s) : s[i] \in S
    OBVIOUS
  <2>2. /\ b \in Seq(S) /\ Len(b) = IF p <= Len(s) THEN Len(s) - p + 1 ELSE 0
        /\ \A i \in 1 .. Len(s) - p + 1 : b[i] = s[p + i - 1]
    BY <2>1, SubSeqProperties
  <2> QED BY <2>2
<1>3. InsertAt(s, p, x) = c \o b
  BY DEF InsertAt
<1> HIDE DEF a, b
<1>4. c \in Seq(S) /\ Len(c) = p /\ c[p] = x /\ \A i \in 1 .. p - 1 : c[i] = s[i]
  <2>1. <<x>> \in Seq(S) /\ Len(<<x>>) = 1 /\ <<x>>[1] = x
    OBVIOUS
  <2>2. /\ c \in Seq(S) /\ Len(c) = Len(a) + 1
        /\ \A i \in 1 .. Len(a) + 1 : c[i] = IF i <= Len(a) THEN a[i] ELSE <<x>>[i - Len(a)]
    BY <1>1, <2>1, ConcatProperties
  <2> HIDE DEF c
  <2>3. c[p] = <<x>>[p - (p - 1)]
    BY <1>1, <2>2
  <2> QED BY <1>1, <2>1, <2>2, <2>3
<1> HIDE DEF c
<1> DEFINE r == c \o b
<1>5. /\ r \in Seq(S) /\ Len(r) = Len(c) + Len(b)
      /\ \A i \in 1 .. Len(c) + Len(b) : r[i] = IF i <= Len(c) THEN c[i] ELSE b[i - Len(c)]
  BY <1>2, <1>4, ConcatProperties
<1> HIDE DEF r
<1>6. ASSUME NEW i \in 1 .. Len(s) + 1
      PROVE  r[i] = IF i < p THEN s[i] ELSE IF i = p THEN x ELSE s[i - 1]
  <2>1. CASE i <= p
    BY <1>2, <1>4, <1>5, <2>1
  <2>2. CASE p < i
    <3>1. r[i] = b[i - p] /\ i - p \in 1 .. Len(s) - p + 1
      BY <1>2, <1>4, <1>5, <2>2
    <3>2. p + (i - p) - 1 = i - 1
      OBVIOUS
    <3>3. r[i] = s[i - 1]
      BY <1>2, <3>1, <3>2
    <3> QED BY <2>2, <3>3
  <2> QED BY <2>1, <2>2
<1> QED
  BY <1>2, <1>3, <1>4, <1>5, <1>6 DEF r

LEMMA ReplaceAtIs ==
  ASSUME NEW S, NEW s \in Seq(S), NEW p \in 1 .. Len(s), NEW x \in S
  PROVE  /\ ReplaceAt(s, p, x) \in Seq(S)
         /\ Len(ReplaceAt(s, p, x)) = Len(s)
         /\ \A i \in 1 .. Len(s) : ReplaceAt(s, p, x)[i] = IF i = p THEN x ELSE s[i]
BY ExceptSeq DEF ReplaceAt

\* Another row at the end is not disturbed, and disturbs nothing.
LEMMA RemoveAtFrame ==
  ASSUME NEW S, NEW s \in Seq(S), NEW p \in 1 .. Len(s), NEW x \in S
  PROVE  RemoveAt(Append(s, x), p) = Append(RemoveAt(s, p), x)
<1> DEFINE t == Append(s, x)
           a == RemoveAt(t, p)
           r == RemoveAt(s, p)
           b == Append(r, x)
<1>1. /\ t \in Seq(S) /\ Len(t) = Len(s) + 1 /\ t[Len(s) + 1] = x
      /\ \A i \in 1 .. Len(s) : t[i] = s[i]
  BY AppendProperties
<1>2. /\ r \in Seq(S) /\ Len(r) = Len(s) - 1
      /\ \A i \in 1 .. Len(s) - 1 : r[i] = IF i < p THEN s[i] ELSE s[i + 1]
  BY RemoveAtIs
<1>3. /\ a \in Seq(S) /\ Len(a) = Len(s)
      /\ \A i \in 1 .. Len(s) : a[i] = IF i < p THEN t[i] ELSE t[i + 1]
  <2> HIDE DEF t
  <2>1. p \in 1 .. Len(t) /\ Len(t) - 1 = Len(s)
    BY <1>1
  <2> QED BY <1>1, <2>1, RemoveAtIs
<1>4. /\ b \in Seq(S) /\ Len(b) = Len(s) /\ b[Len(s)] = x
      /\ \A i \in 1 .. Len(s) - 1 : b[i] = r[i]
  <2> HIDE DEF r
  <2> QED BY <1>2, AppendProperties
<1> HIDE DEF t, a, r, b
<1>5. ASSUME NEW i \in 1 .. Len(s) PROVE a[i] = b[i]
  <2>1. CASE i = Len(s)
    BY <1>1, <1>3, <1>4, <2>1
  <2>2. CASE i \in 1 .. Len(s) - 1
    <3>1. b[i] = r[i] /\ t[i] = s[i] /\ t[i + 1] = s[i + 1]
      BY <1>1, <1>4, <2>2
    <3> QED BY <1>2, <1>3, <2>2, <3>1
  <2> QED BY <2>1, <2>2
<1>6. a = b
  BY <1>3, <1>4, <1>5, SeqEqual
<1> QED
  BY <1>6 DEF t, a, r, b

LEMMA InsertAtFrame ==
  ASSUME NEW S, NEW s \in Seq(S), NEW p \in 1 .. Len(s) + 1, NEW x \in S, NEW y \in S
  PROVE  InsertAt(Append(s, x), p, y) = Append(InsertAt(s, p, y), x)
<1> DEFINE t == Append(s, x)
           a == InsertAt(t, p, y)
           r == InsertAt(s, p, y)
           b == Append(r, x)
<1>1. /\ t \in Seq(S) /\ Len(t) = Len(s) + 1 /\ t[Len(s) + 1] = x
      /\ \A i \in 1 .. Len(s) : t[i] = s[i]
  BY AppendProperties
<1>2. /\ r \in Seq(S) /\ Len(r) = Len(s) + 1
      /\ \A i \in 1 .. Len(s) + 1 : r[i] = IF i < p THEN s[i] ELSE IF i = p THEN y ELSE s[i - 1]
  <2> HIDE DEF t, a, b
  <2>1. /\ InsertAt(s, p, y) \in Seq(S) /\ Len(InsertAt(s, p, y)) = Len(s) + 1
        /\ \A i \in 1 .. Len(s) + 1 :
              InsertAt(s, p, y)[i] = IF i < p THEN s[i] ELSE IF i = p THEN y ELSE s[i - 1]
    <3> HIDE DEF r
    <3> QED BY InsertAtIs
  <2> QED BY <2>1
<1>3. /\ a \in Seq(S) /\ Len(a) = Len(t) + 1
      /\ \A i \in 1 .. Len(t) + 1 : a[i] = IF i < p THEN t[i] ELSE IF i = p THEN y ELSE t[i - 1]
  <2> HIDE DEF t
  <2>1. t \in Seq(S) /\ p \in 1 .. Len(t) + 1
    <3> HIDE DEF a, r, b
    <3> QED BY <1>1
  <2>2. /\ InsertAt(t, p, y) \in Seq(S) /\ Len(InsertAt(t, p, y)) = Len(t) + 1
        /\ \A i \in 1 .. Len(t) + 1 :
              InsertAt(t, p, y)[i] = IF i < p THEN t[i] ELSE IF i = p THEN y ELSE t[i - 1]
    <3> HIDE DEF a, r, b
    <3> QED BY <2>1, InsertAtIs
  <2> QED BY <2>2
<1>4. /\ b \in Seq(S) /\ Len(b) = Len(r) + 1 /\ b[Len(r) + 1] = x
      /\ \A i \in 1 .. Len(r) : b[i] = r[i]
  <2> HIDE DEF r
  <2> QED BY <1>2, AppendProperties
<1> HIDE DEF t, a, r, b
<1>5. ASSUME NEW i \in 1 .. Len(a) PROVE a[i] = b[i]
  <2>0. p \in Int /\ i \in Int /\ Len(s) \in Nat
    BY <1>1, <1>3
  <2>1. CASE i = Len(s) + 2
    <3>1. a[i] = t[i - 1]
      BY <1>1, <1>3, <2>0, <2>1
    <3> QED BY <1>1, <1>2, <1>4, <2>0, <2>1, <3>1
  <2>2. CASE i \in 1 .. Len(s) + 1
    <3>1. b[i] = r[i]
      BY <1>2, <1>4, <2>0, <2>2
    <3>2. CASE i < p
      <4>1. a[i] = t[i] /\ r[i] = s[i] /\ i \in 1 .. Len(s)
        BY <1>1, <1>2, <1>3, <2>0, <2>2, <3>2
      <4> QED BY <1>1, <3>1, <4>1
    <3>3. CASE i = p
      BY <1>1, <1>2, <1>3, <2>0, <2>2, <3>1, <3>3
    <3>4. CASE i > p
      <4>1. a[i] = t[i - 1] /\ r[i] = s[i - 1] /\ i - 1 \in 1 .. Len(s)
        BY <1>1, <1>2, <1>3, <2>0, <2>2, <3>4
      <4> QED BY <1>1, <3>1, <4>1
    <3> QED BY <2>0, <3>2, <3>3, <3>4
  <2> QED BY <1>1, <1>3, <2>0, <2>1, <2>2
<1>6. a = b
  BY <1>1, <1>2, <1>3, <1>4, <1>5, SeqEqual
<1> QED
  BY <1>6 DEF t, a, r, b

LEMMA ReplaceAtFrame ==
  ASSUME NEW S, NEW s \in Seq(S), NEW p \in 1 .. Len(s), NEW x \in S, NEW y \in S
  PROVE  ReplaceAt(Append(s, x), p, y) = Append(ReplaceAt(s, p, y), x)
<1> DEFINE t == Append(s, x)
           a == ReplaceAt(t, p, y)
           r == ReplaceAt(s, p, y)
           b == Append(r, x)
<1>1. /\ t \in Seq(S) /\ Len(t) = Len(s) + 1 /\ t[Len(s) + 1] = x
      /\ \A i \in 1 .. Len(s) : t[i] = s[i]
  BY AppendProperties
<1>2. /\ r \in Seq(S) /\ Len(r) = Len(s)
      /\ \A i \in 1 .. Len(s) : r[i] = IF i = p THEN y ELSE s[i]
  BY ReplaceAtIs
<1>3. /\ a \in Seq(S) /\ Len(a) = Len(t)
      /\ \A i \in 1 .. Len(t) : a[i] = IF i = p THEN y ELSE t[i]
  <2> HIDE DEF t
  <2>1. t \in Seq(S) /\ p \in 1 .. Len(t)
    BY <1>1
  <2>2. /\ ReplaceAt(t, p, y) \in Seq(S) /\ Len(ReplaceAt(t, p, y)) = Len(t)
        /\ \A i \in 1 .. Len(t) : ReplaceAt(t, p, y)[i] = IF i = p THEN y ELSE t[i]
    <3> HIDE DEF a, r, b
    <3> QED BY <2>1, ReplaceAtIs
  <2> QED BY <2>2
<1>4. /\ b \in Seq(S) /\ Len(b) = Len(r) + 1 /\ b[Len(r) + 1] = x
      /\ \A i \in 1 .. Len(r) : b[i] = r[i]
  <2> HIDE DEF r
  <2> QED BY <1>2, AppendProperties
<1> HIDE DEF t, a, r, b
<1>5. ASSUME NEW i \in 1 .. Len(a) PROVE a[i] = b[i]
  <2>1. CASE i = Len(s) + 1
    BY <1>1, <1>2, <1>3, <1>4, <2>1
  <2>2. CASE i \in 1 .. Len(s)
    <3>1. a[i] = IF i = p THEN y ELSE s[i]
      BY <1>1, <1>3, <2>2
    <3> QED BY <1>2, <1>4, <2>2, <3>1
  <2> QED BY <1>1, <1>3, <2>1, <2>2
<1>6. a = b
  BY <1>1, <1>2, <1>3, <1>4, <1>5, SeqEqual
<1> QED
  BY <1>6 DEF t, a, r, b

------------------------------------------------------------------------------
\* Replay

\* The change finds its row, and the row to show instead is one of R.
IsRemoval(c, list) == c.to_index = -1 /\ c.from_index \in 0 .. Len(list) - 1
IsInsertion(c, list, new, R) ==
  c.from_index = -1 /\ c.to_index \in 0 .. Len(list) /\ new[c.to_index + 1] \in R
IsReplacement(c, list, new, R) ==
  c.from_index # -1 /\ c.to_index \in 0 .. Len(list) - 1 /\ new[c.to_index + 1] \in R

Fits(c, list, new, R) ==
  IsRemoval(c, list) \/ IsInsertion(c, list, new, R) \/ IsReplacement(c, list, new, R)

LEMMA ApplyIs ==
  ASSUME NEW R, NEW list \in Seq(R), NEW c \in ListChange, NEW new
  PROVE  /\ IsRemoval(c, list) => ApplyChange(list, c, new) = RemoveAt(list, c.from_index + 1)
         /\ IsInsertion(c, list, new, R) =>
              ApplyChange(list, c, new) = InsertAt(list, c.to_index + 1, new[c.to_index + 1])
         /\ IsReplacement(c, list, new, R) =>
              ApplyChange(list, c, new) = ReplaceAt(list, c.to_index + 1, new[c.to_index + 1])
<1>1. c.from_index \in Int /\ c.to_index \in Int /\ Len(list) \in Nat
  BY DEF ListChange
<1>2. ASSUME IsRemoval(c, list)
      PROVE  ApplyChange(list, c, new) = RemoveAt(list, c.from_index + 1)
  BY <1>1, <1>2 DEF ApplyChange, IsRemoval
<1>3. ASSUME IsInsertion(c, list, new, R)
      PROVE  ApplyChange(list, c, new) = InsertAt(list, c.to_index + 1, new[c.to_index + 1])
  BY <1>1, <1>3 DEF ApplyChange, IsInsertion
<1>4. ASSUME IsReplacement(c, list, new, R)
      PROVE  ApplyChange(list, c, new) = ReplaceAt(list, c.to_index + 1, new[c.to_index + 1])
  BY <1>1, <1>4 DEF ApplyChange, IsReplacement
<1> QED
  BY <1>2, <1>3, <1>4

\* What fits gives a list of rows, and does the same with another row at the end.
LEMMA ApplyFits ==
  ASSUME NEW R, NEW list \in Seq(R), NEW c \in ListChange, NEW new, Fits(c, list, new, R)
  PROVE  /\ ApplyChange(list, c, new) \in Seq(R)
         /\ \A x \in R :
              /\ Fits(c, Append(list, x), new, R)
              /\ ApplyChange(Append(list, x), c, new) = Append(ApplyChange(list, c, new), x)
<1>1. c.from_index \in Int /\ c.to_index \in Int /\ Len(list) \in Nat
  BY DEF ListChange
<1>2. \A x \in R : Append(list, x) \in Seq(R) /\ Len(Append(list, x)) = Len(list) + 1
  BY AppendProperties
<1>3. \A x \in R :
        /\ IsRemoval(c, list) => IsRemoval(c, Append(list, x))
        /\ IsInsertion(c, list, new, R) => IsInsertion(c, Append(list, x), new, R)
        /\ IsReplacement(c, list, new, R) => IsReplacement(c, Append(list, x), new, R)
  BY <1>1, <1>2 DEF IsRemoval, IsInsertion, IsReplacement
<1>4. CASE IsRemoval(c, list)
  <2> DEFINE p == c.from_index + 1
  <2>1. p \in 1 .. Len(list)
    BY <1>1, <1>4 DEF IsRemoval
  <2>2. ApplyChange(list, c, new) = RemoveAt(list, p)
    BY <1>4, ApplyIs
  <2>3. \A x \in R : ApplyChange(Append(list, x), c, new) = RemoveAt(Append(list, x), p)
    BY <1>2, <1>3, <1>4, ApplyIs
  <2> HIDE DEF p
  <2>4. RemoveAt(list, p) \in Seq(R)
    BY <2>1, RemoveAtIs
  <2>5. \A x \in R : RemoveAt(Append(list, x), p) = Append(RemoveAt(list, p), x)
    BY <2>1, RemoveAtFrame
  <2> QED BY <1>3, <1>4, <2>2, <2>3, <2>4, <2>5 DEF Fits
<1>5. CASE IsInsertion(c, list, new, R)
  <2> DEFINE p == c.to_index + 1
             y == new[p]
  <2>1. p \in 1 .. Len(list) + 1 /\ y \in R
    BY <1>1, <1>5 DEF IsInsertion
  <2>2. ApplyChange(list, c, new) = InsertAt(list, p, y)
    BY <1>5, ApplyIs
  <2>3. \A x \in R : ApplyChange(Append(list, x), c, new) = InsertAt(Append(list, x), p, y)
    BY <1>2, <1>3, <1>5, ApplyIs
  <2> HIDE DEF p, y
  <2>4. InsertAt(list, p, y) \in Seq(R)
    BY <2>1, InsertAtIs
  <2>5. \A x \in R : InsertAt(Append(list, x), p, y) = Append(InsertAt(list, p, y), x)
    BY <2>1, InsertAtFrame
  <2> QED BY <1>3, <1>5, <2>2, <2>3, <2>4, <2>5 DEF Fits
<1>6. CASE IsReplacement(c, list, new, R)
  <2> DEFINE p == c.to_index + 1
             y == new[p]
  <2>1. p \in 1 .. Len(list) /\ y \in R
    BY <1>1, <1>6 DEF IsReplacement
  <2>2. ApplyChange(list, c, new) = ReplaceAt(list, p, y)
    BY <1>6, ApplyIs
  <2>3. \A x \in R : ApplyChange(Append(list, x), c, new) = ReplaceAt(Append(list, x), p, y)
    BY <1>2, <1>3, <1>6, ApplyIs
  <2> HIDE DEF p, y
  <2>4. ReplaceAt(list, p, y) \in Seq(R)
    BY <2>1, ReplaceAtIs
  <2>5. \A x \in R : ReplaceAt(Append(list, x), p, y) = Append(ReplaceAt(list, p, y), x)
    BY <2>1, ReplaceAtFrame
  <2> QED BY <1>3, <1>6, <2>2, <2>3, <2>4, <2>5 DEF Fits
<1> QED
  BY <1>4, <1>5, <1>6 DEF Fits

\* Two sequences of lists that start with the same one and continue in the same way
\* are the same.
LEMMA SameScreens ==
  ASSUME NEW n \in Nat, NEW s, NEW t, s[0] = t[0],
         \A k \in 1 .. n : s[k - 1] = t[k - 1] => s[k] = t[k]
  PROVE  s[n] = t[n]
<1> DEFINE T == {k \in 0 .. n : s[k] # t[k]}
<1>1. ASSUME T # {} PROVE FALSE
  <2>1. T \in SUBSET Nat
    OBVIOUS
  <2>2. PICK k \in T : \A m \in T : k <= m
    <3> HIDE DEF T
    <3> QED BY <1>1, <2>1, LeastNat
  <2>3. k \in 1 .. n /\ s[k] # t[k]
    BY <2>2
  <2>4. k - 1 \notin T
    BY <2>2, <2>3
  <2>5. s[k - 1] = t[k - 1]
    BY <2>3, <2>4
  <2> QED BY <2>3, <2>5
<1> QED
  BY <1>1

\* s holds the list on screen before and after each change.
IsReplay(s, list, changes, new) ==
  /\ s = [k \in 0 .. Len(changes) |-> s[k]]
  /\ s[0] = list
  /\ \A k \in 1 .. Len(changes) : s[k] = ApplyChange(s[k - 1], changes[k], new)

LEMMA ReplayIs ==
  ASSUME NEW changes \in Seq(ListChange), NEW list, NEW new, NEW s,
         IsReplay(s, list, changes, new)
  PROVE  Replay(list, changes, new) = s[Len(changes)]
<1> DEFINE n == Len(changes)
           F(f) == [k \in 0 .. n |-> IF k = 0 THEN list
                                     ELSE ApplyChange(f[k - 1], changes[k], new)]
           t == CHOOSE f : f = F(f)
<1>1. n \in Nat
  OBVIOUS
<1>2. s[0] = list /\ \A k \in 1 .. n : s[k] = ApplyChange(s[k - 1], changes[k], new)
  BY DEF IsReplay
<1>3. s = F(s)
  <2>1. \A k \in 0 .. n : s[k] = IF k = 0 THEN list
                                 ELSE ApplyChange(s[k - 1], changes[k], new)
    <3> HIDE DEF n
    <3> TAKE k \in 0 .. n
    <3>1. CASE k = 0
      BY <1>2, <3>1
    <3>2. CASE k \in 1 .. n
      BY <1>2, <1>1, <3>2
    <3> QED BY <1>1, <3>1, <3>2
  <2>2. s = [k \in 0 .. n |-> s[k]]
    BY DEF IsReplay
  <2> HIDE DEF n
  <2> QED BY <2>1, <2>2
<1>4. t = F(t)
  <2> HIDE DEF F
  <2> QED BY <1>3
<1>5. t[0] = list /\ \A k \in 1 .. n : t[k] = ApplyChange(t[k - 1], changes[k], new)
  <2> HIDE DEF t, n
  <2> QED BY <1>1, <1>4
<1>6. Replay(list, changes, new) = t[n]
  BY DEF Replay
<1>7. s[n] = t[n]
  <2> HIDE DEF n, t
  <2> QED BY <1>2, <1>1, <1>5, SameScreens
<1> QED
  BY <1>6, <1>7

------------------------------------------------------------------------------
\* The result of calculate_diff: the deletes D from the last to the first, then the
\* inserts I, then the updates U.

ChangeAt(D, I, U, k) ==
  IF k <= Len(D) THEN D[Len(D) + 1 - k]
  ELSE IF k <= Len(D) + Len(I) THEN I[k - Len(D)]
  ELSE U[k - Len(D) - Len(I)]

LEMMA ResultIs ==
  ASSUME NEW D \in Seq(ListChange), NEW I \in Seq(ListChange), NEW U \in Seq(ListChange)
  PROVE  /\ Reverse(D) \o I \o U \in Seq(ListChange)
         /\ Len(Reverse(D) \o I \o U) = Len(D) + Len(I) + Len(U)
         /\ \A k \in 1 .. Len(D) + Len(I) + Len(U) :
              /\ (Reverse(D) \o I \o U)[k] = ChangeAt(D, I, U, k)
              /\ ChangeAt(D, I, U, k) \in ListChange
<1> DEFINE r == Reverse(D)
           a == r \o I
           c == a \o U
<1>1. /\ r \in Seq(ListChange) /\ Len(r) = Len(D)
      /\ \A k \in 1 .. Len(D) : r[k] = D[Len(D) + 1 - k]
  <2>1. \A k \in 1 .. Len(D) : (Len(D) - k) + 1 = Len(D) + 1 - k
    OBVIOUS
  <2>2. \A k \in 1 .. Len(D) : (Len(D) - k) + 1 \in 1 .. Len(D)
    OBVIOUS
  <2> QED BY <2>1, <2>2 DEF Reverse
<1> HIDE DEF r
<1>2. /\ a \in Seq(ListChange) /\ Len(a) = Len(D) + Len(I)
      /\ \A k \in 1 .. Len(D) + Len(I) : a[k] = IF k <= Len(D) THEN r[k] ELSE I[k - Len(D)]
  <2>1. r \in Seq(ListChange)
    BY <1>1
  <2>2. /\ a \in Seq(ListChange) /\ Len(a) = Len(r) + Len(I)
        /\ \A k \in 1 .. Len(r) + Len(I) : a[k] = IF k <= Len(r) THEN r[k] ELSE I[k - Len(r)]
    <3> HIDE DEF c
    <3> QED BY <2>1, ConcatProperties
  <2> HIDE DEF a
  <2> QED BY <1>1, <2>2
<1> HIDE DEF a
<1>3. /\ c \in Seq(ListChange) /\ Len(c) = Len(a) + Len(U)
      /\ \A k \in 1 .. Len(a) + Len(U) : c[k] = IF k <= Len(a) THEN a[k] ELSE U[k - Len(a)]
  <2>1. a \in Seq(ListChange)
    BY <1>2
  <2> QED BY <2>1, ConcatProperties
<1> HIDE DEF c
<1>4. Len(D) \in Nat /\ Len(I) \in Nat /\ Len(U) \in Nat
  OBVIOUS
<1>5. ASSUME NEW k \in 1 .. Len(D) + Len(I) + Len(U)
      PROVE  c[k] = ChangeAt(D, I, U, k)
  <2>1. CASE k <= Len(D)
    <3>1. c[k] = a[k] /\ a[k] = r[k] /\ r[k] = D[Len(D) + 1 - k]
      BY <1>1, <1>2, <1>3, <1>4, <2>1
    <3> QED BY <2>1, <3>1 DEF ChangeAt
  <2>2. CASE Len(D) < k /\ k <= Len(D) + Len(I)
    <3>1. c[k] = a[k] /\ a[k] = I[k - Len(D)]
      BY <1>2, <1>3, <1>4, <2>2
    <3> QED BY <1>4, <2>2, <3>1 DEF ChangeAt
  <2>3. CASE Len(D) + Len(I) < k
    <3>1. c[k] = U[k - (Len(D) + Len(I))]
      BY <1>2, <1>3, <1>4, <2>3
    <3>2. k - (Len(D) + Len(I)) = k - Len(D) - Len(I)
      BY <1>4
    <3> QED BY <1>4, <2>3, <3>1, <3>2 DEF ChangeAt
  <2> QED BY <1>4, <2>1, <2>2, <2>3
<1>6. Len(c) = Len(D) + Len(I) + Len(U)
  BY <1>2, <1>3, <1>4
<1>7. \A k \in 1 .. Len(D) + Len(I) + Len(U) : c[k] \in ListChange
  BY <1>3, <1>6
<1> QED
  BY <1>3, <1>5, <1>6, <1>7 DEF c, a, r

\* s holds the lists on screen from list to screen.  Each change fits, and the updates
\* find the list as long as it will be.
Screens(s, R, list, D, I, U, new, screen) ==
  LET n == Len(D) + Len(I) + Len(U)
  IN /\ s \in [0 .. n -> Seq(R)] /\ s[0] = list /\ s[n] = screen
     /\ \A k \in 1 .. n : /\ Fits(ChangeAt(D, I, U, k), s[k - 1], new, R)
                          /\ s[k] = ApplyChange(s[k - 1], ChangeAt(D, I, U, k), new)
     /\ \A k \in Len(D) + Len(I) .. n : Len(s[k]) = Len(screen)

Leads(R, list, D, I, U, new, screen) ==
  /\ D \in Seq(ListChange) /\ I \in Seq(ListChange) /\ U \in Seq(ListChange)
  /\ \E s : Screens(s, R, list, D, I, U, new, screen)

LEMMA LeadsReplay ==
  ASSUME NEW R, NEW list, NEW D, NEW I, NEW U, NEW new, NEW screen,
         Leads(R, list, D, I, U, new, screen)
  PROVE  screen \in Seq(R) /\ Replay(list, Reverse(D) \o I \o U, new) = screen
<1> DEFINE n == Len(D) + Len(I) + Len(U)
           c == Reverse(D) \o I \o U
<1>1. PICK s : Screens(s, R, list, D, I, U, new, screen)
  BY DEF Leads
<1>2. D \in Seq(ListChange) /\ I \in Seq(ListChange) /\ U \in Seq(ListChange)
  BY DEF Leads
<1>3. c \in Seq(ListChange) /\ Len(c) = n /\ \A k \in 1 .. n : c[k] = ChangeAt(D, I, U, k)
  BY <1>2, ResultIs
<1>4. n \in Nat
  BY <1>2
<1>5. /\ s \in [0 .. n -> Seq(R)] /\ s[0] = list /\ s[n] = screen
      /\ \A k \in 1 .. n : s[k] = ApplyChange(s[k - 1], ChangeAt(D, I, U, k), new)
  BY <1>1 DEF Screens
<1> HIDE DEF n, c
<1>6. IsReplay(s, list, c, new)
  BY <1>3, <1>5 DEF IsReplay
<1>7. Replay(list, c, new) = screen
  BY <1>3, <1>5, <1>6, ReplayIs
<1>8. screen \in Seq(R)
  BY <1>4, <1>5
<1> QED
  BY <1>7, <1>8 DEF c

\* calculate_diff reads the lists row by row.  Nothing read, nothing changed.
LEMMA LeadsStart ==
  ASSUME NEW R, NEW new
  PROVE  Leads(R, <<>>, <<>>, <<>>, <<>>, new, <<>>)
<1> DEFINE s == [k \in {0} |-> <<>>]
<1>1. Len(<<>>) = 0 /\ <<>> \in Seq(R) /\ <<>> \in Seq(ListChange)
  OBVIOUS
<1>2. 0 .. 0 = {0} /\ 1 .. 0 = {}
  OBVIOUS
<1>3. Screens(s, R, <<>>, <<>>, <<>>, <<>>, new, <<>>)
  BY <1>1, <1>2 DEF Screens
<1> QED
  BY <1>1, <1>3 DEF Leads

\* A row of the old list that is paired stays on screen, at the end.
LEMMA LeadsPair ==
  ASSUME NEW R, NEW list, NEW D, NEW I, NEW U, NEW new, NEW screen, NEW x \in R,
         Leads(R, list, D, I, U, new, screen)
  PROVE  Leads(R, Append(list, x), D, I, U, new, Append(screen, x))
<1> DEFINE n == Len(D) + Len(I) + Len(U)
           C(k) == ChangeAt(D, I, U, k)
<1>1. PICK s : Screens(s, R, list, D, I, U, new, screen)
  BY DEF Leads
<1>2. D \in Seq(ListChange) /\ I \in Seq(ListChange) /\ U \in Seq(ListChange)
  BY DEF Leads
<1>3. \A k \in 1 .. n : C(k) \in ListChange
  BY <1>2, ResultIs
<1>4. n \in Nat /\ Len(D) + Len(I) \in 0 .. n
  BY <1>2
<1>5. /\ s \in [0 .. n -> Seq(R)] /\ s[0] = list /\ s[n] = screen
      /\ \A k \in 1 .. n : Fits(C(k), s[k - 1], new, R) /\ s[k] = ApplyChange(s[k - 1], C(k), new)
      /\ \A k \in Len(D) + Len(I) .. n : Len(s[k]) = Len(screen)
  BY <1>1 DEF Screens
<1> DEFINE t == [k \in 0 .. n |-> Append(s[k], x)]
<1> HIDE DEF C, n
<1>6. t \in [0 .. n -> Seq(R)] /\ \A k \in 0 .. n : t[k] = Append(s[k], x)
  BY <1>5, AppendProperties
<1>7. ASSUME NEW k \in 1 .. n
      PROVE  Fits(C(k), t[k - 1], new, R) /\ t[k] = ApplyChange(t[k - 1], C(k), new)
  <2>1. k - 1 \in 0 .. n /\ k \in 0 .. n
    BY <1>4
  <2>2. s[k - 1] \in Seq(R) /\ t[k - 1] = Append(s[k - 1], x) /\ t[k] = Append(s[k], x)
    BY <1>5, <1>6, <2>1
  <2>3. Fits(C(k), s[k - 1], new, R) /\ s[k] = ApplyChange(s[k - 1], C(k), new)
    BY <1>5
  <2>4. C(k) \in ListChange
    BY <1>3
  <2>5. /\ Fits(C(k), Append(s[k - 1], x), new, R)
        /\ ApplyChange(Append(s[k - 1], x), C(k), new)
             = Append(ApplyChange(s[k - 1], C(k), new), x)
    BY <2>2, <2>3, <2>4, ApplyFits
  <2> QED BY <2>2, <2>3, <2>5
<1>8. ASSUME NEW k \in Len(D) + Len(I) .. n
      PROVE  Len(t[k]) = Len(Append(screen, x))
  <2>1. k \in 0 .. n /\ n \in 0 .. n
    BY <1>4
  <2>2. s[k] \in Seq(R) /\ screen \in Seq(R) /\ Len(s[k]) = Len(screen)
    BY <1>5, <2>1
  <2> QED BY <1>6, <2>1, <2>2, AppendProperties
<1>9. t[0] = Append(list, x) /\ t[n] = Append(screen, x)
  BY <1>4, <1>5, <1>6
<1> HIDE DEF t
<1>10. Screens(t, R, Append(list, x), D, I, U, new, Append(screen, x))
  BY <1>6, <1>7, <1>8, <1>9 DEF Screens, C, n
<1> QED
  BY <1>2, <1>10 DEF Leads

\* The last row of the old list is deleted, first of all.
LEMMA LeadsDelete ==
  ASSUME NEW R, NEW list, NEW D, NEW I, NEW U, NEW new, NEW screen, NEW x \in R,
         Leads(R, list, D, I, U, new, screen)
  PROVE  Leads(R, Append(list, x), Append(D, Delete(Len(list))), I, U, new, screen)
<1> DEFINE d == Len(D)
           n == Len(D) + Len(I) + Len(U)
           c == Delete(Len(list))
           E == Append(D, c)
           C(k) == ChangeAt(D, I, U, k)
           B(k) == ChangeAt(E, I, U, k)
           o == Append(list, x)
<1>1. PICK s : Screens(s, R, list, D, I, U, new, screen)
  BY DEF Leads
<1>2. /\ D \in Seq(ListChange) /\ I \in Seq(ListChange) /\ U \in Seq(ListChange)
      /\ Len(I) \in Nat /\ Len(U) \in Nat
  BY DEF Leads
<1>3. n \in Nat /\ d \in Nat /\ d + Len(I) \in 0 .. n
  BY <1>2
<1>4. /\ s \in [0 .. n -> Seq(R)] /\ s[0] = list /\ s[n] = screen
      /\ \A k \in 1 .. n : Fits(C(k), s[k - 1], new, R) /\ s[k] = ApplyChange(s[k - 1], C(k), new)
      /\ \A k \in d + Len(I) .. n : Len(s[k]) = Len(screen)
  BY <1>1 DEF Screens
<1>5. list \in Seq(R) /\ Len(list) \in Nat
  BY <1>3, <1>4
<1>6. c \in ListChange
  BY <1>5 DEF Delete, ListChange
<1>7. /\ E \in Seq(ListChange) /\ Len(E) = d + 1 /\ E[d + 1] = c
      /\ \A k \in 1 .. d : E[k] = D[k]
  <2> HIDE DEF c
  <2> QED BY <1>2, <1>6, AppendProperties
<1> HIDE DEF E
<1>8. B(1) = c
  BY <1>3, <1>7 DEF ChangeAt
<1>9. ASSUME NEW k \in 2 .. n + 1 PROVE B(k) = C(k - 1)
  <2>1. k \in Int /\ d \in Nat /\ Len(I) \in Nat
    BY <1>2
  <2>2. CASE k <= d + 1
    <3>1. B(k) = E[(d + 1) + 1 - k]
      BY <1>7, <2>2 DEF ChangeAt
    <3>2. C(k - 1) = D[d + 1 - (k - 1)]
      BY <2>1, <2>2 DEF ChangeAt
    <3>3. (d + 1) + 1 - k = d + 1 - (k - 1) /\ d + 1 - (k - 1) \in 1 .. d
      BY <2>1, <2>2
    <3> QED BY <1>7, <3>1, <3>2, <3>3
  <2>3. CASE d + 1 < k /\ k <= d + 1 + Len(I)
    <3>1. B(k) = I[k - (d + 1)]
      BY <1>7, <2>1, <2>3 DEF ChangeAt
    <3>2. C(k - 1) = I[(k - 1) - d]
      BY <2>1, <2>3 DEF ChangeAt
    <3>3. k - (d + 1) = (k - 1) - d
      BY <2>1
    <3> QED BY <3>1, <3>2, <3>3
  <2>4. CASE d + 1 + Len(I) < k
    <3>1. B(k) = U[k - (d + 1) - Len(I)]
      BY <1>7, <2>1, <2>4 DEF ChangeAt
    <3>2. C(k - 1) = U[(k - 1) - d - Len(I)]
      BY <2>1, <2>4 DEF ChangeAt
    <3>3. k - (d + 1) - Len(I) = (k - 1) - d - Len(I)
      BY <2>1
    <3> QED BY <3>1, <3>2, <3>3
  <2> QED BY <2>1, <2>2, <2>3, <2>4
<1>10. o \in Seq(R) /\ Len(o) = Len(list) + 1
  BY <1>5, AppendProperties
<1>11. Fits(c, o, new, R) /\ ApplyChange(o, c, new) = list
  <2>1. IsRemoval(c, o) /\ c.from_index + 1 = Len(o)
    BY <1>5, <1>10 DEF IsRemoval, Delete
  <2> HIDE DEF c, o
  <2>2. ApplyChange(o, c, new) = RemoveAt(o, Len(o))
    BY <1>6, <1>10, <2>1, ApplyIs
  <2>3. RemoveAt(o, Len(o)) = list
    <3>1. Len(o) \in 1 .. Len(o)
      BY <1>5, <1>10
    <3> DEFINE r == RemoveAt(o, Len(o))
    <3>2. /\ r \in Seq(R) /\ Len(r) = Len(o) - 1
          /\ \A i \in 1 .. Len(o) - 1 : r[i] = IF i < Len(o) THEN o[i] ELSE o[i + 1]
      BY <1>10, <3>1, RemoveAtIs
    <3> HIDE DEF r
    <3>3. \A i \in 1 .. Len(list) : o[i] = list[i]
      BY <1>5, AppendProperties DEF o
    <3>4. Len(r) = Len(list) /\ \A i \in 1 .. Len(list) : r[i] = list[i]
      BY <1>5, <1>10, <3>2, <3>3
    <3>5. r = list
      BY <1>5, <3>2, <3>4, SeqEqual
    <3> QED BY <3>5 DEF r
  <2> QED BY <2>1, <2>2, <2>3 DEF Fits
<1> DEFINE t == [k \in 0 .. n + 1 |-> IF k = 0 THEN o ELSE s[k - 1]]
<1> HIDE DEF B, C, n, c, o
<1>12. /\ t[0] = o /\ \A k \in 1 .. n + 1 : t[k] = s[k - 1]
       /\ \A k \in 1 .. n + 1 : k - 1 \in 0 .. n
  BY <1>3
<1>13. t \in [0 .. n + 1 -> Seq(R)]
  BY <1>3, <1>4, <1>10
<1> HIDE DEF t
<1>14. ASSUME NEW k \in 1 .. n + 1
       PROVE  Fits(B(k), t[k - 1], new, R) /\ t[k] = ApplyChange(t[k - 1], B(k), new)
  <2>1. CASE k = 1
    BY <1>3, <1>4, <1>8, <1>11, <1>12, <2>1
  <2>2. CASE k \in 2 .. n + 1
    <3>1. k - 1 \in 1 .. n /\ k - 1 \in 1 .. n + 1
      BY <1>3, <2>2
    <3>2. t[k - 1] = s[(k - 1) - 1] /\ t[k] = s[k - 1]
      BY <1>12, <3>1
    <3>3. Fits(C(k - 1), s[(k - 1) - 1], new, R) /\ s[k - 1] = ApplyChange(s[(k - 1) - 1], C(k - 1), new)
      BY <1>4, <3>1
    <3> QED BY <1>9, <2>2, <3>2, <3>3
  <2> QED BY <1>3, <2>1, <2>2
<1>15. \A k \in (d + 1) + Len(I) .. n + 1 : Len(t[k]) = Len(screen)
  <2> TAKE k \in (d + 1) + Len(I) .. n + 1
  <2>1. k - 1 \in d + Len(I) .. n /\ k \in 1 .. n + 1
    BY <1>2, <1>3
  <2> QED BY <1>4, <1>12, <2>1
<1>16. t[n + 1] = screen
  <2>1. n + 1 \in 1 .. n + 1 /\ (n + 1) - 1 = n
    BY <1>3
  <2> QED BY <1>4, <1>12, <2>1
<1>17. Len(E) + Len(I) + Len(U) = n + 1
  BY <1>2, <1>3, <1>7 DEF n
<1>18. Screens(t, R, o, E, I, U, new, screen)
  BY <1>7, <1>12, <1>13, <1>14, <1>15, <1>16, <1>17 DEF Screens, B
<1> QED
  BY <1>2, <1>7, <1>18 DEF Leads, E, c, o

\* The next row of the new list is inserted at the end, before the updates.
LEMMA LeadsInsert ==
  ASSUME NEW R, NEW list, NEW D, NEW I, NEW U, NEW new, NEW screen,
         Leads(R, list, D, I, U, new, screen), new[Len(screen) + 1] \in R
  PROVE  Leads(R, list, D, Append(I, Insert(Len(screen))), U, new,
               Append(screen, new[Len(screen) + 1]))
<1> DEFINE m == Len(D) + Len(I)
           n == Len(D) + Len(I) + Len(U)
           y == new[Len(screen) + 1]
           c == Insert(Len(screen))
           J == Append(I, c)
           C(k) == ChangeAt(D, I, U, k)
           B(k) == ChangeAt(D, J, U, k)
           o == Append(screen, y)
<1>1. PICK s : Screens(s, R, list, D, I, U, new, screen)
  BY DEF Leads
<1>2. /\ D \in Seq(ListChange) /\ I \in Seq(ListChange) /\ U \in Seq(ListChange)
      /\ Len(D) \in Nat /\ Len(I) \in Nat /\ Len(U) \in Nat
  BY DEF Leads
<1>3. n \in Nat /\ m \in 0 .. n /\ n - m = Len(U)
  BY <1>2
<1>4. /\ s \in [0 .. n -> Seq(R)] /\ s[0] = list /\ s[n] = screen
      /\ \A k \in 1 .. n : Fits(C(k), s[k - 1], new, R) /\ s[k] = ApplyChange(s[k - 1], C(k), new)
      /\ \A k \in m .. n : Len(s[k]) = Len(screen)
  BY <1>1 DEF Screens
<1>5. screen \in Seq(R) /\ Len(screen) \in Nat
  BY <1>3, <1>4
<1>6. c \in ListChange
  BY <1>5 DEF Insert, ListChange
<1>7. /\ J \in Seq(ListChange) /\ Len(J) = Len(I) + 1 /\ J[Len(I) + 1] = c
      /\ \A k \in 1 .. Len(I) : J[k] = I[k]
  <2> HIDE DEF c
  <2> QED BY <1>2, <1>6, AppendProperties
<1>8. \A k \in 1 .. n : C(k) \in ListChange
  BY <1>2, ResultIs
<1> HIDE DEF J
<1>9. B(m + 1) = c
  BY <1>2, <1>7 DEF ChangeAt
<1>10. ASSUME NEW k \in 1 .. m PROVE B(k) = C(k)
  <2>1. CASE k <= Len(D)
    BY <2>1 DEF ChangeAt
  <2>2. CASE Len(D) < k
    <3>1. B(k) = J[k - Len(D)] /\ C(k) = I[k - Len(D)] /\ k - Len(D) \in 1 .. Len(I)
      BY <1>2, <1>7, <2>2 DEF ChangeAt
    <3> QED BY <1>7, <3>1
  <2> QED BY <1>2, <2>1, <2>2
<1>11. ASSUME NEW k \in m + 2 .. n + 1 PROVE B(k) = C(k - 1)
  <2>1. B(k) = U[k - Len(D) - (Len(I) + 1)]
    BY <1>2, <1>7 DEF ChangeAt
  <2>2. C(k - 1) = U[(k - 1) - Len(D) - Len(I)]
    BY <1>2 DEF ChangeAt
  <2>3. k - Len(D) - (Len(I) + 1) = (k - 1) - Len(D) - Len(I)
    BY <1>2
  <2> QED BY <2>1, <2>2, <2>3
<1>12. ASSUME NEW u \in Seq(R), Len(u) = Len(screen)
       PROVE  Fits(c, u, new, R) /\ ApplyChange(u, c, new) = Append(u, y)
  <2>1. IsInsertion(c, u, new, R) /\ c.to_index + 1 = Len(u) + 1 /\ y \in R
    BY <1>5, <1>12 DEF IsInsertion, Insert
  <2>2. new[c.to_index + 1] = y
    BY <1>12, <2>1
  <2> HIDE DEF c, y
  <2>3. ApplyChange(u, c, new) = InsertAt(u, Len(u) + 1, y)
    BY <1>6, <2>1, <2>2, ApplyIs
  <2>4. InsertAt(u, Len(u) + 1, y) = Append(u, y)
    <3>1. Len(u) \in Nat /\ Len(u) + 1 \in 1 .. Len(u) + 1
      OBVIOUS
    <3> DEFINE r == InsertAt(u, Len(u) + 1, y)
               a == Append(u, y)
    <3>2. /\ r \in Seq(R) /\ Len(r) = Len(u) + 1
          /\ \A i \in 1 .. Len(u) + 1 :
               r[i] = IF i < Len(u) + 1 THEN u[i] ELSE IF i = Len(u) + 1 THEN y ELSE u[i - 1]
      <4> DEFINE p == Len(u) + 1
      <4>1. y \in R /\ p \in 1 .. Len(u) + 1
        BY <2>1
      <4> HIDE DEF p
      <4>2. /\ InsertAt(u, p, y) \in Seq(R) /\ Len(InsertAt(u, p, y)) = Len(u) + 1
            /\ \A i \in 1 .. Len(u) + 1 :
                 InsertAt(u, p, y)[i] = IF i < p THEN u[i] ELSE IF i = p THEN y ELSE u[i - 1]
        BY <4>1, InsertAtIs
      <4> QED BY <4>2 DEF p
    <3>3. /\ a \in Seq(R) /\ Len(a) = Len(u) + 1 /\ a[Len(u) + 1] = y
          /\ \A i \in 1 .. Len(u) : a[i] = u[i]
      BY <2>1, AppendProperties
    <3> HIDE DEF r, a
    <3>4. \A i \in 1 .. Len(r) : r[i] = a[i]
      BY <3>1, <3>2, <3>3
    <3>5. r = a
      BY <3>2, <3>3, <3>4, SeqEqual
    <3> QED BY <3>5 DEF r, a
  <2> QED BY <2>1, <2>3, <2>4 DEF Fits
<1> DEFINE t == [k \in 0 .. n + 1 |-> IF k <= m THEN s[k] ELSE Append(s[k - 1], y)]
<1>13. y \in R
  OBVIOUS
<1> HIDE DEF B, C, n, m, c, o, y
<1>14. /\ \A k \in 0 .. m : t[k] = s[k] /\ k \in 0 .. n
       /\ \A k \in m + 1 .. n + 1 : t[k] = Append(s[k - 1], y) /\ k - 1 \in 0 .. n
  BY <1>3
<1>15. t \in [0 .. n + 1 -> Seq(R)]
  <2>1. ASSUME NEW k \in 0 .. n + 1 PROVE t[k] \in Seq(R)
    <3>1. CASE k \in 0 .. m
      BY <1>4, <1>14, <3>1
    <3>2. CASE k \in m + 1 .. n + 1
      <4>1. t[k] = Append(s[k - 1], y) /\ s[k - 1] \in Seq(R)
        BY <1>4, <1>14, <3>2
      <4> HIDE DEF t
      <4> QED BY <1>13, <4>1, AppendProperties
    <3> QED BY <1>3, <3>1, <3>2
  <2> QED BY <2>1
<1> HIDE DEF t
<1>16. ASSUME NEW k \in 1 .. n + 1
       PROVE  Fits(B(k), t[k - 1], new, R) /\ t[k] = ApplyChange(t[k - 1], B(k), new)
  <2>1. CASE k \in 1 .. m
    <3>1. k - 1 \in 0 .. m /\ k \in 0 .. m /\ k \in 1 .. n
      BY <1>3, <2>1
    <3>2. t[k - 1] = s[k - 1] /\ t[k] = s[k] /\ B(k) = C(k)
      BY <1>10, <1>14, <2>1, <3>1
    <3> QED BY <1>4, <3>1, <3>2
  <2>2. CASE k = m + 1
    <3>1. m \in 0 .. m /\ m + 1 \in m + 1 .. n + 1 /\ (m + 1) - 1 = m /\ m \in m .. n
      BY <1>3
    <3>2. t[k - 1] = s[m] /\ t[k] = Append(s[m], y) /\ B(k) = c
      BY <1>9, <1>14, <2>2, <3>1
    <3>3. s[m] \in Seq(R) /\ Len(s[m]) = Len(screen)
      BY <1>3, <1>4, <3>1
    <3> QED BY <1>12, <3>2, <3>3
  <2>3. CASE k \in m + 2 .. n + 1
    <3>1. k \in m + 1 .. n + 1 /\ k - 1 \in m + 1 .. n + 1 /\ k - 1 \in 1 .. n /\ (k - 1) - 1 \in 0 .. n
      BY <1>3, <2>3
    <3>2. t[k - 1] = Append(s[(k - 1) - 1], y) /\ t[k] = Append(s[k - 1], y) /\ B(k) = C(k - 1)
      BY <1>11, <1>14, <2>3, <3>1
    <3>3. /\ s[(k - 1) - 1] \in Seq(R) /\ Fits(C(k - 1), s[(k - 1) - 1], new, R)
          /\ s[k - 1] = ApplyChange(s[(k - 1) - 1], C(k - 1), new)
      BY <1>4, <3>1
    <3>4. C(k - 1) \in ListChange
      BY <1>8, <3>1
    <3> QED BY <1>13, <3>2, <3>3, <3>4, ApplyFits
  <2> QED BY <1>3, <2>1, <2>2, <2>3
<1>17. ASSUME NEW k \in m + 1 .. n + 1 PROVE Len(t[k]) = Len(o)
  <2>1. k - 1 \in m .. n /\ k - 1 \in 0 .. n
    BY <1>3
  <2>2. s[k - 1] \in Seq(R) /\ Len(s[k - 1]) = Len(screen)
    BY <1>4, <2>1
  <2> QED BY <1>5, <1>13, <1>14, <2>2, AppendProperties DEF o
<1>18. t[0] = list /\ t[n + 1] = o
  <2>1. 0 \in 0 .. m /\ n + 1 \in m + 1 .. n + 1 /\ (n + 1) - 1 = n
    BY <1>3
  <2> QED BY <1>4, <1>14, <2>1 DEF o
<1>19. Len(D) + Len(J) + Len(U) = n + 1 /\ Len(D) + Len(J) = m + 1
  BY <1>2, <1>7 DEF n, m
<1>20. Screens(t, R, list, D, J, U, new, o)
  BY <1>15, <1>16, <1>17, <1>18, <1>19 DEF Screens, B
<1> QED
  BY <1>2, <1>7, <1>20 DEF Leads, J, c, o, y

\* A row that is on screen is replaced, last of all.
LEMMA LeadsUpdate ==
  ASSUME NEW R, NEW list, NEW D, NEW I, NEW U, NEW new, NEW screen,
         Leads(R, list, D, I, U, new, screen),
         NEW i \in Nat, NEW j \in 0 .. Len(screen) - 1, new[j + 1] \in R
  PROVE  Leads(R, list, D, I, Append(U, Update(i, j)), new,
               ReplaceAt(screen, j + 1, new[j + 1]))
<1> DEFINE m == Len(D) + Len(I)
           n == Len(D) + Len(I) + Len(U)
           c == Update(i, j)
           V == Append(U, c)
           C(k) == ChangeAt(D, I, U, k)
           B(k) == ChangeAt(D, I, V, k)
           o == ReplaceAt(screen, j + 1, new[j + 1])
<1>1. PICK s : Screens(s, R, list, D, I, U, new, screen)
  BY DEF Leads
<1>2. /\ D \in Seq(ListChange) /\ I \in Seq(ListChange) /\ U \in Seq(ListChange)
      /\ Len(D) \in Nat /\ Len(I) \in Nat /\ Len(U) \in Nat
  BY DEF Leads
<1>3. n \in Nat /\ m \in 0 .. n
  BY <1>2
<1>4. /\ s \in [0 .. n -> Seq(R)] /\ s[0] = list /\ s[n] = screen
      /\ \A k \in 1 .. n : Fits(C(k), s[k - 1], new, R) /\ s[k] = ApplyChange(s[k - 1], C(k), new)
      /\ \A k \in m .. n : Len(s[k]) = Len(screen)
  BY <1>1 DEF Screens
<1>5. screen \in Seq(R) /\ Len(screen) \in Nat
  BY <1>3, <1>4
<1>6. c \in ListChange
  BY <1>5 DEF Update, ListChange
<1>7. /\ V \in Seq(ListChange) /\ Len(V) = Len(U) + 1 /\ V[Len(U) + 1] = c
      /\ \A k \in 1 .. Len(U) : V[k] = U[k]
  <2> HIDE DEF c
  <2> QED BY <1>2, <1>6, AppendProperties
<1> HIDE DEF V
<1>8. B(n + 1) = c
  <2>1. B(n + 1) = V[(n + 1) - Len(D) - Len(I)]
    BY <1>2 DEF ChangeAt
  <2>2. (n + 1) - Len(D) - Len(I) = Len(U) + 1
    BY <1>2
  <2> QED BY <1>7, <2>1, <2>2
<1>9. ASSUME NEW k \in 1 .. n PROVE B(k) = C(k)
  <2>1. CASE k <= Len(D) + Len(I)
    BY <2>1 DEF ChangeAt
  <2>2. CASE Len(D) + Len(I) < k
    <3>1. B(k) = V[k - Len(D) - Len(I)] /\ C(k) = U[k - Len(D) - Len(I)]
      BY <1>2, <2>2 DEF ChangeAt
    <3>2. k - Len(D) - Len(I) \in 1 .. Len(U)
      BY <1>2, <2>2
    <3> QED BY <1>7, <3>1, <3>2
  <2> QED BY <1>2, <2>1, <2>2
<1>10. Fits(c, screen, new, R) /\ ApplyChange(screen, c, new) = o
  <2>1. IsReplacement(c, screen, new, R) /\ c.to_index = j
    BY <1>5 DEF IsReplacement, Update
  <2> HIDE DEF c
  <2> QED BY <1>5, <1>6, <2>1, ApplyIs DEF Fits
<1>11. o \in Seq(R) /\ Len(o) = Len(screen)
  <2> DEFINE p == j + 1
             y == new[p]
  <2>1. p \in 1 .. Len(screen) /\ y \in R
    BY <1>5
  <2> HIDE DEF p, y
  <2>2. ReplaceAt(screen, p, y) \in Seq(R) /\ Len(ReplaceAt(screen, p, y)) = Len(screen)
    BY <1>5, <2>1, ReplaceAtIs
  <2> QED BY <2>2 DEF p, y
<1> DEFINE t == [k \in 0 .. n + 1 |-> IF k <= n THEN s[k] ELSE o]
<1> HIDE DEF B, C, n, m, c, o
<1>12. (\A k \in 0 .. n : t[k] = s[k]) /\ t[n + 1] = o
  BY <1>3
<1>13. t \in [0 .. n + 1 -> Seq(R)]
  <2>1. ASSUME NEW k \in 0 .. n + 1 PROVE t[k] \in Seq(R)
    <3>1. CASE k \in 0 .. n
      BY <1>4, <1>12, <3>1
    <3>2. CASE k = n + 1
      BY <1>11, <1>12, <3>2
    <3> QED BY <1>3, <3>1, <3>2
  <2> QED BY <2>1
<1> HIDE DEF t
<1>14. ASSUME NEW k \in 1 .. n + 1
       PROVE  Fits(B(k), t[k - 1], new, R) /\ t[k] = ApplyChange(t[k - 1], B(k), new)
  <2>1. CASE k \in 1 .. n
    <3>1. k - 1 \in 0 .. n /\ k \in 0 .. n
      BY <1>3, <2>1
    <3> QED BY <1>4, <1>9, <1>12, <2>1, <3>1
  <2>2. CASE k = n + 1
    <3>1. (n + 1) - 1 = n /\ n \in 0 .. n
      BY <1>3
    <3>2. t[k - 1] = screen /\ t[k] = o /\ B(k) = c
      BY <1>4, <1>8, <1>12, <2>2, <3>1
    <3> QED BY <1>10, <3>2
  <2> QED BY <1>3, <2>1, <2>2
<1>15. ASSUME NEW k \in m .. n + 1 PROVE Len(t[k]) = Len(o)
  <2>1. CASE k \in m .. n
    <3>1. k \in 0 .. n
      BY <1>3, <2>1
    <3> QED BY <1>4, <1>11, <1>12, <2>1, <3>1
  <2>2. CASE k = n + 1
    BY <1>12, <2>2
  <2> QED BY <1>3, <2>1, <2>2
<1>16. t[0] = list
  BY <1>3, <1>4, <1>12
<1>17. Len(D) + Len(I) + Len(V) = n + 1 /\ Len(D) + Len(I) = m
  BY <1>2, <1>7 DEF n, m
<1>18. Screens(t, R, list, D, I, V, new, o)
  BY <1>12, <1>13, <1>14, <1>15, <1>16, <1>17 DEF Screens, B
<1> QED
  BY <1>2, <1>7, <1>18 DEF Leads, V, c, o

------------------------------------------------------------------------------
\* EntityDiff

\* The change F of each position in S, in order.
InOrder(S, F) == [k \in 1 .. Len(Ascending(S)) |-> F[Ascending(S)[k]]]

LEMMA InOrderIs ==
  ASSUME NEW S \in SUBSET Nat, IsFiniteSet(S), NEW F, \A i \in S : F[i] \in ListChange
  PROVE  /\ InOrder(S, F) \in Seq(ListChange)
         /\ \A x \in Nat : (\A y \in S : y < x) /\ F[x] \in ListChange =>
              InOrder(S \cup {x}, F) = Append(InOrder(S, F), F[x])
<1> DEFINE s == Ascending(S)
           m == InOrder(S, F)
<1>1. s \in Seq(S) /\ Len(s) \in Nat
  <2>1. S \in SUBSET Int
    OBVIOUS
  <2>2. s \in Seq(S)
    BY <2>1, AscendingIs
  <2> QED BY <2>2
<1>2. m = [k \in 1 .. Len(s) |-> F[s[k]]]
  BY DEF InOrder
<1> HIDE DEF s, m
<1>3. m \in Seq(ListChange) /\ Len(m) = Len(s) /\ \A k \in 1 .. Len(s) : m[k] = F[s[k]]
  <2>1. \A k \in 1 .. Len(s) : s[k] \in S
    BY <1>1, ElementOfSeq
  <2>2. \A k \in 1 .. Len(s) : F[s[k]] \in ListChange
    BY <2>1
  <2>3. m \in [1 .. Len(s) -> ListChange]
    BY <1>2, <2>2
  <2>4. m \in Seq(ListChange) /\ Len(m) = Len(s)
    BY <1>1, <2>3
  <2> QED BY <1>2, <2>4
<1>4. ASSUME NEW x \in Nat, \A y \in S : y < x, F[x] \in ListChange
      PROVE  InOrder(S \cup {x}, F) = Append(m, F[x])
  <2> DEFINE t == Append(s, x)
             a == Append(m, F[x])
             b == [k \in 1 .. Len(t) |-> F[t[k]]]
  <2>1. Ascending(S \cup {x}) = t
    <3>1. S \in SUBSET Int /\ x \in Int
      OBVIOUS
    <3> QED BY <1>4, <3>1, AscendingAdd DEF s
  <2>2. t \in Seq(Nat) /\ Len(t) = Len(s) + 1 /\ t[Len(s) + 1] = x
        /\ \A k \in 1 .. Len(s) : t[k] = s[k]
    <3>1. s \in Seq(Nat)
      BY <1>1, SeqMonotonic
    <3> QED BY <3>1, AppendProperties
  <2>3. a \in Seq(ListChange) /\ Len(a) = Len(s) + 1 /\ a[Len(s) + 1] = F[x]
        /\ \A k \in 1 .. Len(s) : a[k] = F[s[k]]
    <3>1. a \in Seq(ListChange) /\ Len(a) = Len(m) + 1 /\ a[Len(m) + 1] = F[x]
          /\ \A k \in 1 .. Len(m) : a[k] = m[k]
      BY <1>3, <1>4, AppendProperties
    <3> HIDE DEF a
    <3> QED BY <1>3, <3>1
  <2> HIDE DEF t
  <2>4. ASSUME NEW k \in 1 .. Len(t) PROVE F[t[k]] = a[k] /\ a[k] \in ListChange
    <3> HIDE DEF a
    <3>1. CASE k \in 1 .. Len(s)
      BY <2>2, <2>3, <3>1
    <3>2. CASE k = Len(s) + 1
      BY <2>2, <2>3, <3>2
    <3> QED BY <1>1, <2>2, <2>3, <3>1, <3>2
  <2>5. b = a
    <3> HIDE DEF a
    <3>1. a = [k \in 1 .. Len(t) |-> a[k]]
      BY <2>2, <2>3
    <3> QED BY <2>4, <3>1
  <2> QED BY <2>1, <2>5 DEF InOrder
<1> QED
  BY <1>3, <1>4 DEF m

LEMMA InOrderEmpty == ASSUME NEW F PROVE InOrder({}, F) = <<>>
<1>1. Len(Ascending({})) = 0
  BY AscendingEmpty
<1> QED BY <1>1 DEF InOrder

LEMMA Below == ASSUME NEW n \in Nat, NEW S \in SUBSET (0 .. n - 1)
               PROVE  S \in SUBSET Nat /\ IsFiniteSet(S) /\ \A i \in S : i < n
<1>1. IsFiniteSet(0 .. n - 1)
  BY FS_Interval
<1>2. IsFiniteSet(S)
  BY <1>1, FS_Subset
<1> QED BY <1>2

\* What the merge has found when it has read a rows of the old list and b of the new.
Match(old, new, i, j) == old[i + 1].id = new[j + 1].id
GoneUpTo(old, new, a, b) == {i \in 0 .. a - 1 : \A j \in 0 .. b - 1 : ~Match(old, new, i, j)}
CameUpTo(old, new, a, b) == {j \in 0 .. b - 1 : \A i \in 0 .. a - 1 : ~Match(old, new, i, j)}
DifferUpTo(old, new, a, b) ==
  {j \in 0 .. b - 1 : \E i \in 0 .. a - 1 : Match(old, new, i, j) /\ old[i + 1] # new[j + 1]}

DeleteOf == [i \in Nat |-> Delete(i)]
InsertOf == [j \in Nat |-> Insert(j)]
UpdateOf(old, new) ==
  [j \in 0 .. Len(new) - 1 |-> Update(CHOOSE i \in OldAt(old, new, j) : TRUE, j)]

LEMMA EntityDiffIs ==
  ASSUME NEW R, NEW old \in Seq(R), NEW new \in Seq(R)
  PROVE  EntityDiff(old, new) =
           Reverse(InOrder(GoneUpTo(old, new, Len(old), Len(new)), DeleteOf))
             \o InOrder(CameUpTo(old, new, Len(old), Len(new)), InsertOf)
             \o InOrder(DifferUpTo(old, new, Len(old), Len(new)), UpdateOf(old, new))
<1> DEFINE a == Len(old)
           b == Len(new)
<1>1. a \in Nat /\ b \in Nat
  OBVIOUS
<1>2. Gone(old, new) = GoneUpTo(old, new, a, b)
  BY DEF Gone, GoneUpTo, OldAt, Match
<1>3. Came(old, new) = CameUpTo(old, new, a, b)
  BY DEF Came, CameUpTo, OldAt, Match
<1>4. Differ(old, new) = DifferUpTo(old, new, a, b)
  BY DEF Differ, DifferUpTo, OldAt, Match
<1> DEFINE D(S) == [k \in 1 .. Len(Ascending(S)) |-> Delete(Ascending(S)[k])]
           I(S) == [k \in 1 .. Len(Ascending(S)) |-> Insert(Ascending(S)[k])]
           U(S) == [k \in 1 .. Len(Ascending(S)) |->
                      Update(CHOOSE i \in OldAt(old, new, Ascending(S)[k]) : TRUE, Ascending(S)[k])]
<1>5. EntityDiff(old, new) =
        Reverse(D(Gone(old, new))) \o I(Came(old, new)) \o U(Differ(old, new))
  BY DEF EntityDiff
<1>6. ASSUME NEW n \in Nat, NEW S \in SUBSET (0 .. n - 1), NEW k \in 1 .. Len(Ascending(S))
      PROVE  Ascending(S)[k] \in 0 .. n - 1
  <2>1. S \in SUBSET Nat /\ IsFiniteSet(S)
    BY Below
  <2>2. S \in SUBSET Int
    BY <2>1
  <2>3. Ascending(S) \in Seq(S)
    BY <2>1, <2>2, AscendingIs
  <2>4. Ascending(S)[k] \in S
    BY <2>3, ElementOfSeq
  <2> QED BY <2>4
<1>7. ASSUME NEW n \in Nat, NEW S \in SUBSET (0 .. n - 1)
      PROVE  D(S) = InOrder(S, DeleteOf) /\ I(S) = InOrder(S, InsertOf)
  <2>1. ASSUME NEW k \in 1 .. Len(Ascending(S)) PROVE Ascending(S)[k] \in Nat
    <3>1. Ascending(S)[k] \in 0 .. n - 1
      BY <1>6
    <3> QED BY <3>1
  <2> QED BY <2>1 DEF InOrder, DeleteOf, InsertOf
<1>8. ASSUME NEW S \in SUBSET (0 .. b - 1)
      PROVE  U(S) = InOrder(S, UpdateOf(old, new))
  <2>1. \A k \in 1 .. Len(Ascending(S)) : Ascending(S)[k] \in 0 .. b - 1
    BY <1>1, <1>6
  <2> QED BY <2>1 DEF InOrder, UpdateOf
<1>9. /\ GoneUpTo(old, new, a, b) \in SUBSET (0 .. a - 1)
      /\ CameUpTo(old, new, a, b) \in SUBSET (0 .. b - 1)
      /\ DifferUpTo(old, new, a, b) \in SUBSET (0 .. b - 1)
  BY DEF GoneUpTo, CameUpTo, DifferUpTo
<1> HIDE DEF D, I, U, a, b
<1>10. /\ D(Gone(old, new)) = InOrder(GoneUpTo(old, new, a, b), DeleteOf)
       /\ I(Came(old, new)) = InOrder(CameUpTo(old, new, a, b), InsertOf)
       /\ U(Differ(old, new)) = InOrder(DifferUpTo(old, new, a, b), UpdateOf(old, new))
  BY <1>1, <1>2, <1>3, <1>4, <1>7, <1>8, <1>9
<1> QED
  BY <1>5, <1>10 DEF a, b

\* One more row of the old list, of the new list, or a pair of them.
LEMMA StepOld ==
  ASSUME NEW old, NEW new, NEW a \in Nat, NEW b \in Nat,
         \A j \in 0 .. b - 1 : ~Match(old, new, a, j)
  PROVE  /\ GoneUpTo(old, new, a + 1, b) = GoneUpTo(old, new, a, b) \cup {a}
         /\ CameUpTo(old, new, a + 1, b) = CameUpTo(old, new, a, b)
         /\ DifferUpTo(old, new, a + 1, b) = DifferUpTo(old, new, a, b)
<1>1. /\ 0 .. (a + 1) - 1 = (0 .. a - 1) \cup {a} /\ a \notin 0 .. a - 1
      /\ 0 .. (b + 1) - 1 = (0 .. b - 1) \cup {b} /\ b \notin 0 .. b - 1
  OBVIOUS
<1>2. GoneUpTo(old, new, a + 1, b) = GoneUpTo(old, new, a, b) \cup {a}
  BY <1>1 DEF GoneUpTo
<1>3. CameUpTo(old, new, a + 1, b) = CameUpTo(old, new, a, b)
  BY <1>1 DEF CameUpTo
<1>4. DifferUpTo(old, new, a + 1, b) = DifferUpTo(old, new, a, b)
  BY <1>1 DEF DifferUpTo
<1> QED BY <1>2, <1>3, <1>4

LEMMA StepNew ==
  ASSUME NEW old, NEW new, NEW a \in Nat, NEW b \in Nat,
         \A i \in 0 .. a - 1 : ~Match(old, new, i, b)
  PROVE  /\ GoneUpTo(old, new, a, b + 1) = GoneUpTo(old, new, a, b)
         /\ CameUpTo(old, new, a, b + 1) = CameUpTo(old, new, a, b) \cup {b}
         /\ DifferUpTo(old, new, a, b + 1) = DifferUpTo(old, new, a, b)
<1>1. /\ 0 .. (a + 1) - 1 = (0 .. a - 1) \cup {a} /\ a \notin 0 .. a - 1
      /\ 0 .. (b + 1) - 1 = (0 .. b - 1) \cup {b} /\ b \notin 0 .. b - 1
  OBVIOUS
<1>2. GoneUpTo(old, new, a, b + 1) = GoneUpTo(old, new, a, b)
  BY <1>1 DEF GoneUpTo
<1>3. CameUpTo(old, new, a, b + 1) = CameUpTo(old, new, a, b) \cup {b}
  BY <1>1 DEF CameUpTo
<1>4. DifferUpTo(old, new, a, b + 1) = DifferUpTo(old, new, a, b)
  BY <1>1 DEF DifferUpTo
<1> QED BY <1>2, <1>3, <1>4

LEMMA StepPair ==
  ASSUME NEW old, NEW new, NEW a \in Nat, NEW b \in Nat,
         Match(old, new, a, b),
         \A j \in 0 .. b - 1 : ~Match(old, new, a, j),
         \A i \in 0 .. a - 1 : ~Match(old, new, i, b)
  PROVE  /\ GoneUpTo(old, new, a + 1, b + 1) = GoneUpTo(old, new, a, b)
         /\ CameUpTo(old, new, a + 1, b + 1) = CameUpTo(old, new, a, b)
         /\ old[a + 1] = new[b + 1] =>
              \A j : j \in DifferUpTo(old, new, a + 1, b + 1) <=> j \in DifferUpTo(old, new, a, b)
         /\ old[a + 1] # new[b + 1] =>
              \A j : j \in DifferUpTo(old, new, a + 1, b + 1) <=>
                       j \in DifferUpTo(old, new, a, b) \/ j = b
<1>1. /\ 0 .. (a + 1) - 1 = (0 .. a - 1) \cup {a} /\ a \notin 0 .. a - 1
      /\ 0 .. (b + 1) - 1 = (0 .. b - 1) \cup {b} /\ b \notin 0 .. b - 1
  OBVIOUS
<1>2. GoneUpTo(old, new, a + 1, b + 1) = GoneUpTo(old, new, a, b)
  BY <1>1 DEF GoneUpTo
<1>3. CameUpTo(old, new, a + 1, b + 1) = CameUpTo(old, new, a, b)
  BY <1>1 DEF CameUpTo
<1>4. CASE old[a + 1] = new[b + 1]
  <2>1. DifferUpTo(old, new, a + 1, b + 1) = DifferUpTo(old, new, a, b)
    BY <1>1, <1>4 DEF DifferUpTo
  <2> QED BY <1>2, <1>3, <1>4, <2>1
<1>5. CASE old[a + 1] # new[b + 1]
  <2>1. DifferUpTo(old, new, a + 1, b + 1) = DifferUpTo(old, new, a, b) \cup {b}
    BY <1>1, <1>5 DEF DifferUpTo
  <2> QED BY <1>2, <1>3, <1>5, <2>1
<1> QED BY <1>4, <1>5

\* The lists of changes so far, and what one more position adds to them.
LEMMA DeletesInOrder ==
  ASSUME NEW n \in Nat, NEW S \in SUBSET (0 .. n - 1)
  PROVE  /\ InOrder(S, DeleteOf) \in Seq(ListChange)
         /\ InOrder(S \cup {n}, DeleteOf) = Append(InOrder(S, DeleteOf), Delete(n))
<1>1. \A i \in Nat : DeleteOf[i] = Delete(i) /\ Delete(i) \in ListChange
  BY DEF DeleteOf, Delete, ListChange
<1>2. S \in SUBSET Nat /\ IsFiniteSet(S) /\ \A i \in S : i < n
  BY Below
<1>3. \A i \in S : DeleteOf[i] \in ListChange
  BY <1>1, <1>2
<1>4. /\ InOrder(S, DeleteOf) \in Seq(ListChange)
      /\ \A x \in Nat : (\A y \in S : y < x) /\ DeleteOf[x] \in ListChange =>
           InOrder(S \cup {x}, DeleteOf) = Append(InOrder(S, DeleteOf), DeleteOf[x])
  BY <1>2, <1>3, InOrderIs
<1> QED
  BY <1>1, <1>2, <1>4

LEMMA InsertsInOrder ==
  ASSUME NEW n \in Nat, NEW S \in SUBSET (0 .. n - 1)
  PROVE  /\ InOrder(S, InsertOf) \in Seq(ListChange)
         /\ InOrder(S \cup {n}, InsertOf) = Append(InOrder(S, InsertOf), Insert(n))
<1>1. \A i \in Nat : InsertOf[i] = Insert(i) /\ Insert(i) \in ListChange
  BY DEF InsertOf, Insert, ListChange
<1>2. S \in SUBSET Nat /\ IsFiniteSet(S) /\ \A i \in S : i < n
  BY Below
<1>3. \A i \in S : InsertOf[i] \in ListChange
  BY <1>1, <1>2
<1>4. /\ InOrder(S, InsertOf) \in Seq(ListChange)
      /\ \A x \in Nat : (\A y \in S : y < x) /\ InsertOf[x] \in ListChange =>
           InOrder(S \cup {x}, InsertOf) = Append(InOrder(S, InsertOf), InsertOf[x])
  BY <1>2, <1>3, InOrderIs
<1> QED
  BY <1>1, <1>2, <1>4

LEMMA UpdatesInOrder ==
  ASSUME NEW R, NEW old \in Seq(R), NEW new \in Seq(R),
         NEW a \in 0 .. Len(old), NEW b \in 0 .. Len(new)
  PROVE  /\ InOrder(DifferUpTo(old, new, a, b), UpdateOf(old, new)) \in Seq(ListChange)
         /\ \A i \in OldAt(old, new, b) : b < Len(new) =>
              InOrder(DifferUpTo(old, new, a, b) \cup {b}, UpdateOf(old, new)) =
                Append(InOrder(DifferUpTo(old, new, a, b), UpdateOf(old, new)),
                       UpdateOf(old, new)[b])
<1> DEFINE S == DifferUpTo(old, new, a, b)
           F == UpdateOf(old, new)
<1>1. S \in SUBSET (0 .. b - 1) /\ a \in Nat /\ b \in Nat /\ Len(new) \in Nat /\ Len(old) \in Nat
  BY DEF DifferUpTo
<1>2. ASSUME NEW j \in 0 .. Len(new) - 1, OldAt(old, new, j) # {}
      PROVE  F[j] \in ListChange
  <2>1. (CHOOSE i \in OldAt(old, new, j) : TRUE) \in OldAt(old, new, j)
    BY <1>2
  <2>2. (CHOOSE i \in OldAt(old, new, j) : TRUE) \in Nat
    BY <2>1 DEF OldAt
  <2> QED BY <2>2 DEF UpdateOf, Update, ListChange
<1>3. ASSUME NEW j \in S PROVE j \in 0 .. Len(new) - 1 /\ OldAt(old, new, j) # {}
  <2>1. j \in 0 .. b - 1 /\ \E i \in 0 .. a - 1 : Match(old, new, i, j)
    BY DEF DifferUpTo
  <2>2. PICK i \in 0 .. a - 1 : Match(old, new, i, j)
    BY <2>1
  <2>3. i \in OldAt(old, new, j)
    BY <1>1, <2>2 DEF OldAt, Match
  <2> QED BY <1>1, <2>1, <2>3
<1> HIDE DEF S, F
<1>4. S \in SUBSET Nat /\ IsFiniteSet(S) /\ \A i \in S : i < b
  BY <1>1, Below
<1>5. \A j \in S : F[j] \in ListChange
  BY <1>2, <1>3
<1>6. /\ InOrder(S, F) \in Seq(ListChange)
      /\ \A x \in Nat : (\A y \in S : y < x) /\ F[x] \in ListChange =>
           InOrder(S \cup {x}, F) = Append(InOrder(S, F), F[x])
  BY <1>4, <1>5, InOrderIs
<1>7. ASSUME NEW i \in OldAt(old, new, b), b < Len(new)
      PROVE  InOrder(S \cup {b}, F) = Append(InOrder(S, F), F[b])
  <2>1. F[b] \in ListChange
    BY <1>1, <1>2, <1>7
  <2> QED BY <1>1, <1>4, <1>6, <2>1
<1> QED
  BY <1>6, <1>7 DEF S, F

\* Lists in the order of a unique id, as s_list_stmt and the ids of the table give them.
SortedById(list) ==
  /\ \A i \in 1 .. Len(list) : list[i].id \in Int
  /\ \A i, j \in 1 .. Len(list) : i < j => list[i].id < list[j].id

LEMMA SubSeqAdd ==
  ASSUME NEW R, NEW s \in Seq(R), NEW n \in 0 .. Len(s) - 1
  PROVE  /\ SubSeq(s, 1, n + 1) = Append(SubSeq(s, 1, n), s[n + 1])
         /\ SubSeq(s, 1, n) \in Seq(R) /\ Len(SubSeq(s, 1, n)) = n
         /\ s[n + 1] \in R
<1> DEFINE a == SubSeq(s, 1, n + 1)
           b == SubSeq(s, 1, n)
           c == Append(b, s[n + 1])
<1>1. n \in Nat /\ n + 1 \in 1 .. Len(s)
  OBVIOUS
<1>2. s[n + 1] \in R
  BY <1>1, ElementOfSeq
<1>3. a \in Seq(R) /\ Len(a) = n + 1 /\ \A i \in 1 .. n + 1 : a[i] = s[i]
  BY <1>1, SubSeqProperties
<1>4. b \in Seq(R) /\ Len(b) = n /\ \A i \in 1 .. n : b[i] = s[i]
  BY <1>1, SubSeqProperties
<1> HIDE DEF a, b
<1>5. c \in Seq(R) /\ Len(c) = n + 1 /\ c[n + 1] = s[n + 1] /\ \A i \in 1 .. n : c[i] = b[i]
  BY <1>2, <1>4, AppendProperties
<1> HIDE DEF c
<1>6. \A i \in 1 .. Len(a) : a[i] = c[i]
  BY <1>1, <1>3, <1>4, <1>5
<1>7. a = c
  BY <1>3, <1>5, <1>6, SeqEqual
<1> QED
  BY <1>2, <1>4, <1>7 DEF a, b, c

\* The changes up to (a, b) show the first b rows of the new list instead of the first a
\* rows of the old one.
ShowsUpTo(R, old, new, a, b) ==
  Leads(R, SubSeq(old, 1, a),
        InOrder(GoneUpTo(old, new, a, b), DeleteOf),
        InOrder(CameUpTo(old, new, a, b), InsertOf),
        InOrder(DifferUpTo(old, new, a, b), UpdateOf(old, new)),
        new, SubSeq(new, 1, b))

LEMMA ShowsDelete ==
  ASSUME NEW R, NEW old \in Seq(R), NEW new \in Seq(R),
         NEW a \in Nat, NEW b \in Nat, a < Len(old), b =< Len(new),
         ShowsUpTo(R, old, new, a, b), \A j \in 0 .. b - 1 : ~Match(old, new, a, j)
  PROVE  ShowsUpTo(R, old, new, a + 1, b)
<1>1. a \in 0 .. Len(old) - 1
  OBVIOUS
<1> DEFINE D == InOrder(GoneUpTo(old, new, a, b), DeleteOf)
           I == InOrder(CameUpTo(old, new, a, b), InsertOf)
           U == InOrder(DifferUpTo(old, new, a, b), UpdateOf(old, new))
           list == SubSeq(old, 1, a)
<1>2. list \in Seq(R) /\ Len(list) = a /\ old[a + 1] \in R
      /\ SubSeq(old, 1, a + 1) = Append(list, old[a + 1])
  BY <1>1, SubSeqAdd
<1>3. /\ InOrder(GoneUpTo(old, new, a + 1, b), DeleteOf) = Append(D, Delete(a))
      /\ InOrder(CameUpTo(old, new, a + 1, b), InsertOf) = I
      /\ InOrder(DifferUpTo(old, new, a + 1, b), UpdateOf(old, new)) = U
  <2>1. /\ GoneUpTo(old, new, a + 1, b) = GoneUpTo(old, new, a, b) \cup {a}
        /\ CameUpTo(old, new, a + 1, b) = CameUpTo(old, new, a, b)
        /\ DifferUpTo(old, new, a + 1, b) = DifferUpTo(old, new, a, b)
    BY StepOld
  <2>2. InOrder(GoneUpTo(old, new, a, b) \cup {a}, DeleteOf) = Append(D, Delete(a))
    <3> DEFINE S == GoneUpTo(old, new, a, b)
    <3>1. S \in SUBSET (0 .. a - 1)
      BY DEF GoneUpTo
    <3> HIDE DEF S
    <3>2. InOrder(S \cup {a}, DeleteOf) = Append(InOrder(S, DeleteOf), Delete(a))
      BY <3>1, DeletesInOrder
    <3> QED BY <3>2 DEF S
  <2> QED BY <2>1, <2>2
<1>4. Leads(R, list, D, I, U, new, SubSeq(new, 1, b))
  BY DEF ShowsUpTo
<1> HIDE DEF D, I, U, list
<1>5. Leads(R, Append(list, old[a + 1]), Append(D, Delete(a)), I, U, new, SubSeq(new, 1, b))
  <2>1. Leads(R, Append(list, old[a + 1]), Append(D, Delete(Len(list))), I, U, new, SubSeq(new, 1, b))
    BY <1>2, <1>4, LeadsDelete
  <2> QED BY <1>2, <2>1
<1> QED
  BY <1>2, <1>3, <1>5 DEF ShowsUpTo, list

LEMMA ShowsInsert ==
  ASSUME NEW R, NEW old \in Seq(R), NEW new \in Seq(R),
         NEW a \in Nat, NEW b \in Nat, a =< Len(old), b < Len(new),
         ShowsUpTo(R, old, new, a, b), \A i \in 0 .. a - 1 : ~Match(old, new, i, b)
  PROVE  ShowsUpTo(R, old, new, a, b + 1)
<1>1. b \in 0 .. Len(new) - 1
  OBVIOUS
<1> DEFINE D == InOrder(GoneUpTo(old, new, a, b), DeleteOf)
           I == InOrder(CameUpTo(old, new, a, b), InsertOf)
           U == InOrder(DifferUpTo(old, new, a, b), UpdateOf(old, new))
           list == SubSeq(old, 1, a)
           screen == SubSeq(new, 1, b)
<1>2. screen \in Seq(R) /\ Len(screen) = b /\ new[b + 1] \in R
      /\ SubSeq(new, 1, b + 1) = Append(screen, new[b + 1])
  BY <1>1, SubSeqAdd
<1>3. /\ InOrder(GoneUpTo(old, new, a, b + 1), DeleteOf) = D
      /\ InOrder(CameUpTo(old, new, a, b + 1), InsertOf) = Append(I, Insert(b))
      /\ InOrder(DifferUpTo(old, new, a, b + 1), UpdateOf(old, new)) = U
  <2>1. /\ GoneUpTo(old, new, a, b + 1) = GoneUpTo(old, new, a, b)
        /\ CameUpTo(old, new, a, b + 1) = CameUpTo(old, new, a, b) \cup {b}
        /\ DifferUpTo(old, new, a, b + 1) = DifferUpTo(old, new, a, b)
    BY StepNew
  <2>2. InOrder(CameUpTo(old, new, a, b) \cup {b}, InsertOf) = Append(I, Insert(b))
    <3> DEFINE S == CameUpTo(old, new, a, b)
    <3>1. S \in SUBSET (0 .. b - 1)
      BY DEF CameUpTo
    <3> HIDE DEF S
    <3>2. InOrder(S \cup {b}, InsertOf) = Append(InOrder(S, InsertOf), Insert(b))
      BY <3>1, InsertsInOrder
    <3> QED BY <3>2 DEF S
  <2> QED BY <2>1, <2>2
<1>4. Leads(R, list, D, I, U, new, screen)
  BY DEF ShowsUpTo
<1> HIDE DEF D, I, U, list, screen
<1>5. Leads(R, list, D, Append(I, Insert(b)), U, new, Append(screen, new[b + 1]))
  <2>1. new[Len(screen) + 1] \in R
    BY <1>2
  <2>2. Leads(R, list, D, Append(I, Insert(Len(screen))), U, new, Append(screen, new[Len(screen) + 1]))
    BY <1>4, <2>1, LeadsInsert
  <2> QED BY <1>2, <2>2
<1> QED
  BY <1>2, <1>3, <1>5 DEF ShowsUpTo, list, screen

LEMMA ShowsPair ==
  ASSUME NEW R, NEW old \in Seq(R), NEW new \in Seq(R),
         NEW a \in Nat, NEW b \in Nat, a < Len(old), b < Len(new),
         ShowsUpTo(R, old, new, a, b), Match(old, new, a, b),
         \A j \in 0 .. b - 1 : ~Match(old, new, a, j),
         \A i \in 0 .. a - 1 : ~Match(old, new, i, b)
  PROVE  ShowsUpTo(R, old, new, a + 1, b + 1)
<1>1. /\ a \in 0 .. Len(old) /\ a \in 0 .. Len(old) - 1
      /\ b \in 0 .. Len(new) /\ b \in 0 .. Len(new) - 1
  OBVIOUS
<1> DEFINE D == InOrder(GoneUpTo(old, new, a, b), DeleteOf)
           I == InOrder(CameUpTo(old, new, a, b), InsertOf)
           U == InOrder(DifferUpTo(old, new, a, b), UpdateOf(old, new))
           list == SubSeq(old, 1, a)
           screen == SubSeq(new, 1, b)
           x == old[a + 1]
           y == new[b + 1]
<1>2. /\ screen \in Seq(R) /\ Len(screen) = b /\ y \in R
      /\ SubSeq(new, 1, b + 1) = Append(screen, y)
  BY <1>1, SubSeqAdd
<1>3. x \in R /\ SubSeq(old, 1, a + 1) = Append(list, x)
  BY <1>1, SubSeqAdd
<1>4. a \in OldAt(old, new, b)
  BY <1>1 DEF OldAt, Match
<1>5. /\ InOrder(GoneUpTo(old, new, a + 1, b + 1), DeleteOf) = D
      /\ InOrder(CameUpTo(old, new, a + 1, b + 1), InsertOf) = I
      /\ InOrder(DifferUpTo(old, new, a + 1, b + 1), UpdateOf(old, new)) =
           IF x = y THEN U ELSE Append(U, UpdateOf(old, new)[b])
  <2>1. /\ GoneUpTo(old, new, a + 1, b + 1) = GoneUpTo(old, new, a, b)
        /\ CameUpTo(old, new, a + 1, b + 1) = CameUpTo(old, new, a, b)
        /\ DifferUpTo(old, new, a + 1, b + 1) =
             IF x = y THEN DifferUpTo(old, new, a, b) ELSE DifferUpTo(old, new, a, b) \cup {b}
    <3> HIDE DEF D, I, U, list, screen, x, y
    <3>1. /\ Match(old, new, a, b)
          /\ \A j \in 0 .. b - 1 : ~Match(old, new, a, j)
          /\ \A i \in 0 .. a - 1 : ~Match(old, new, i, b)
      OBVIOUS
    <3>2. /\ GoneUpTo(old, new, a + 1, b + 1) = GoneUpTo(old, new, a, b)
          /\ CameUpTo(old, new, a + 1, b + 1) = CameUpTo(old, new, a, b)
      BY <3>1, StepPair, ZenonT(30)
    <3>3. ASSUME old[a + 1] = new[b + 1]
          PROVE  DifferUpTo(old, new, a + 1, b + 1) = DifferUpTo(old, new, a, b)
      <4>1. \A j : j \in DifferUpTo(old, new, a + 1, b + 1) <=> j \in DifferUpTo(old, new, a, b)
        BY <3>1, <3>3, StepPair, ZenonT(30)
      <4> QED BY <4>1
    <3>4. ASSUME old[a + 1] # new[b + 1]
          PROVE  DifferUpTo(old, new, a + 1, b + 1) = DifferUpTo(old, new, a, b) \cup {b}
      <4>1. \A j : j \in DifferUpTo(old, new, a + 1, b + 1) <=>
                     j \in DifferUpTo(old, new, a, b) \/ j = b
        BY <3>1, <3>4, StepPair, ZenonT(30)
      <4> QED BY <4>1
    <3> QED BY <3>2, <3>3, <3>4 DEF x, y
  <2>2. InOrder(DifferUpTo(old, new, a, b) \cup {b}, UpdateOf(old, new)) =
          Append(U, UpdateOf(old, new)[b])
    BY <1>1, <1>4, UpdatesInOrder
  <2> QED BY <2>1, <2>2
<1>6. PICK i \in Nat : UpdateOf(old, new)[b] = Update(i, b)
  <2>1. (CHOOSE i \in OldAt(old, new, b) : TRUE) \in OldAt(old, new, b)
    BY <1>4
  <2>2. (CHOOSE i \in OldAt(old, new, b) : TRUE) \in Nat
    BY <2>1 DEF OldAt
  <2> QED BY <1>1, <2>2 DEF UpdateOf
<1>7. Leads(R, list, D, I, U, new, screen)
  BY DEF ShowsUpTo
<1> DEFINE z == Append(screen, x)
<1> HIDE DEF D, I, U, list, screen, x
<1>8. Leads(R, Append(list, x), D, I, U, new, z)
  BY <1>3, <1>7, LeadsPair
<1>9. /\ z \in Seq(R) /\ Len(z) = b + 1 /\ z[b + 1] = x
      /\ \A k \in 1 .. b : z[k] = screen[k]
  BY <1>2, <1>3, AppendProperties
<1> HIDE DEF z
<1>10. CASE x = y
  <2>1. z = Append(screen, y)
    BY <1>10 DEF z
  <2> QED BY <1>2, <1>3, <1>5, <1>8, <1>10, <2>1 DEF ShowsUpTo
<1>11. CASE x # y
  <2>1. b \in 0 .. Len(z) - 1
    BY <1>1, <1>9
  <2>2. Leads(R, Append(list, x), D, I, Append(U, Update(i, b)), new, ReplaceAt(z, b + 1, y))
    BY <1>2, <1>8, <2>1, LeadsUpdate
  <2>3. ReplaceAt(z, b + 1, y) = Append(screen, y)
    <3> DEFINE p == b + 1
               r == ReplaceAt(z, p, y)
               c == Append(screen, y)
    <3> HIDE DEF y
    <3>1. p \in 1 .. Len(z)
      BY <1>1, <1>9
    <3>2. r \in Seq(R) /\ Len(r) = Len(z) /\ \A k \in 1 .. Len(z) : r[k] = IF k = p THEN y ELSE z[k]
      <4> HIDE DEF p, c
      <4>1. y \in R /\ z \in Seq(R)
        BY <1>2, <1>9
      <4>2. /\ ReplaceAt(z, p, y) \in Seq(R) /\ Len(ReplaceAt(z, p, y)) = Len(z)
            /\ \A k \in 1 .. Len(z) : ReplaceAt(z, p, y)[k] = IF k = p THEN y ELSE z[k]
        <5> HIDE DEF r
        <5> QED BY <3>1, <4>1, ReplaceAtIs
      <4> QED BY <4>2
    <3>3. c \in Seq(R) /\ Len(c) = b + 1 /\ c[b + 1] = y /\ \A k \in 1 .. b : c[k] = screen[k]
      BY <1>2, AppendProperties
    <3> HIDE DEF r, c
    <3>4. \A k \in 1 .. Len(r) : r[k] = c[k]
      <4> HIDE DEF p
      <4>1. p = b + 1
        BY DEF p
      <4> QED BY <1>9, <3>2, <3>3, <4>1
    <3>5. r = c
      BY <1>9, <3>2, <3>3, <3>4, SeqEqual
    <3> QED BY <3>5 DEF r, c, p
  <2> QED BY <1>2, <1>3, <1>5, <1>6, <1>11, <2>2, <2>3 DEF ShowsUpTo
<1> QED
  BY <1>10, <1>11

\* The list on screen becomes the new list when the exact changes are replayed on it.
THEOREM EntityReplay ==
  ASSUME NEW R, NEW old \in Seq(R), NEW new \in Seq(R), SortedById(old), SortedById(new)
  PROVE  Replay(old, EntityDiff(old, new), new) = new
<1> DEFINE Shows(a, b) == ShowsUpTo(R, old, new, a, b)
           T == {n \in Nat : \E a, b \in Nat : /\ a + b = n /\ a =< Len(old) /\ b =< Len(new)
                                              /\ ~Shows(a, b)}
<1>1. Len(old) \in Nat /\ Len(new) \in Nat
  OBVIOUS
<1>2. Shows(0, 0)
  <2>1. /\ GoneUpTo(old, new, 0, 0) = {} /\ CameUpTo(old, new, 0, 0) = {}
        /\ DifferUpTo(old, new, 0, 0) = {}
    BY DEF GoneUpTo, CameUpTo, DifferUpTo
  <2>2. SubSeq(old, 1, 0) = <<>> /\ SubSeq(new, 1, 0) = <<>>
    BY SubSeqEmpty
  <2> QED BY <2>1, <2>2, InOrderEmpty, LeadsStart DEF ShowsUpTo
<1>3. \A i, j \in 1 .. Len(old) : i < j => old[i].id < old[j].id /\ old[i].id \in Int /\ old[j].id \in Int
  BY DEF SortedById
<1>4. \A i, j \in 1 .. Len(new) : i < j => new[i].id < new[j].id /\ new[i].id \in Int /\ new[j].id \in Int
  BY DEF SortedById
<1>5. (\A i \in 1 .. Len(old) : old[i].id \in Int) /\ (\A j \in 1 .. Len(new) : new[j].id \in Int)
  BY DEF SortedById
<1> HIDE DEF Shows
\* A last row of one of the two lists that the other does not have, or a pair of them.
<1>6. ASSUME NEW a \in Nat, NEW b \in Nat, a =< Len(old), b =< Len(new), a + b # 0,
             \A c, d \in Nat : c =< a /\ d =< b /\ c + d < a + b => Shows(c, d)
      PROVE  Shows(a, b)
  <2>1. CASE a # 0 /\ (b = 0 \/ new[b].id < old[a].id)
    <3> DEFINE c == a - 1
    <3>1. c \in Nat /\ c < Len(old) /\ c + 1 = a /\ c < a
      BY <1>6, <2>1
    <3>2. \A j \in 0 .. b - 1 : ~Match(old, new, c, j)
      <4> SUFFICES ASSUME NEW j \in 0 .. b - 1 PROVE ~Match(old, new, c, j)
        OBVIOUS
      <4>1. b # 0 /\ j + 1 \in 1 .. Len(new) /\ b \in 1 .. Len(new) /\ a \in 1 .. Len(old)
            /\ j + 1 =< b
        BY <1>1, <1>6, <2>1
      <4>2. new[j + 1].id =< new[b].id
        BY <1>4, <1>5, <4>1
      <4>3. new[j + 1].id # old[a].id
        BY <1>5, <2>1, <4>1, <4>2
      <4> QED BY <3>1, <4>3 DEF Match
    <3> HIDE DEF c
    <3>3. ShowsUpTo(R, old, new, c, b)
      BY <1>6, <3>1 DEF Shows
    <3>4. ShowsUpTo(R, old, new, c + 1, b)
      BY <1>6, <3>1, <3>2, <3>3, ShowsDelete
    <3> QED BY <3>1, <3>4 DEF Shows
  <2>2. CASE b # 0 /\ (a = 0 \/ old[a].id < new[b].id)
    <3> DEFINE d == b - 1
    <3>1. d \in Nat /\ d < Len(new) /\ d + 1 = b /\ d < b
      BY <1>6, <2>2
    <3>2. \A i \in 0 .. a - 1 : ~Match(old, new, i, d)
      <4> SUFFICES ASSUME NEW i \in 0 .. a - 1 PROVE ~Match(old, new, i, d)
        OBVIOUS
      <4>1. a # 0 /\ i + 1 \in 1 .. Len(old) /\ b \in 1 .. Len(new) /\ a \in 1 .. Len(old)
            /\ i + 1 =< a
        BY <1>1, <1>6, <2>2
      <4>2. old[i + 1].id =< old[a].id
        BY <1>3, <1>5, <4>1
      <4>3. old[i + 1].id # new[b].id
        BY <1>5, <2>2, <4>1, <4>2
      <4> QED BY <3>1, <4>3 DEF Match
    <3> HIDE DEF d
    <3>3. ShowsUpTo(R, old, new, a, d)
      BY <1>6, <3>1 DEF Shows
    <3>4. ShowsUpTo(R, old, new, a, d + 1)
      BY <1>6, <3>1, <3>2, <3>3, ShowsInsert
    <3> QED BY <3>1, <3>4 DEF Shows
  <2>3. CASE a # 0 /\ b # 0 /\ old[a].id = new[b].id
    <3> DEFINE c == a - 1
               d == b - 1
    <3>1. /\ c \in Nat /\ c < Len(old) /\ c + 1 = a /\ c < a
          /\ d \in Nat /\ d < Len(new) /\ d + 1 = b /\ d < b
          /\ a \in 1 .. Len(old) /\ b \in 1 .. Len(new)
      BY <1>1, <1>6, <2>3
    <3>2. Match(old, new, c, d)
      BY <2>3, <3>1 DEF Match
    <3>3. \A j \in 0 .. d - 1 : ~Match(old, new, c, j)
      <4> SUFFICES ASSUME NEW j \in 0 .. d - 1 PROVE ~Match(old, new, c, j)
        OBVIOUS
      <4>1. j + 1 \in 1 .. Len(new) /\ j + 1 < b
        BY <1>1, <1>6, <3>1
      <4>2. new[j + 1].id < new[b].id
        BY <1>4, <3>1, <4>1
      <4>3. new[j + 1].id # new[b].id
        BY <1>5, <3>1, <4>1, <4>2
      <4> QED BY <2>3, <3>1, <4>3 DEF Match
    <3>4. \A i \in 0 .. c - 1 : ~Match(old, new, i, d)
      <4> SUFFICES ASSUME NEW i \in 0 .. c - 1 PROVE ~Match(old, new, i, d)
        OBVIOUS
      <4>1. i + 1 \in 1 .. Len(old) /\ i + 1 < a
        BY <1>1, <1>6, <3>1
      <4>2. old[i + 1].id < old[a].id
        BY <1>3, <3>1, <4>1
      <4>3. old[i + 1].id # old[a].id
        BY <1>5, <3>1, <4>1, <4>2
      <4> QED BY <2>3, <3>1, <4>3 DEF Match
    <3> HIDE DEF c, d
    <3>5. ShowsUpTo(R, old, new, c, d)
      BY <1>6, <3>1 DEF Shows
    <3>6. ShowsUpTo(R, old, new, c + 1, d + 1)
      BY <3>1, <3>2, <3>3, <3>4, <3>5, ShowsPair
    <3> QED BY <3>1, <3>6 DEF Shows
  <2>4. a # 0 /\ b # 0 => old[a].id \in Int /\ new[b].id \in Int
    BY <1>1, <1>5, <1>6
  <2> QED BY <1>6, <2>1, <2>2, <2>3, <2>4
<1>7. T = {}
  <2> SUFFICES ASSUME T # {} PROVE FALSE
    OBVIOUS
  <2>1. PICK n \in T : \A m \in T : n =< m
    <3>1. T \in SUBSET Nat
      OBVIOUS
    <3> HIDE DEF T
    <3> QED BY <3>1, LeastNat
  <2>2. PICK a \in Nat, b \in Nat : a + b = n /\ a =< Len(old) /\ b =< Len(new) /\ ~Shows(a, b)
    BY <2>1
  <2>3. ASSUME NEW c \in Nat, NEW d \in Nat, c =< a, d =< b, c + d < a + b PROVE Shows(c, d)
    <3>1. c =< Len(old) /\ d =< Len(new)
      BY <1>1, <2>2, <2>3
    <3>2. c + d \in Nat /\ ~(n =< c + d)
      BY <2>2, <2>3
    <3>3. c + d \notin T
      <4> HIDE DEF T
      <4> QED BY <2>1, <3>2
    <3> QED BY <3>1, <3>2, <3>3
  <2>4. a + b # 0
    BY <1>2, <2>2
  <2> QED BY <1>6, <2>2, <2>3, <2>4
<1>8. Shows(Len(old), Len(new))
  <2>1. Len(old) + Len(new) \in Nat
    BY <1>1
  <2>2. Len(old) + Len(new) \notin T
    BY <1>7
  <2> QED BY <1>1, <2>1, <2>2
<1>9. SubSeq(old, 1, Len(old)) = old /\ SubSeq(new, 1, Len(new)) = new
  BY SubSeqFull
<1> DEFINE D == InOrder(GoneUpTo(old, new, Len(old), Len(new)), DeleteOf)
           I == InOrder(CameUpTo(old, new, Len(old), Len(new)), InsertOf)
           U == InOrder(DifferUpTo(old, new, Len(old), Len(new)), UpdateOf(old, new))
<1>10. EntityDiff(old, new) = Reverse(D) \o I \o U
  BY EntityDiffIs
<1>11. Leads(R, old, D, I, U, new, new)
  BY <1>8, <1>9 DEF Shows, ShowsUpTo
<1> HIDE DEF D, I, U
<1> QED BY <1>10, <1>11, LeadsReplay
------------------------------------------------------------------------------
\* Whatever list it is applied to, a change that names rows that there are leaves rows.
NamesRows(c, new) ==
  \/ c.to_index = -1 /\ c.from_index # -1
  \/ c.to_index + 1 \in 1 .. Len(new)

LEMMA ApplyTyped ==
  ASSUME NEW R, NEW list \in Seq(R), NEW new \in Seq(R), NEW c \in ListChange, NamesRows(c, new)
  PROVE  ApplyChange(list, c, new) \in Seq(R)
<1>1. c.from_index \in Nat \cup {-1} /\ c.to_index \in Nat \cup {-1} /\ Len(list) \in Nat
  BY DEF ListChange
<1>2. c.to_index + 1 \in 1 .. Len(new) => new[c.to_index + 1] \in R
  BY ElementOfSeq
<1>3. CASE Fits(c, list, new, R)
  BY <1>3, ApplyFits
<1>4. CASE ~Fits(c, list, new, R)
  <2>1. /\ ~(c.to_index = -1 /\ c.from_index < Len(list))
        /\ ~(c.from_index = -1 /\ c.to_index <= Len(list))
        /\ ~(c.from_index # -1 /\ c.to_index \in 0 .. Len(list) - 1)
    BY <1>1, <1>2, <1>4 DEF NamesRows, Fits, IsRemoval, IsInsertion, IsReplacement
  <2> QED BY <2>1 DEF ApplyChange
<1> QED
  BY <1>3, <1>4

LEMMA ReplayTyped ==
  ASSUME NEW R, NEW list \in Seq(R), NEW new \in Seq(R), NEW changes \in Seq(ListChange),
         \A k \in 1 .. Len(changes) : NamesRows(changes[k], new)
  PROVE  Replay(list, changes, new) \in Seq(R)
<1> DEFINE Until(s, n) ==
             /\ s \in [0 .. n -> Seq(R)] /\ s[0] = list
             /\ \A k \in 1 .. n : s[k] = ApplyChange(s[k - 1], changes[k], new)
           T == {n \in 0 .. Len(changes) : ~ \E s : Until(s, n)}
<1>1. Len(changes) \in Nat
  OBVIOUS
<1>2. \E s : Until(s, 0)
  <2> DEFINE s == [k \in {0} |-> list]
  <2>1. 0 .. 0 = {0} /\ 1 .. 0 = {}
    OBVIOUS
  <2>2. Until(s, 0)
    BY <2>1
  <2> QED BY <2>2
<1>3. ASSUME NEW n \in 1 .. Len(changes), \E s : Until(s, n - 1)
      PROVE  \E s : Until(s, n)
  <2>1. PICK s : Until(s, n - 1)
    BY <1>3
  <2> DEFINE m == n - 1
             y == ApplyChange(s[m], changes[n], new)
             t == [k \in 0 .. n |-> IF k <= m THEN s[k] ELSE y]
  <2>2. m \in Nat /\ n = m + 1 /\ n \in Nat
    BY <1>1
  <2>3. s \in [0 .. m -> Seq(R)] /\ s[0] = list
        /\ \A k \in 1 .. m : s[k] = ApplyChange(s[k - 1], changes[k], new)
    BY <2>1
  <2>4. changes[n] \in ListChange /\ NamesRows(changes[n], new)
    BY ElementOfSeq
  <2> HIDE DEF m
  <2>5. y \in Seq(R)
    <3>1. s[m] \in Seq(R)
      BY <2>2, <2>3
    <3> QED BY <2>4, <3>1, ApplyTyped
  <2> HIDE DEF y
  <2>6. (\A k \in 0 .. m : t[k] = s[k]) /\ t[n] = y
    BY <2>2
  <2>7. t \in [0 .. n -> Seq(R)]
    BY <2>2, <2>3, <2>5
  <2> HIDE DEF t
  <2>8. ASSUME NEW k \in 1 .. n PROVE t[k] = ApplyChange(t[k - 1], changes[k], new)
    <3>1. CASE k \in 1 .. m
      <4>1. k \in 0 .. m /\ k - 1 \in 0 .. m
        BY <2>2, <3>1
      <4> QED BY <2>3, <2>6, <3>1, <4>1
    <3>2. CASE k = n
      <4>1. k - 1 = m /\ m \in 0 .. m
        BY <2>2, <3>2
      <4> QED BY <2>6, <3>2, <4>1 DEF y
    <3> QED BY <2>2, <3>1, <3>2
  <2>9. t[0] = list
    BY <2>2, <2>3, <2>6
  <2> QED BY <2>7, <2>8, <2>9
<1> HIDE DEF Until
<1>4. T = {}
  <2> SUFFICES ASSUME T # {} PROVE FALSE
    OBVIOUS
  <2>1. T \in SUBSET Nat
    OBVIOUS
  <2>2. PICK n \in T : \A k \in T : n <= k
    <3> HIDE DEF T
    <3> QED BY <2>1, LeastNat
  <2>3. n \in 1 .. Len(changes)
    BY <1>1, <1>2, <2>2
  <2>4. n - 1 \in 0 .. Len(changes) /\ ~(n <= n - 1)
    BY <1>1, <2>3
  <2>5. n - 1 \notin T
    <3> HIDE DEF T
    <3> QED BY <2>2, <2>4
  <2> QED BY <1>3, <2>2, <2>3, <2>4, <2>5
<1>5. PICK s : Until(s, Len(changes))
  BY <1>1, <1>4
<1>6. /\ s \in [0 .. Len(changes) -> Seq(R)] /\ s[0] = list
      /\ \A k \in 1 .. Len(changes) : s[k] = ApplyChange(s[k - 1], changes[k], new)
  BY <1>5 DEF Until
<1>7. Replay(list, changes, new) = s[Len(changes)]
  BY <1>6, ReplayIs DEF IsReplay
<1> QED
  BY <1>1, <1>6, <1>7

LEMMA InOrderElements ==
  ASSUME NEW S \in SUBSET Nat, IsFiniteSet(S), NEW F, NEW k \in 1 .. Len(InOrder(S, F))
  PROVE  \E i \in S : InOrder(S, F)[k] = F[i]
<1> DEFINE s == Ascending(S)
<1>1. S \in SUBSET Int
  OBVIOUS
<1>2. s \in Seq(S)
  BY <1>1, AscendingIs
<1>3. Len(s) \in Nat
  BY <1>2
<1> HIDE DEF s
<1>4. InOrder(S, F) = [j \in 1 .. Len(s) |-> F[s[j]]]
  BY DEF InOrder, s
<1>5. k \in 1 .. Len(s)
  BY <1>3, <1>4
<1>6. s[k] \in S
  BY <1>2, <1>5, ElementOfSeq
<1> QED
  BY <1>4, <1>5, <1>6

\* The exact changes name rows of the new list only.
LEMMA EntityDiffTyped ==
  ASSUME NEW R, NEW old \in Seq(R), NEW new \in Seq(R)
  PROVE  /\ EntityDiff(old, new) \in Seq(ListChange)
         /\ \A k \in 1 .. Len(EntityDiff(old, new)) : NamesRows(EntityDiff(old, new)[k], new)
<1> DEFINE a == Len(old)
           b == Len(new)
           G == GoneUpTo(old, new, a, b)
           N == CameUpTo(old, new, a, b)
           M == DifferUpTo(old, new, a, b)
           D == InOrder(G, DeleteOf)
           I == InOrder(N, InsertOf)
           U == InOrder(M, UpdateOf(old, new))
           c == Reverse(D) \o I \o U
<1>1. a \in Nat /\ b \in Nat /\ a \in 0 .. Len(old) /\ b \in 0 .. Len(new)
  OBVIOUS
<1>2. EntityDiff(old, new) = c
  BY EntityDiffIs
<1>3. G \in SUBSET (0 .. a - 1) /\ N \in SUBSET (0 .. b - 1) /\ M \in SUBSET (0 .. b - 1)
  BY DEF GoneUpTo, CameUpTo, DifferUpTo
<1>4. U \in Seq(ListChange)
  <2> HIDE DEF a, b
  <2> QED BY <1>1, UpdatesInOrder
<1> HIDE DEF a, b, G, N, M
<1>5. D \in Seq(ListChange) /\ I \in Seq(ListChange)
  BY <1>1, <1>3, DeletesInOrder, InsertsInOrder
<1>6. /\ G \in SUBSET Nat /\ IsFiniteSet(G) /\ N \in SUBSET Nat /\ IsFiniteSet(N)
      /\ M \in SUBSET Nat /\ IsFiniteSet(M)
  BY <1>1, <1>3, Below
<1>7. ASSUME NEW k \in 1 .. Len(D) PROVE NamesRows(D[k], new)
  <2>1. PICK i \in G : D[k] = DeleteOf[i]
    BY <1>6, InOrderElements
  <2> HIDE DEF D
  <2>2. D[k] = Delete(i) /\ i \in Nat
    BY <1>6, <2>1 DEF DeleteOf
  <2> QED BY <2>2 DEF NamesRows, Delete
<1>8. ASSUME NEW k \in 1 .. Len(I) PROVE NamesRows(I[k], new)
  <2>1. PICK i \in N : I[k] = InsertOf[i]
    BY <1>6, InOrderElements
  <2> HIDE DEF I
  <2>2. I[k] = Insert(i) /\ i \in 0 .. b - 1
    BY <1>3, <1>6, <2>1 DEF InsertOf
  <2> QED BY <1>1, <2>2 DEF NamesRows, Insert, b
<1>9. ASSUME NEW k \in 1 .. Len(U) PROVE NamesRows(U[k], new)
  <2>1. PICK i \in M : U[k] = UpdateOf(old, new)[i]
    BY <1>6, InOrderElements
  <2> HIDE DEF U
  <2>2. i \in 0 .. Len(new) - 1
    BY <1>3 DEF b
  <2>3. U[k] = Update(CHOOSE j \in OldAt(old, new, i) : TRUE, i)
    BY <2>1, <2>2 DEF UpdateOf
  <2> QED BY <2>2, <2>3 DEF NamesRows, Update
<1> HIDE DEF D, I, U
<1>10. /\ c \in Seq(ListChange) /\ Len(c) = Len(D) + Len(I) + Len(U)
       /\ \A k \in 1 .. Len(D) + Len(I) + Len(U) : c[k] = ChangeAt(D, I, U, k)
  BY <1>4, <1>5, ResultIs
<1>11. Len(D) \in Nat /\ Len(I) \in Nat /\ Len(U) \in Nat
  BY <1>4, <1>5
<1> HIDE DEF c
<1>12. ASSUME NEW k \in 1 .. Len(c) PROVE NamesRows(c[k], new)
  <2>1. CASE k <= Len(D)
    <3>1. c[k] = D[Len(D) + 1 - k] /\ Len(D) + 1 - k \in 1 .. Len(D)
      BY <1>10, <1>11, <2>1 DEF ChangeAt
    <3> QED BY <1>7, <3>1
  <2>2. CASE Len(D) < k /\ k <= Len(D) + Len(I)
    <3>1. c[k] = I[k - Len(D)] /\ k - Len(D) \in 1 .. Len(I)
      BY <1>10, <1>11, <2>2 DEF ChangeAt
    <3> QED BY <1>8, <3>1
  <2>3. CASE Len(D) + Len(I) < k
    <3>1. c[k] = U[k - Len(D) - Len(I)]
      BY <1>10, <1>11, <2>3 DEF ChangeAt
    <3>2. k - Len(D) - Len(I) \in 1 .. Len(U)
      BY <1>10, <1>11, <2>3
    <3> QED BY <1>9, <3>1, <3>2
  <2> QED BY <1>10, <1>11, <2>1, <2>2, <2>3
<1> QED
  BY <1>2, <1>10, <1>12
==============================================================================
