---------------------------- MODULE IdOrder_proofs ----------------------------
(***************************************************************************)
(* The order of ids, for any finite set of natural numbers, and what adding*)
(* up, concatenating, choosing from and reversing sequences gives.         *)
(* Vectors are sequences of whatever they hold (IsVector).                 *)
(***************************************************************************)
EXTENDS IdOrder, SequencesExt, SequenceTheorems, FiniteSetTheorems, WellFoundedInduction, TLAPS

\* A set of naturals has a least member.
LEMMA NatLeast ==
  ASSUME NEW S, S \subseteq Nat, S # {}
  PROVE  \E x \in S : \A y \in S : x <= y
<1>. DEFINE Smaller == OpToRel(<, Nat)
<1>1. IsWellFoundedOn(Smaller, Nat)
  BY NatLessThanWellFounded
<1>2. \A x, y \in Nat : x < y => <<x, y>> \in Smaller
  BY DEF OpToRel
<1>. HIDE DEF Smaller
<1>3. PICK x \in S : \A y \in S : ~ (<<y, x>> \in Smaller)
  BY <1>1, WFMin
<1>4. ASSUME NEW y \in S
      PROVE  x <= y
  <2>1. x \in Nat /\ y \in Nat
    OBVIOUS
  <2>2. ~ (y < x)
    BY <1>2, <1>3, <2>1
  <2>. QED  BY <2>1, <2>2
<1>. QED  BY <1>4

\* Of two ids the smaller one has fewer before it.
LEMMA BeforeGrows ==
  ASSUME NEW ids \in SUBSET Int, IsFiniteSet(ids), NEW a \in ids, NEW b \in ids, a < b
  PROVE  Cardinality(Before(ids, a)) < Cardinality(Before(ids, b))
<1>1. Before(ids, b) \in SUBSET ids
  BY DEF Before
<1>2. IsFiniteSet(Before(ids, b)) /\ Cardinality(Before(ids, b)) \in Nat
  BY <1>1, FS_Subset, FS_CardinalityType
<1>3. Before(ids, a) \in SUBSET Before(ids, b)
  <2>1. ASSUME NEW other \in ids, other < a
        PROVE  other < b
    <3>1. other \in Int /\ a \in Int /\ b \in Int
      OBVIOUS
    <3>. QED  BY <2>1, <3>1
  <2>. QED  BY <2>1 DEF Before
<1>4. a \in Before(ids, b) /\ a \notin Before(ids, a)
  <2>1. a \in Int
    OBVIOUS
  <2>. QED  BY <2>1 DEF Before
<1>5. /\ Cardinality(Before(ids, a)) <= Cardinality(Before(ids, b))
      /\ Cardinality(Before(ids, b)) # Cardinality(Before(ids, a))
  BY <1>2, <1>3, <1>4, FS_Subset
<1>6. Cardinality(Before(ids, a)) \in Nat
  BY <1>2, <1>3, FS_Subset, FS_CardinalityType
<1>. QED  BY <1>2, <1>5, <1>6

\* Place numbers the ids from the smallest to the greatest, each once.
LEMMA PlacesInOrder ==
  ASSUME NEW ids \in SUBSET Int, IsFiniteSet(ids)
  PROVE  /\ Cardinality(ids) \in Nat
         /\ \A k \in 1..Cardinality(ids) :
              /\ Place(ids, k) \in ids
              /\ Cardinality(Before(ids, Place(ids, k))) = k - 1
         /\ \A j, k \in 1..Cardinality(ids) : j < k => Place(ids, j) < Place(ids, k)
<1>. DEFINE n == Cardinality(ids)
            Rank == [id \in ids |-> Cardinality(Before(ids, id))]
<1>1. n \in Nat
  BY FS_CardinalityType
<1>2. ASSUME NEW id \in ids
      PROVE  Rank[id] \in 0..(n - 1)
  <2>1. Before(ids, id) \in SUBSET ids /\ id \notin Before(ids, id)
    BY DEF Before
  <2>2. /\ IsFiniteSet(Before(ids, id))
        /\ Cardinality(Before(ids, id)) <= n
        /\ n # Cardinality(Before(ids, id))
    BY <2>1, FS_Subset
  <2>3. Cardinality(Before(ids, id)) \in Nat
    BY <2>2, FS_CardinalityType
  <2>. QED  BY <1>1, <2>2, <2>3
<1>3. ASSUME NEW a \in ids, NEW b \in ids, Rank[a] = Rank[b]
      PROVE  a = b
  <2>1. a \in Int /\ b \in Int
    OBVIOUS
  <2>2. Rank[a] \in Nat /\ Rank[b] \in Nat
    BY <1>1, <1>2
  <2>3. ~(a < b)
    BY <1>3, <2>2, BeforeGrows
  <2>4. ~(b < a)
    BY <1>3, <2>2, BeforeGrows
  <2>. QED  BY <2>1, <2>3, <2>4
<1>4. Rank \in Injection(ids, 0..(n - 1))
  BY <1>2, <1>3 DEF Injection, IsInjective
<1>5. IsFiniteSet(0..(n - 1)) /\ Cardinality(0..(n - 1)) = n
  <2>1. 0 \in Int /\ n - 1 \in Int /\ (0 > n - 1 <=> n = 0)
    BY <1>1
  <2>2. /\ IsFiniteSet(0..(n - 1))
        /\ Cardinality(0..(n - 1)) = IF 0 > n - 1 THEN 0 ELSE (n - 1) - 0 + 1
    BY <2>1, FS_Interval
  <2>. QED  BY <1>1, <2>1, <2>2
<1>6. Rank \in Surjection(ids, 0..(n - 1))
  BY <1>4, <1>5, FS_Injection
<1>7. ASSUME NEW k \in 1..n
      PROVE  Place(ids, k) \in ids /\ Cardinality(Before(ids, Place(ids, k))) = k - 1
  <2>1. k - 1 \in 0..(n - 1)
    BY <1>1
  <2>2. \E id \in ids : Rank[id] = k - 1
    BY <1>6, <2>1 DEF Surjection
  <2>3. \E id \in ids : Cardinality(Before(ids, id)) = k - 1
    BY <2>2
  <2>. QED  BY <2>3 DEF Place
<1>8. ASSUME NEW j \in 1..n, NEW k \in 1..n, j < k
      PROVE  Place(ids, j) < Place(ids, k)
  <2>. DEFINE a == Place(ids, j)
              b == Place(ids, k)
  <2>1. /\ a \in ids /\ Cardinality(Before(ids, a)) = j - 1
        /\ b \in ids /\ Cardinality(Before(ids, b)) = k - 1
    BY <1>7
  <2>. HIDE DEF a, b
  <2>2. a # b
    BY <1>8, <2>1
  <2>3. ~(b < a)
    <3>1. b < a => k - 1 < j - 1
      BY <2>1, BeforeGrows
    <3>. QED  BY <1>1, <1>8, <3>1
  <2>4. a \in Int /\ b \in Int
    BY <2>1
  <2>5. a < b
    BY <2>2, <2>3, <2>4
  <2>. QED  BY <2>5 DEF a, b
<1>. QED  BY <1>1, <1>7, <1>8

\* The values come out as a sequence of the values.
LEMMA InOrderType ==
  ASSUME NEW S, NEW f, IsFiniteSet(DOMAIN f), DOMAIN f \in SUBSET Int, f \in [DOMAIN f -> S]
  PROVE  InOrder(f) \in Seq(S) /\ Len(InOrder(f)) = Cardinality(DOMAIN f)
<1>1. /\ Cardinality(DOMAIN f) \in Nat
      /\ \A k \in 1..Cardinality(DOMAIN f) : Place(DOMAIN f, k) \in DOMAIN f
  BY PlacesInOrder
<1>2. \A k \in 1..Cardinality(DOMAIN f) : f[Place(DOMAIN f, k)] \in S
  BY <1>1
<1>. QED  BY <1>1, <1>2, LenProperties DEF InOrder

\* The place of an id is the number of ids before it, and one.
LEMMA PlaceOf ==
  ASSUME NEW ids \in SUBSET Int, IsFiniteSet(ids), NEW id \in ids, NEW k \in Nat,
         Cardinality(Before(ids, id)) = k - 1
  PROVE  Place(ids, k) = id
<1>1. ASSUME NEW other \in ids, Cardinality(Before(ids, other)) = k - 1
      PROVE  other = id
  <2>1. ~(other < id) /\ ~(id < other)
    BY <1>1, BeforeGrows
  <2>2. other \in Int /\ id \in Int
    OBVIOUS
  <2>. QED  BY <2>1, <2>2
<1>. QED  BY <1>1 DEF Place

\* An id greater than all others brings its value to the end.
LEMMA InOrderAppend ==
  ASSUME NEW S, NEW f, IsFiniteSet(DOMAIN f), DOMAIN f \in SUBSET Nat, f \in [DOMAIN f -> S],
         NEW x \in Nat, \A id \in DOMAIN f : id < x,
         NEW g, DOMAIN g = DOMAIN f \cup {x}, \A id \in DOMAIN f : g[id] = f[id]
  PROVE  InOrder(g) = Append(InOrder(f), g[x])
<1>. DEFINE ids == DOMAIN f
            more == DOMAIN g
            n == Cardinality(ids)
<1>1. /\ n \in Nat /\ x \notin ids /\ IsFiniteSet(more) /\ more \in SUBSET Nat
      /\ Cardinality(more) = n + 1
  <2>1. x \notin ids
    <3>1. ~(x < x)
      OBVIOUS
    <3>. QED  BY <3>1
  <2>. QED  BY <2>1, FS_CardinalityType, FS_AddElement
<1>2. Place(more, n + 1) = x
  <2>1. Before(more, x) = ids
    <3>1. ~(x < x)
      OBVIOUS
    <3>. QED  BY <3>1 DEF Before
  <2>2. Cardinality(Before(more, x)) = (n + 1) - 1 /\ n + 1 \in Nat /\ x \in more
    BY <1>1, <2>1
  <2>. HIDE DEF more, n
  <2>. QED  BY <1>1, <2>2, PlaceOf
<1>3. ASSUME NEW k \in 1..n
      PROVE  Place(ids, k) \in ids /\ Place(more, k) = Place(ids, k)
  <2>. DEFINE id == Place(ids, k)
  <2>1. id \in ids /\ Cardinality(Before(ids, id)) = k - 1
    BY PlacesInOrder
  <2>2. Before(more, id) = Before(ids, id)
    <3>1. id < x /\ id \in Nat
      BY <2>1
    <3>2. ~(x < id)
      BY <3>1
    <3>. QED  BY <3>2 DEF Before
  <2>3. Cardinality(Before(more, id)) = k - 1 /\ k \in Nat /\ id \in more
    BY <1>1, <2>1, <2>2
  <2>. HIDE DEF id, more, n
  <2>4. Place(more, k) = id
    BY <1>1, <2>3, PlaceOf
  <2>. QED  BY <2>1, <2>4 DEF id
<1>4. InOrder(f) = [k \in 1..n |-> f[Place(ids, k)]] /\ InOrder(f) \in Seq(S) /\ Len(InOrder(f)) = n
  <2>1. DOMAIN f \in SUBSET Int
    OBVIOUS
  <2>. QED  BY <2>1, InOrderType DEF InOrder
<1>5. InOrder(g) = [k \in 1..(n + 1) |-> g[Place(more, k)]]
  BY <1>1 DEF InOrder
<1>6. ASSUME NEW k \in 1..(n + 1)
      PROVE  g[Place(more, k)] = IF k <= n THEN InOrder(f)[k] ELSE g[x]
  <2>1. CASE k <= n
    <3>1. k \in 1..n
      BY <1>1, <2>1
    <3>. QED  BY <1>3, <1>4, <2>1, <3>1
  <2>2. CASE ~(k <= n)
    <3>1. k = n + 1
      BY <1>1, <2>2
    <3>. QED  BY <1>2, <2>2, <3>1
  <2>. QED  BY <2>1, <2>2
<1>. HIDE DEF n, more
<1>7. Append(InOrder(f), g[x]) = [k \in 1..(n + 1) |-> IF k <= n THEN InOrder(f)[k] ELSE g[x]]
  BY <1>1, <1>4
<1>. QED  BY <1>5, <1>6, <1>7

\* Ids without a gap leave the values as they are.
LEMMA InOrderBlock ==
  ASSUME NEW f, NEW low \in Nat, NEW m \in Nat, DOMAIN f = (low + 1)..(low + m)
  PROVE  InOrder(f) = [k \in 1..m |-> f[low + k]]
<1>. DEFINE ids == (low + 1)..(low + m)
<1>1. \A hi \in Int : hi >= low =>
        IsFiniteSet((low + 1)..hi) /\ Cardinality((low + 1)..hi) = hi - low
  <2>1. ASSUME NEW hi \in Int, hi >= low
        PROVE  IsFiniteSet((low + 1)..hi) /\ Cardinality((low + 1)..hi) = hi - low
    <3>1. low + 1 \in Int /\ hi \in Int
      OBVIOUS
    <3>2. /\ IsFiniteSet((low + 1)..hi)
          /\ Cardinality((low + 1)..hi) = IF low + 1 > hi THEN 0 ELSE hi - (low + 1) + 1
      BY <3>1, FS_Interval
    <3>. QED  BY <2>1, <3>2
  <2>. QED  BY <2>1
<1>2. IsFiniteSet(ids) /\ Cardinality(ids) = m /\ ids \in SUBSET Nat
  <2>1. low + m \in Int /\ low + m >= low /\ (low + m) - low = m
    OBVIOUS
  <2>. QED  BY <1>1, <2>1
<1>3. ASSUME NEW k \in 1..m
      PROVE  Place(ids, k) = low + k
  <2>1. Before(ids, low + k) = (low + 1)..(low + (k - 1))
    BY DEF Before
  <2>2. low + (k - 1) \in Int /\ low + (k - 1) >= low /\ (low + (k - 1)) - low = k - 1
    OBVIOUS
  <2>3. Cardinality(Before(ids, low + k)) = k - 1 /\ low + k \in ids /\ k \in Nat
    BY <1>1, <2>1, <2>2
  <2>. HIDE DEF ids
  <2>. QED  BY <1>2, <2>3, PlaceOf
<1>. QED  BY <1>2, <1>3 DEF InOrder

-----------------------------------------------------------------------------
(***************************************************************************)
(* Sums and concatenations are recursive functions, so what is said of     *)
(* them is shown from one number to the next.                              *)
(***************************************************************************)
\* A set of numbers that has 0 and with a number the next one has all.
LEMMA AllReached ==
  ASSUME NEW S, 0 \in S, \A n \in Nat : n \in S => n + 1 \in S
  PROVE  \A n \in Nat : n \in S
<1>. DEFINE Missing == {n \in Nat : n \notin S}
<1>1. SUFFICES ASSUME Missing # {} PROVE FALSE
  OBVIOUS
<1>2. PICK n \in Missing : \A m \in Missing : n <= m
  BY <1>1, NatLeast
<1>3. n \in Nat /\ n # 0 /\ n - 1 \in Nat /\ n - 1 \notin Missing
  <2>1. n \in Nat /\ n # 0
    OBVIOUS
  <2>2. n - 1 \in Nat /\ ~(n <= n - 1)
    BY <2>1
  <2>. QED  BY <1>2, <2>1, <2>2
<1>4. (n - 1) + 1 \in S
  BY <1>3
<1>. QED  BY <1>3, <1>4

\* A function that adds up step by step.
IsSum(g, f, n) == g = [i \in 0..n |-> IF i = 0 THEN 0 ELSE g[i - 1] + f[i]]

LEMMA SumExists ==
  ASSUME NEW f, NEW n \in Nat
  PROVE  \E g : IsSum(g, f, n)
<1>. DEFINE Added == {m \in Nat : \E g : IsSum(g, f, m)}
<1>1. 0 \in Added
  <2>. DEFINE g == [i \in 0..0 |-> 0]
  <2>1. g = [i \in 0..0 |-> IF i = 0 THEN 0 ELSE g[i - 1] + f[i]]
    OBVIOUS
  <2>. QED  BY <2>1 DEF IsSum
<1>2. ASSUME NEW m \in Nat, m \in Added
      PROVE  m + 1 \in Added
  <2>1. PICK g : IsSum(g, f, m)
    BY <1>2
  <2>. DEFINE h == [i \in 0..(m + 1) |-> IF i <= m THEN g[i] ELSE g[m] + f[m + 1]]
  <2>2. \A i \in 0..m : g[i] = IF i = 0 THEN 0 ELSE g[i - 1] + f[i]
    BY <2>1 DEF IsSum
  <2>3. ASSUME NEW i \in 0..(m + 1)
        PROVE  h[i] = IF i = 0 THEN 0 ELSE h[i - 1] + f[i]
    <3>1. CASE i = m + 1
      <4>1. h[i] = g[m] + f[m + 1] /\ i # 0 /\ h[i - 1] = g[m]
        BY <3>1
      <4>. QED  BY <3>1, <4>1
    <3>2. CASE i # m + 1
      <4>1. i \in 0..m /\ h[i] = g[i] /\ (i # 0 => h[i - 1] = g[i - 1])
        BY <3>2
      <4>. QED  BY <2>2, <4>1
    <3>. QED  BY <3>1, <3>2
  <2>4. h = [i \in 0..(m + 1) |-> IF i = 0 THEN 0 ELSE h[i - 1] + f[i]]
    <3>. DEFINE r == [i \in 0..(m + 1) |-> IF i = 0 THEN 0 ELSE h[i - 1] + f[i]]
    <3>1. \A i \in 0..(m + 1) : h[i] = r[i]
      BY <2>3
    <3>2. h = r
      BY <3>1
    <3>. QED  BY <3>2
  <2>5. IsSum(h, f, m + 1)
    BY <2>4 DEF IsSum
  <2>. HIDE DEF h
  <2>. QED  BY <2>5
<1>. HIDE DEF Added
<1>3. n \in Added
  BY <1>1, <1>2, AllReached
<1>. QED  BY <1>3 DEF Added

\* Two of them agree as far as both go.
LEMMA SumsAgree ==
  ASSUME NEW f, NEW n \in Nat, NEW m \in Nat, NEW g, NEW h, IsSum(g, f, n), IsSum(h, f, m)
  PROVE  \A k \in Nat : k <= n /\ k <= m => g[k] = h[k]
<1>. DEFINE Same == {k \in Nat : k <= n /\ k <= m => g[k] = h[k]}
<1>1. /\ \A i \in 0..n : g[i] = IF i = 0 THEN 0 ELSE g[i - 1] + f[i]
      /\ \A i \in 0..m : h[i] = IF i = 0 THEN 0 ELSE h[i - 1] + f[i]
  BY DEF IsSum
<1>2. 0 \in Same
  BY <1>1
<1>3. ASSUME NEW k \in Nat, k \in Same
      PROVE  k + 1 \in Same
  <2>1. SUFFICES ASSUME k + 1 <= n, k + 1 <= m
                 PROVE  g[k + 1] = h[k + 1]
    OBVIOUS
  <2>2. g[k] = h[k]
    BY <1>3, <2>1
  <2>3. k + 1 \in 0..n /\ k + 1 \in 0..m /\ k + 1 # 0 /\ (k + 1) - 1 = k
    BY <2>1
  <2>. QED  BY <1>1, <2>2, <2>3
<1>. HIDE DEF Same
<1>4. \A k \in Nat : k \in Same
  BY <1>2, <1>3, AllReached
<1>. QED  BY <1>4 DEF Same

\* SumTo adds up.
LEMMA SumSteps ==
  ASSUME NEW f
  PROVE  /\ SumTo(f, 0) = 0
         /\ \A n \in Nat : SumTo(f, n + 1) = SumTo(f, n) + f[n + 1]
<1>1. ASSUME NEW n \in Nat
      PROVE  \E g : IsSum(g, f, n) /\ SumTo(f, n) = g[n]
  <2>. DEFINE g == CHOOSE h : IsSum(h, f, n)
  <2>1. SumTo(f, n) = g[n]
    BY DEF SumTo, IsSum
  <2>2. IsSum(g, f, n)
    BY SumExists
  <2>. QED  BY <2>1, <2>2
<1>2. SumTo(f, 0) = 0
  <2>1. 0 \in Nat /\ 0 \in 0..0
    OBVIOUS
  <2>2. PICK g : IsSum(g, f, 0) /\ SumTo(f, 0) = g[0]
    BY <1>1, <2>1
  <2>. QED  BY <2>1, <2>2 DEF IsSum
<1>3. ASSUME NEW n \in Nat
      PROVE  SumTo(f, n + 1) = SumTo(f, n) + f[n + 1]
  <2>1. n + 1 \in Nat /\ n + 1 \in 0..(n + 1) /\ n + 1 # 0 /\ (n + 1) - 1 = n /\ n <= n /\ n <= n + 1
    OBVIOUS
  <2>2. PICK g : IsSum(g, f, n) /\ SumTo(f, n) = g[n]
    BY <1>1
  <2>3. PICK h : IsSum(h, f, n + 1) /\ SumTo(f, n + 1) = h[n + 1]
    BY <1>1, <2>1
  <2>4. g[n] = h[n]
    BY <2>1, <2>2, <2>3, SumsAgree
  <2>5. h[n + 1] = h[n] + f[n + 1]
    BY <2>1, <2>3 DEF IsSum
  <2>. QED  BY <2>2, <2>3, <2>4, <2>5
<1>. QED  BY <1>2, <1>3

\* Sums of naturals are naturals.
LEMMA SumNat ==
  ASSUME NEW f, NEW n \in Nat, \A i \in 1..n : f[i] \in Nat
  PROVE  SumTo(f, n) \in Nat /\ \A k \in 0..n : SumTo(f, k) \in Nat
<1>. DEFINE Good == {k \in Nat : k <= n => SumTo(f, k) \in Nat}
<1>1. 0 \in Good
  BY SumSteps
<1>2. ASSUME NEW k \in Nat, k \in Good
      PROVE  k + 1 \in Good
  <2>1. SUFFICES ASSUME k + 1 <= n PROVE SumTo(f, k + 1) \in Nat
    OBVIOUS
  <2>2. SumTo(f, k) \in Nat /\ f[k + 1] \in Nat /\ SumTo(f, k + 1) = SumTo(f, k) + f[k + 1]
    BY <1>2, <2>1, SumSteps
  <2>. QED  BY <2>2
<1>. HIDE DEF Good
<1>3. \A k \in Nat : k \in Good
  BY <1>1, <1>2, AllReached
<1>. QED  BY <1>3 DEF Good

\* They grow.
LEMMA SumGrows ==
  ASSUME NEW f, NEW n \in Nat, \A i \in 1..n : f[i] \in Nat, NEW j \in 0..n
  PROVE  SumTo(f, j) <= SumTo(f, n)
<1>. DEFINE Good == {k \in Nat : j <= k /\ k <= n => SumTo(f, j) <= SumTo(f, k)}
<1>0. \A k \in 0..n : SumTo(f, k) \in Nat
  BY SumNat
<1>1. 0 \in Good
  BY <1>0
<1>2. ASSUME NEW k \in Nat, k \in Good
      PROVE  k + 1 \in Good
  <2>1. SUFFICES ASSUME j <= k + 1, k + 1 <= n PROVE SumTo(f, j) <= SumTo(f, k + 1)
    OBVIOUS
  <2>2. CASE j = k + 1
    BY <1>0, <2>2
  <2>3. CASE j # k + 1
    <3>1. j <= k /\ k <= n /\ k \in 0..n /\ k + 1 \in 1..n
      BY <2>1, <2>3
    <3>2. SumTo(f, j) <= SumTo(f, k)
      BY <1>2, <3>1
    <3>3. f[k + 1] \in Nat /\ SumTo(f, k + 1) = SumTo(f, k) + f[k + 1]
      BY <3>1, SumSteps
    <3>4. SumTo(f, k) \in Nat /\ SumTo(f, j) \in Nat
      BY <1>0, <3>1
    <3>. QED  BY <3>2, <3>3, <3>4
  <2>. QED  BY <2>2, <2>3
<1>. HIDE DEF Good
<1>3. \A k \in Nat : k \in Good
  BY <1>1, <1>2, AllReached
<1>. QED  BY <1>3 DEF Good

\* The same numbers have the same sum.
LEMMA SumSame ==
  ASSUME NEW f, NEW g, NEW n \in Nat, \A i \in 1..n : f[i] = g[i]
  PROVE  SumTo(f, n) = SumTo(g, n)
<1>. DEFINE Good == {k \in Nat : k <= n => SumTo(f, k) = SumTo(g, k)}
<1>1. 0 \in Good
  BY SumSteps
<1>2. ASSUME NEW k \in Nat, k \in Good
      PROVE  k + 1 \in Good
  <2>1. SUFFICES ASSUME k + 1 <= n PROVE SumTo(f, k + 1) = SumTo(g, k + 1)
    OBVIOUS
  <2>2. SumTo(f, k) = SumTo(g, k) /\ f[k + 1] = g[k + 1]
    BY <1>2, <2>1
  <2>. QED  BY <2>2, SumSteps
<1>. HIDE DEF Good
<1>3. \A k \in Nat : k \in Good
  BY <1>1, <1>2, AllReached
<1>. QED  BY <1>3 DEF Good

\* Multiples of numbers add up to the multiple of their sum.
LEMMA SumScaled ==
  ASSUME NEW f, NEW g, NEW n \in Nat, NEW a \in Nat,
         \A i \in 1..n : f[i] \in Nat /\ g[i] = f[i] * a
  PROVE  SumTo(g, n) = SumTo(f, n) * a
<1>. DEFINE Good == {k \in Nat : k <= n => SumTo(g, k) = SumTo(f, k) * a}
<1>1. 0 \in Good
  BY SumSteps
<1>2. ASSUME NEW k \in Nat, k \in Good
      PROVE  k + 1 \in Good
  <2>1. SUFFICES ASSUME k + 1 <= n PROVE SumTo(g, k + 1) = SumTo(f, k + 1) * a
    OBVIOUS
  <2>2. SumTo(g, k) = SumTo(f, k) * a /\ g[k + 1] = f[k + 1] * a /\ f[k + 1] \in Nat
    BY <1>2, <2>1
  <2>3. SumTo(f, k) \in Nat
    BY <2>1, SumNat
  <2>4. \A x, y \in Nat : x * a + y * a = (x + y) * a
    OBVIOUS
  <2>5. SumTo(f, k) * a + f[k + 1] * a = (SumTo(f, k) + f[k + 1]) * a
    BY <2>2, <2>3, <2>4
  <2>6. SumTo(g, k + 1) = SumTo(g, k) + g[k + 1] /\ SumTo(f, k + 1) = SumTo(f, k) + f[k + 1]
    BY SumSteps
  <2>. QED  BY <2>2, <2>5, <2>6
<1>. HIDE DEF Good
<1>3. \A k \in Nat : k \in Good
  BY <1>1, <1>2, AllReached
<1>. QED  BY <1>3 DEF Good

\* So many times the same number.
LEMMA SumConstant ==
  ASSUME NEW f, NEW n \in Nat, NEW a \in Nat, \A i \in 1..n : f[i] = a
  PROVE  SumTo(f, n) = n * a
<1>. DEFINE Good == {k \in Nat : k <= n => SumTo(f, k) = k * a}
<1>1. 0 \in Good
  BY SumSteps
<1>2. ASSUME NEW k \in Nat, k \in Good
      PROVE  k + 1 \in Good
  <2>1. SUFFICES ASSUME k + 1 <= n PROVE SumTo(f, k + 1) = (k + 1) * a
    OBVIOUS
  <2>2. SumTo(f, k) = k * a /\ f[k + 1] = a /\ SumTo(f, k + 1) = SumTo(f, k) + f[k + 1]
    BY <1>2, <2>1, SumSteps
  <2>3. k * a + a = (k + 1) * a
    OBVIOUS
  <2>. QED  BY <2>2, <2>3
<1>. HIDE DEF Good
<1>3. \A k \in Nat : k \in Good
  BY <1>1, <1>2, AllReached
<1>. QED  BY <1>3 DEF Good

\* Each number up to a sum lies in the range of one summand.
LEMMA SumPlace ==
  ASSUME NEW f, NEW n \in Nat, \A i \in 1..n : f[i] \in Nat, NEW p \in 1..SumTo(f, n)
  PROVE  \E i \in 1..n : \E k \in 1..f[i] : p = SumTo(f, i - 1) + k
<1>. DEFINE Found(p_) == \E i \in 1..n : \E k \in 1..f[i] : p_ = SumTo(f, i - 1) + k
            Good == {m \in Nat : m <= n => \A q \in 1..SumTo(f, m) : Found(q)}
<1>0. \A k \in 0..n : SumTo(f, k) \in Nat
  BY SumNat
<1>1. 0 \in Good
  <2>1. SumTo(f, 0) = 0
    BY SumSteps
  <2>. QED  BY <2>1
<1>2. ASSUME NEW m \in Nat, m \in Good
      PROVE  m + 1 \in Good
  <2>1. SUFFICES ASSUME m + 1 <= n, NEW q \in 1..SumTo(f, m + 1) PROVE Found(q)
    OBVIOUS
  <2>2. /\ SumTo(f, m) \in Nat /\ f[m + 1] \in Nat /\ m + 1 \in 1..n /\ (m + 1) - 1 = m
        /\ SumTo(f, m + 1) = SumTo(f, m) + f[m + 1]
    BY <1>0, <2>1, SumSteps
  <2>3. CASE q <= SumTo(f, m)
    <3>1. q \in 1..SumTo(f, m)
      BY <2>2, <2>3
    <3>2. \A q_ \in 1..SumTo(f, m) : Found(q_)
      BY <1>2, <2>1
    <3>. HIDE DEF Found
    <3>. QED  BY <3>1, <3>2
  <2>4. CASE ~(q <= SumTo(f, m))
    <3>. DEFINE k == q - SumTo(f, m)
    <3>1. k \in 1..f[m + 1] /\ q = SumTo(f, (m + 1) - 1) + k
      BY <2>2, <2>4
    <3>. QED  BY <2>2, <3>1
  <2>. QED  BY <2>3, <2>4
<1>. HIDE DEF Good
<1>3. n \in Good
  BY <1>1, <1>2, AllReached
<1>. USE DEF Good
<1>. HIDE DEF Found
<1>4. Found(p)
  BY <1>3
<1>. QED  BY <1>4 DEF Found

-----------------------------------------------------------------------------
(***************************************************************************)
(* Concatenation: where the parts are in the whole.                        *)
(***************************************************************************)
IsFlat(g, s, n) == g = [i \in 1..n |-> IF i = 1 THEN s[i] ELSE g[i - 1] \o s[i]]

Lengths(s) == [i \in DOMAIN s |-> Len(s[i])]

LEMMA FlatExists ==
  ASSUME NEW s, NEW n \in Nat
  PROVE  \E g : IsFlat(g, s, n)
<1>. DEFINE Put == {m \in Nat : \E g : IsFlat(g, s, m)}
<1>1. 0 \in Put
  <2>. DEFINE g == [i \in 1..0 |-> s[i]]
  <2>1. g = [i \in 1..0 |-> IF i = 1 THEN s[i] ELSE g[i - 1] \o s[i]]
    OBVIOUS
  <2>. QED  BY <2>1 DEF IsFlat
<1>2. ASSUME NEW m \in Nat, m \in Put
      PROVE  m + 1 \in Put
  <2>1. PICK g : IsFlat(g, s, m)
    BY <1>2
  <2>. DEFINE last == IF m = 0 THEN s[1] ELSE g[m] \o s[m + 1]
              h == [i \in 1..(m + 1) |-> IF i <= m THEN g[i] ELSE last]
  <2>2. \A i \in 1..m : g[i] = IF i = 1 THEN s[i] ELSE g[i - 1] \o s[i]
    BY <2>1 DEF IsFlat
  <2>3. ASSUME NEW i \in 1..(m + 1)
        PROVE  h[i] = IF i = 1 THEN s[i] ELSE h[i - 1] \o s[i]
    <3>1. CASE i = m + 1
      <4>1. h[i] = last /\ (i # 1 => m # 0 /\ h[i - 1] = g[m]) /\ (i = 1 => m = 0)
        BY <3>1
      <4>. QED  BY <3>1, <4>1
    <3>2. CASE i # m + 1
      <4>1. i \in 1..m /\ h[i] = g[i] /\ (i # 1 => h[i - 1] = g[i - 1])
        BY <3>2
      <4>. HIDE DEF h
      <4>. QED  BY <2>2, <4>1
    <3>. QED  BY <3>1, <3>2
  <2>. HIDE DEF h
  <2>4. h = [i \in 1..(m + 1) |-> IF i = 1 THEN s[i] ELSE h[i - 1] \o s[i]]
    <3>. DEFINE r == [i \in 1..(m + 1) |-> IF i = 1 THEN s[i] ELSE h[i - 1] \o s[i]]
    <3>1. \A i \in 1..(m + 1) : h[i] = r[i]
      BY <2>3
    <3>2. h = r
      <4>. HIDE DEF r
      <4>1. DOMAIN h = 1..(m + 1) /\ DOMAIN r = 1..(m + 1) /\ h = [i \in DOMAIN h |-> h[i]]
            /\ r = [i \in DOMAIN r |-> r[i]]
        BY DEF h, r
      <4>. QED  BY <3>1, <4>1
    <3>. QED  BY <3>2
  <2>5. IsFlat(h, s, m + 1)
    BY <2>4 DEF IsFlat
  <2>. QED  BY <2>5
<1>. HIDE DEF Put
<1>3. n \in Put
  BY <1>1, <1>2, AllReached
<1>. QED  BY <1>3 DEF Put

\* The whole has the parts one behind the other.
LEMMA Flattened ==
  ASSUME NEW T, NEW s \in Seq(Seq(T))
  PROVE  /\ FlattenSeq(s) \in Seq(T)
         /\ Len(FlattenSeq(s)) = SumTo(Lengths(s), Len(s))
         /\ \A i \in 1..Len(s) : \A k \in 1..Len(s[i]) :
              FlattenSeq(s)[SumTo(Lengths(s), i - 1) + k] = s[i][k]
<1>. DEFINE n == Len(s)
            sum(i) == SumTo(Lengths(s), i)
<1>1. /\ n \in Nat /\ DOMAIN s = 1..n
      /\ \A i \in 1..n : s[i] \in Seq(T) /\ Len(s[i]) \in Nat /\ Lengths(s)[i] = Len(s[i])
  BY LenProperties, ElementOfSeq DEF Lengths
<1>2. CASE n = 0
  <2>1. s = <<>>
    BY <1>2, EmptySeq
  <2>2. FlattenSeq(s) = <<>>
    BY <1>2, <2>1 DEF FlattenSeq
  <2>3. SumTo(Lengths(s), 0) = 0
    BY SumSteps
  <2>. QED  BY <1>2, <2>2, <2>3, EmptySeq
<1>3. CASE n # 0
  <2>. DEFINE g == CHOOSE h : IsFlat(h, s, n)
  <2>1. FlattenSeq(s) = g[n]
    BY <1>3 DEF FlattenSeq, IsFlat
  <2>2. IsFlat(g, s, n)
    BY <1>1, FlatExists
  <2>3. \A i \in 1..n : g[i] = IF i = 1 THEN s[i] ELSE g[i - 1] \o s[i]
    BY <2>2 DEF IsFlat
  <2>. HIDE DEF g
  <2>. DEFINE Holds(m) == /\ g[m] \in Seq(T)
                          /\ Len(g[m]) = sum(m)
                          /\ \A i \in 1..m : \A k \in 1..Len(s[i]) : g[m][sum(i - 1) + k] = s[i][k]
              Good == {m \in Nat : m + 1 <= n => Holds(m + 1)}
  <2>4. \A k \in 0..n : sum(k) \in Nat
    BY <1>1, SumNat
  <2>5. 0 \in Good
    <3>1. g[1] = s[1] /\ 1 \in 1..n
      BY <1>1, <1>3, <2>3
    <3>2. sum(0) = 0 /\ sum(0 + 1) = sum(0) + Lengths(s)[0 + 1]
      BY SumSteps
    <3>3. Holds(1)
      <4>1. g[1] \in Seq(T) /\ Len(g[1]) = sum(1)
        BY <1>1, <3>1, <3>2
      <4>2. ASSUME NEW i \in 1..1, NEW k \in 1..Len(s[i])
            PROVE  g[1][sum(i - 1) + k] = s[i][k]
        <5>1. i = 1 /\ sum(i - 1) = 0
          BY <3>2
        <5>2. k \in Nat
          OBVIOUS
        <5>. QED  BY <3>1, <5>1, <5>2
      <4>. QED  BY <4>1, <4>2
    <3>. HIDE DEF Holds
    <3>. QED  BY <3>3
  <2>6. ASSUME NEW m \in Nat, m \in Good
        PROVE  m + 1 \in Good
    <3>1. SUFFICES ASSUME m + 2 <= n PROVE Holds(m + 2)
      <4>. HIDE DEF Holds
      <4>. QED  BY <1>1, (m + 1) + 1 = m + 2
    <3>2. Holds(m + 1)
      <4>. HIDE DEF Holds
      <4>. QED  BY <1>1, <2>6, <3>1
    <3>. DEFINE a == g[m + 1]
                b == s[m + 2]
    <3>3. g[m + 2] = a \o b
      <4>1. m + 2 \in 1..n /\ m + 2 # 1 /\ (m + 2) - 1 = m + 1
        BY <1>1, <3>1
      <4>. QED  BY <2>3, <4>1
    <3>4. a \in Seq(T) /\ Len(a) = sum(m + 1)
      BY <3>2
    <3>5. b \in Seq(T) /\ Len(b) \in Nat /\ Lengths(s)[m + 2] = Len(b)
      BY <1>1, <3>1
    <3>6. sum(m + 2) = sum(m + 1) + Len(b)
      <4>1. m + 1 \in Nat /\ (m + 1) + 1 = m + 2
        OBVIOUS
      <4>2. SumTo(Lengths(s), (m + 1) + 1) = SumTo(Lengths(s), m + 1) + Lengths(s)[(m + 1) + 1]
        BY <4>1, SumSteps
      <4>. QED  BY <3>5, <4>1, <4>2
    <3>7. sum(m + 1) \in Nat
      BY <1>1, <2>4, <3>1
    <3>. HIDE DEF a, b
    <3>8. /\ a \o b \in Seq(T) /\ Len(a \o b) = sum(m + 2)
          /\ \A i \in 1..Len(a) : (a \o b)[i] = a[i]
          /\ \A k \in 1..Len(b) : (a \o b)[Len(a) + k] = b[k]
      <4>. HIDE DEF sum
      <4>1. /\ a \o b \in Seq(T) /\ Len(a \o b) = Len(a) + Len(b)
            /\ \A i \in 1..Len(a) + Len(b) :
                 (a \o b)[i] = IF i <= Len(a) THEN a[i] ELSE b[i - Len(a)]
        BY <3>4, <3>5, ConcatProperties
      <4>2. Len(a) \in Nat
        BY <3>4, <3>7
      <4>3. ASSUME NEW k \in 1..Len(b)
            PROVE  (a \o b)[Len(a) + k] = b[k]
        <5>1. /\ Len(a) + k \in 1..Len(a) + Len(b) /\ ~(Len(a) + k <= Len(a))
              /\ (Len(a) + k) - Len(a) = k
          BY <3>5, <4>2
        <5>. QED  BY <4>1, <5>1
      <4>. QED  BY <3>4, <3>5, <3>6, <4>1, <4>2, <4>3
    <3>9. ASSUME NEW i \in 1..(m + 2), NEW k \in 1..Len(s[i])
          PROVE  g[m + 2][sum(i - 1) + k] = s[i][k]
      <4>1. CASE i = m + 2
        <5>1. sum(i - 1) = Len(a) /\ s[i] = b
          BY <3>4, <4>1, (m + 2) - 1 = m + 1 DEF b
        <5>. QED  BY <3>3, <3>8, <5>1
      <4>2. CASE i # m + 2
        <5>1. i \in 1..(m + 1) /\ i - 1 \in Nat /\ (i - 1) + 1 = i /\ i \in 1..n /\ i - 1 \in 0..n
              /\ i \in 0..(m + 1)
          BY <1>1, <3>1, <4>2
        <5>2. a[sum(i - 1) + k] = s[i][k]
          BY <3>2, <5>1 DEF a
        <5>3. sum(i) = sum(i - 1) + Len(s[i])
          <6>1. SumTo(Lengths(s), (i - 1) + 1) = SumTo(Lengths(s), i - 1) + Lengths(s)[(i - 1) + 1]
            BY <5>1, SumSteps
          <6>. QED  BY <1>1, <5>1, <6>1
        <5>4. sum(i) <= sum(m + 1)
          <6>1. m + 1 \in Nat /\ \A j \in 1..(m + 1) : Lengths(s)[j] \in Nat
            BY <1>1, <3>1
          <6>. QED  BY <5>1, <6>1, SumGrows
        <5>5. sum(i - 1) \in Nat /\ Len(s[i]) \in Nat
          BY <1>1, <2>4, <5>1
        <5>6. sum(i - 1) + k \in 1..Len(a)
          <6>. HIDE DEF sum
          <6>. QED  BY <3>4, <3>7, <5>3, <5>4, <5>5
        <5>. HIDE DEF sum
        <5>. QED  BY <3>3, <3>8, <5>2, <5>6
      <4>. QED  BY <4>1, <4>2
    <3>. HIDE DEF sum
    <3>. QED  BY <3>3, <3>8, <3>9
  <2>. HIDE DEF Good
  <2>7. n - 1 \in Good
    <3>1. \A m \in Nat : m \in Good
      BY <2>5, <2>6, AllReached
    <3>. QED  BY <1>1, <1>3, <3>1
  <2>. HIDE DEF Holds
  <2>8. Holds(n)
    BY <1>1, <1>3, <2>7 DEF Good
  <2>. QED  BY <2>1, <2>8 DEF Holds
<1>. QED  BY <1>2, <1>3

\* Where a part lies in the whole.
LEMMA FlattenedPart ==
  ASSUME NEW T, NEW s \in Seq(Seq(T)), NEW i \in 1..Len(s)
  PROVE  /\ SumTo(Lengths(s), i - 1) \in Nat /\ Len(s[i]) \in Nat /\ Len(FlattenSeq(s)) \in Nat
         /\ SumTo(Lengths(s), i - 1) + Len(s[i]) <= Len(FlattenSeq(s))
<1>. DEFINE before == SumTo(Lengths(s), i - 1)
            whole == FlattenSeq(s)
<1>1. /\ Len(s) \in Nat /\ DOMAIN s = 1..Len(s) /\ s[i] \in Seq(T)
      /\ \A j \in 1..Len(s) : Lengths(s)[j] = Len(s[j]) /\ Lengths(s)[j] \in Nat
  BY LenProperties, ElementOfSeq DEF Lengths
<1>2. /\ whole \in Seq(T) /\ Len(whole) = SumTo(Lengths(s), Len(s))
      /\ \A k \in 1..Len(s[i]) : whole[before + k] = s[i][k]
  BY Flattened
<1>3. before \in Nat /\ Len(s[i]) \in Nat /\ Len(whole) \in Nat
  <2>1. i - 1 \in 0..Len(s)
    BY <1>1
  <2>. QED  BY <1>1, <1>2, <2>1, SumNat
<1>4. before + Len(s[i]) <= Len(whole)
  <2>1. i \in 0..Len(s) /\ i - 1 \in Nat /\ (i - 1) + 1 = i
    BY <1>1
  <2>2. SumTo(Lengths(s), (i - 1) + 1) = before + Lengths(s)[(i - 1) + 1]
    BY <2>1, SumSteps
  <2>3. SumTo(Lengths(s), i) <= SumTo(Lengths(s), Len(s))
    BY <1>1, <2>1, SumGrows
  <2>. QED  BY <1>1, <1>2, <2>1, <2>2, <2>3
<1>. QED  BY <1>3, <1>4

\* What lies at a place of s is cut out of it.
LEMMA CutOut ==
  ASSUME NEW T, NEW s, NEW t \in Seq(T), NEW start \in Nat, NEW width \in Nat, Len(t) = width,
         \A k \in 1..width : s[start + k] = t[k]
  PROVE  SubSeq(s, start + 1, start + width) = t
<1>. DEFINE part == SubSeq(s, start + 1, start + width)
<1>1. ASSUME NEW i \in (start + 1)..(start + width)
      PROVE  s[i] \in T
  <2>1. i - start \in 1..width /\ start + (i - start) = i
    OBVIOUS
  <2>2. t[i - start] \in T
    BY <2>1, ElementOfSeq
  <2>. QED  BY <2>1, <2>2
<1>2. /\ part \in Seq(T)
      /\ Len(part) = IF start + 1 <= start + width
                     THEN (start + width) - (start + 1) + 1 ELSE 0
      /\ \A k \in 1..((start + width) - (start + 1) + 1) : part[k] = s[(start + 1) + k - 1]
  BY <1>1, SubSeqProperties
<1>3. (start + width) - (start + 1) + 1 = width
  OBVIOUS
<1>4. Len(part) = width
  BY <1>2, <1>3
<1>5. ASSUME NEW k \in 1..width
      PROVE  part[k] = t[k]
  <2>1. (start + 1) + k - 1 = start + k
    OBVIOUS
  <2>. QED  BY <1>2, <1>3, <2>1
<1>. HIDE DEF part
<1>6. part = t
  BY <1>2, <1>4, <1>5, SeqEqual
<1>. QED  BY <1>6 DEF part

\* What has the parts one behind the other is the whole.
LEMMA IsFlattened ==
  ASSUME NEW T, NEW s \in Seq(Seq(T)), NEW t \in Seq(T),
         Len(t) = SumTo(Lengths(s), Len(s)),
         \A i \in 1..Len(s) : \A k \in 1..Len(s[i]) : t[SumTo(Lengths(s), i - 1) + k] = s[i][k]
  PROVE  FlattenSeq(s) = t
<1>1. /\ FlattenSeq(s) \in Seq(T) /\ Len(FlattenSeq(s)) = Len(t)
      /\ \A i \in 1..Len(s) : \A k \in 1..Len(s[i]) :
           FlattenSeq(s)[SumTo(Lengths(s), i - 1) + k] = s[i][k]
  BY Flattened
<1>2. Len(s) \in Nat /\ \A i \in 1..Len(s) : Lengths(s)[i] = Len(s[i]) /\ Lengths(s)[i] \in Nat
  BY LenProperties, ElementOfSeq DEF Lengths
<1>3. ASSUME NEW p \in 1..Len(t)
      PROVE  FlattenSeq(s)[p] = t[p]
  <2>1. Len(s) \in Nat /\ \A i \in 1..Len(s) : Lengths(s)[i] \in Nat
    BY <1>2
  <2>2. p \in 1..SumTo(Lengths(s), Len(s))
    OBVIOUS
  <2>3. PICK i \in 1..Len(s) : \E k \in 1..Lengths(s)[i] : p = SumTo(Lengths(s), i - 1) + k
    BY <2>1, <2>2, SumPlace
  <2>4. PICK k \in 1..Len(s[i]) : p = SumTo(Lengths(s), i - 1) + k
    BY <1>2, <2>3
  <2>. QED  BY <1>1, <2>4
<1>. QED  BY <1>1, <1>3, SeqEqual

\* A function on the first numbers is a sequence.
LEMMA SeqOfLength ==
  ASSUME NEW S, NEW n \in Nat, NEW s \in [1..n -> S]
  PROVE  s \in Seq(S) /\ Len(s) = n
BY LenProperties


-----------------------------------------------------------------------------
(***************************************************************************)
(* Sequences made of sets and of other sequences.                          *)
(***************************************************************************)
\* A sequence has entries of a set where all of them are in it.
LEMMA EntriesIn ==
  ASSUME NEW T, NEW s \in Seq(T), NEW S, ToSet(s) \subseteq S
  PROVE  s \in Seq(S)
<1>1. DOMAIN s = 1..Len(s) /\ Len(s) \in Nat
  BY LenProperties
<1>2. \A i \in 1..Len(s) : s[i] \in S
  BY <1>1 DEF ToSet
<1>3. s \in [1..Len(s) -> S]
  BY <1>1, <1>2, LenProperties
<1>. QED  BY <1>1, <1>3, SeqOfLength

LEMMA OwnEntries ==
  ASSUME NEW T, NEW s \in Seq(T)
  PROVE  /\ s \in Seq(ToSet(s)) /\ ToSet(s) \subseteq T
         /\ DOMAIN s = 1..Len(s) /\ Len(s) \in Nat
<1>1. ToSet(s) \subseteq T
  BY ElementOfSeq, LenProperties DEF ToSet
<1>. QED  BY <1>1, EntriesIn, LenProperties

\* One sequence behind another.
LEMMA JoinedSets ==
  ASSUME NEW T, NEW s \in Seq(T), NEW t \in Seq(T)
  PROVE  s \o t \in Seq(T) /\ ToSet(s \o t) = ToSet(s) \cup ToSet(t)
<1>1. /\ s \o t \in Seq(T) /\ Len(s \o t) = Len(s) + Len(t)
      /\ Len(s) \in Nat /\ Len(t) \in Nat
      /\ \A i \in 1..Len(s) : (s \o t)[i] = s[i]
      /\ \A i \in 1..Len(t) : (s \o t)[Len(s) + i] = t[i]
  BY ConcatProperties, LenProperties
<1>2. /\ DOMAIN s = 1..Len(s) /\ DOMAIN t = 1..Len(t)
      /\ DOMAIN (s \o t) = 1..(Len(s) + Len(t))
  BY <1>1, LenProperties
<1>3. ASSUME NEW x \in ToSet(s \o t)
      PROVE  x \in ToSet(s) \cup ToSet(t)
  <2>1. PICK i \in 1..(Len(s) + Len(t)) : (s \o t)[i] = x
    BY <1>2 DEF ToSet
  <2>2. CASE i <= Len(s)
    <3>1. i \in 1..Len(s)
      BY <2>2, <1>1
    <3>. QED  BY <3>1, <2>1, <1>1, <1>2 DEF ToSet
  <2>3. CASE ~(i <= Len(s))
    <3>1. i - Len(s) \in 1..Len(t) /\ Len(s) + (i - Len(s)) = i
      BY <2>3, <1>1
    <3>2. t[i - Len(s)] = x
      BY <3>1, <2>1, <1>1
    <3>. QED  BY <3>1, <3>2, <1>2 DEF ToSet
  <2>. QED  BY <2>2, <2>3
<1>4. ASSUME NEW x \in ToSet(s)
      PROVE  x \in ToSet(s \o t)
  <2>1. PICK i \in 1..Len(s) : s[i] = x
    BY <1>2 DEF ToSet
  <2>2. i \in 1..(Len(s) + Len(t)) /\ (s \o t)[i] = x
    BY <2>1, <1>1
  <2>. QED  BY <2>2, <1>2 DEF ToSet
<1>5. ASSUME NEW x \in ToSet(t)
      PROVE  x \in ToSet(s \o t)
  <2>1. PICK i \in 1..Len(t) : t[i] = x
    BY <1>2 DEF ToSet
  <2>2. Len(s) + i \in 1..(Len(s) + Len(t)) /\ (s \o t)[Len(s) + i] = x
    BY <2>1, <1>1
  <2>. QED  BY <2>2, <1>2 DEF ToSet
<1>. QED  BY <1>1, <1>3, <1>4, <1>5

\* Sequences behind one another have what any of them has.
LEMMA FlattenedSet ==
  ASSUME NEW T, NEW s \in Seq(Seq(T))
  PROVE  /\ FlattenSeq(s) \in Seq(T)
         /\ ToSet(FlattenSeq(s)) = UNION {ToSet(s[i]) : i \in DOMAIN s}
<1>. DEFINE whole == FlattenSeq(s)
<1>1. /\ whole \in Seq(T)
      /\ Len(whole) = SumTo(Lengths(s), Len(s))
      /\ \A i \in 1..Len(s) : \A k \in 1..Len(s[i]) :
           whole[SumTo(Lengths(s), i - 1) + k] = s[i][k]
  BY Flattened
<1>2. /\ Len(s) \in Nat /\ DOMAIN s = 1..Len(s)
      /\ \A i \in 1..Len(s) : /\ s[i] \in Seq(T) /\ DOMAIN s[i] = 1..Len(s[i])
                              /\ Lengths(s)[i] = Len(s[i]) /\ Lengths(s)[i] \in Nat
  BY LenProperties, ElementOfSeq DEF Lengths
<1>3. DOMAIN whole = 1..Len(whole) /\ Len(whole) \in Nat
  BY <1>1, LenProperties
<1>. HIDE DEF whole
<1>4. ASSUME NEW x \in ToSet(whole)
      PROVE  \E i \in DOMAIN s : x \in ToSet(s[i])
  <2>1. PICK p \in 1..SumTo(Lengths(s), Len(s)) : whole[p] = x
    BY <1>1, <1>3 DEF ToSet
  <2>2. PICK i \in 1..Len(s) : \E k \in 1..Lengths(s)[i] : p = SumTo(Lengths(s), i - 1) + k
    BY <1>2, SumPlace
  <2>3. PICK k \in 1..Len(s[i]) : p = SumTo(Lengths(s), i - 1) + k
    BY <1>2, <2>2
  <2>4. s[i][k] = x
    BY <1>1, <2>1, <2>3
  <2>. QED  BY <1>2, <2>4 DEF ToSet
<1>5. ASSUME NEW i \in DOMAIN s, NEW x \in ToSet(s[i])
      PROVE  x \in ToSet(whole)
  <2>1. i \in 1..Len(s)
    BY <1>2
  <2>2. PICK k \in 1..Len(s[i]) : s[i][k] = x
    BY <1>2, <2>1 DEF ToSet
  <2>. DEFINE before == SumTo(Lengths(s), i - 1)
  <2>3. before \in Nat /\ Len(s[i]) \in Nat /\ before + Len(s[i]) <= Len(whole)
    BY <2>1, FlattenedPart DEF whole
  <2>4. whole[before + k] = x
    BY <1>1, <2>1, <2>2
  <2>. HIDE DEF before
  <2>5. before + k \in 1..Len(whole)
    BY <1>3, <2>3
  <2>. QED  BY <1>3, <2>4, <2>5 DEF ToSet
<1>. QED  BY <1>1, <1>4, <1>5 DEF whole

\* A sequence of sequences.
LEMMA SeqOfSeqs ==
  ASSUME NEW T, NEW n \in Nat, NEW s, DOMAIN s = 1..n, s = [i \in 1..n |-> s[i]],
         \A i \in 1..n : s[i] \in Seq(T)
  PROVE  s \in Seq(Seq(T)) /\ Len(s) = n
<1>1. s \in [1..n -> Seq(T)]
  OBVIOUS
<1>. QED  BY <1>1, SeqOfLength

\* Each number has its place.
LEMMA EachHasPlace ==
  ASSUME NEW ids \in SUBSET Int, IsFiniteSet(ids), NEW id \in ids
  PROVE  \E k \in 1..Cardinality(ids) : Place(ids, k) = id
<1>1. Before(ids, id) \in SUBSET ids /\ id \notin Before(ids, id)
  BY DEF Before
<1>2. IsFiniteSet(Before(ids, id)) /\ Cardinality(Before(ids, id)) \in Nat /\ Cardinality(ids) \in Nat
  BY <1>1, FS_Subset, FS_CardinalityType
<1>3. Cardinality(Before(ids, id)) < Cardinality(ids)
  <2>1. Before(ids, id) # ids
    BY <1>1
  <2>. QED  BY <1>1, <1>2, <2>1, FS_Subset
<1>. DEFINE k == Cardinality(Before(ids, id)) + 1
<1>4. k \in 1..Cardinality(ids) /\ k \in Nat /\ Cardinality(Before(ids, id)) = k - 1
  BY <1>2, <1>3
<1>. HIDE DEF k
<1>5. Place(ids, k) = id
  BY <1>4, PlaceOf
<1>. QED  BY <1>4, <1>5

\* In order are the values of a function.
LEMMA InOrderSet ==
  ASSUME NEW S, NEW f, IsFiniteSet(DOMAIN f), DOMAIN f \in SUBSET Nat, f \in [DOMAIN f -> S]
  PROVE  InOrder(f) \in Seq(S) /\ ToSet(InOrder(f)) = {f[n] : n \in DOMAIN f}
<1>. DEFINE ids == DOMAIN f
            n == Cardinality(ids)
<1>1. InOrder(f) \in Seq(S) /\ InOrder(f) = [k \in 1..n |-> f[Place(ids, k)]]
  BY InOrderType DEF InOrder
<1>2. \A k \in 1..n : Place(ids, k) \in ids
  BY PlacesInOrder
<1>3. \A id \in ids : \E k \in 1..n : Place(ids, k) = id
  BY EachHasPlace
<1>. HIDE DEF n
<1>4. DOMAIN InOrder(f) = 1..n /\ \A k \in 1..n : InOrder(f)[k] = f[Place(ids, k)]
  BY <1>1
<1>. HIDE DEF ids
<1>5. ToSet(InOrder(f)) = {f[m] : m \in ids}
  <2>1. ASSUME NEW x \in ToSet(InOrder(f))
        PROVE  x \in {f[m] : m \in ids}
    BY <1>2, <1>4 DEF ToSet
  <2>2. ASSUME NEW m \in ids
        PROVE  f[m] \in ToSet(InOrder(f))
    <3>1. PICK k \in 1..n : Place(ids, k) = m
      BY <1>3
    <3>2. InOrder(f)[k] = f[m] /\ k \in DOMAIN InOrder(f)
      BY <3>1, <1>4
    <3>. QED  BY <3>2 DEF ToSet
  <2>. QED  BY <2>1, <2>2
<1>. QED  BY <1>1, <1>5 DEF ids

\* Chosen entries are those at the places.
LEMMA ChosenSet ==
  ASSUME NEW T, NEW s \in Seq(T), NEW places \in SUBSET DOMAIN s
  PROVE  Chosen(s, places) \in Seq(T) /\ ToSet(Chosen(s, places)) = {s[n] : n \in places}
<1>. DEFINE f == [n \in places |-> s[n]]
<1>1. DOMAIN s = 1..Len(s) /\ Len(s) \in Nat /\ \A n \in 1..Len(s) : s[n] \in T
  BY LenProperties, ElementOfSeq
<1>2. IsFiniteSet(places) /\ places \in SUBSET Nat
  <2>1. 1 \in Int /\ Len(s) \in Int
    BY <1>1
  <2>2. IsFiniteSet(1..Len(s))
    BY <2>1, FS_Interval
  <2>. QED  BY <1>1, <2>2, FS_Subset
<1>3. DOMAIN f = places /\ f \in [places -> T] /\ \A n \in places : f[n] = s[n]
  BY <1>1
<1>. HIDE DEF f
<1>4. InOrder(f) \in Seq(T) /\ ToSet(InOrder(f)) = {f[n] : n \in places}
  BY <1>2, <1>3, InOrderSet
<1>5. {f[n] : n \in places} = {s[n] : n \in places}
  BY <1>3
<1>. QED  BY <1>4, <1>5 DEF Chosen, f

\* Backwards.
LEMMA ReversedSet ==
  ASSUME NEW T, NEW s \in Seq(T)
  PROVE  Reverse(s) \in Seq(T) /\ ToSet(Reverse(s)) = ToSet(s)
<1>1. DOMAIN s = 1..Len(s) /\ Len(s) \in Nat /\ \A i \in 1..Len(s) : s[i] \in T
  BY LenProperties, ElementOfSeq
<1>. DEFINE n == Len(s)
<1>2. Reverse(s) = [i \in 1..n |-> s[(n - i) + 1]]
  BY DEF Reverse
<1>3. \A i \in 1..n : (n - i) + 1 \in 1..n /\ (n - ((n - i) + 1)) + 1 = i
  BY <1>1
<1>4. Reverse(s) \in [1..n -> T]
  BY <1>1, <1>2, <1>3
<1>5. Reverse(s) \in Seq(T)
  BY <1>1, <1>4, SeqOfLength
<1>6. ASSUME NEW i \in 1..n
      PROVE  s[i] \in ToSet(Reverse(s))
  <2>1. Reverse(s)[(n - i) + 1] = s[i] /\ (n - i) + 1 \in DOMAIN Reverse(s)
    BY <1>2, <1>3
  <2>. QED  BY <2>1 DEF ToSet
<1>7. ASSUME NEW i \in DOMAIN Reverse(s)
      PROVE  Reverse(s)[i] \in ToSet(s)
  BY <1>1, <1>2, <1>3 DEF ToSet
<1>. QED  BY <1>1, <1>5, <1>6, <1>7 DEF ToSet

-----------------------------------------------------------------------------
(***************************************************************************)
(* Vectors: sequences of whatever they hold.                               *)
(***************************************************************************)
\* One part is the whole.
LEMMA FlattenedOne ==
  ASSUME NEW T, NEW t \in Seq(T), NEW s, DOMAIN s = 1..1, s \in [1..1 -> {t}]
  PROVE  FlattenSeq(s) = t
<1>1. s \in Seq(Seq(T)) /\ Len(s) = 1 /\ s[1] = t
  <2>1. s \in [1..1 -> Seq(T)] /\ s[1] = t
    OBVIOUS
  <2>2. 1 \in Nat
    OBVIOUS
  <2>. QED  BY <2>1, <2>2, SeqOfLength
<1>2. Lengths(s)[1] = Len(t) /\ Len(t) \in Nat
  BY <1>1, LenProperties DEF Lengths
<1>3. SumTo(Lengths(s), 0) = 0 /\ SumTo(Lengths(s), 1) = Len(t)
  <2>1. SumTo(Lengths(s), 0 + 1) = SumTo(Lengths(s), 0) + Lengths(s)[0 + 1]
    BY SumSteps
  <2>. QED  BY <1>2, <2>1, SumSteps
<1>4. Len(t) = SumTo(Lengths(s), Len(s))
  BY <1>1, <1>3
<1>5. ASSUME NEW i \in 1..Len(s), NEW k \in 1..Len(s[i])
      PROVE  t[SumTo(Lengths(s), i - 1) + k] = s[i][k]
  <2>1. i = 1 /\ i - 1 = 0 /\ k \in Nat
    BY <1>1
  <2>. QED  BY <1>1, <1>3, <2>1
<1>. QED  BY <1>1, <1>4, <1>5, IsFlattened

\* Parts of one element each.
LEMMA FlattenedOnes ==
  ASSUME NEW T, NEW n \in Nat, NEW t \in Seq(T), Len(t) = n,
         NEW s \in Seq(Seq(T)), Len(s) = n, \A i \in 1..n : Len(s[i]) = 1 /\ s[i][1] = t[i]
  PROVE  FlattenSeq(s) = t
<1>1. DOMAIN s = 1..n /\ \A i \in 1..n : Lengths(s)[i] = 1
  BY LenProperties DEF Lengths
<1>2. \A j \in 0..n : SumTo(Lengths(s), j) = j
  <2>1. ASSUME NEW j \in 0..n
        PROVE  SumTo(Lengths(s), j) = j
    <3>1. j \in Nat /\ \A i \in 1..j : Lengths(s)[i] = 1
      BY <1>1
    <3>2. SumTo(Lengths(s), j) = j * 1
      BY <3>1, SumConstant
    <3>. QED  BY <3>1, <3>2
  <2>. QED  BY <2>1
<1>3. Len(t) = SumTo(Lengths(s), Len(s))
  BY <1>2
<1>4. ASSUME NEW i \in 1..Len(s), NEW k \in 1..Len(s[i])
      PROVE  t[SumTo(Lengths(s), i - 1) + k] = s[i][k]
  <2>1. i \in 1..n /\ i - 1 \in 0..n /\ (i - 1) + 1 = i
    OBVIOUS
  <2>2. Len(s[i]) = 1 /\ s[i][1] = t[i]
    BY <2>1
  <2>3. k = 1
    BY <2>2
  <2>. QED  BY <1>2, <2>1, <2>2, <2>3
<1>. QED  BY <1>3, <1>4, IsFlattened

\* A list of one.
Alone(x) == [g \in 1..1 |-> x]

LEMMA AloneIs ==
  ASSUME NEW T, NEW x \in T
  PROVE  Alone(x) \in Seq(T) /\ Len(Alone(x)) = 1 /\ Alone(x)[1] = x
<1>1. Alone(x) \in [1..1 -> T] /\ Alone(x)[1] = x /\ 1 \in Nat
  BY DEF Alone
<1>. QED  BY <1>1, SeqOfLength

LEMMA VectorOf ==
  ASSUME NEW n \in Nat, NEW s, DOMAIN s = 1..n, s = [i \in 1..n |-> s[i]]
  PROVE  IsVector(s) /\ ToSet(s) = {s[i] : i \in 1..n} /\ Len(s) = n
<1>1. ToSet(s) = {s[i] : i \in 1..n}
  BY DEF ToSet
<1>2. s \in [1..n -> ToSet(s)]
  BY <1>1
<1>3. s \in Seq(ToSet(s)) /\ Len(s) = n
  BY <1>2, SeqOfLength
<1>. QED  BY <1>1, <1>3 DEF IsVector

LEMMA VectorFacts ==
  ASSUME NEW s, IsVector(s)
  PROVE  /\ s \in Seq(ToSet(s)) /\ Len(s) \in Nat /\ DOMAIN s = 1..Len(s)
         /\ s = [i \in 1..Len(s) |-> s[i]]
         /\ \A i \in DOMAIN s : s[i] \in ToSet(s)
<1>1. s \in Seq(ToSet(s))
  BY DEF IsVector
<1>2. Len(s) \in Nat /\ DOMAIN s = 1..Len(s) /\ s \in [1..Len(s) -> ToSet(s)]
  BY <1>1, LenProperties
<1>. QED  BY <1>1, <1>2 DEF ToSet

LEMMA IntoVector ==
  ASSUME NEW T, NEW s \in Seq(T)
  PROVE  IsVector(s) /\ ToSet(s) \subseteq T
BY OwnEntries DEF IsVector

LEMMA VectorIn ==
  ASSUME NEW s, IsVector(s), NEW T, ToSet(s) \subseteq T
  PROVE  s \in Seq(T)
BY EntriesIn DEF IsVector

LEMMA EmptyVector == IsVector(<<>>) /\ ToSet(<<>>) = {} /\ Len(<<>>) = 0
BY DEF IsVector, ToSet

LEMMA OneVector ==
  ASSUME NEW x
  PROVE  IsVector(<<x>>) /\ ToSet(<<x>>) = {x} /\ Len(<<x>>) = 1
<1>1. <<x>> \in Seq({x}) /\ Len(<<x>>) = 1 /\ DOMAIN <<x>> = 1..1 /\ <<x>>[1] = x
  OBVIOUS
<1>2. ToSet(<<x>>) = {x}
  BY <1>1 DEF ToSet
<1>. QED  BY <1>1, <1>2 DEF IsVector

LEMMA JoinedVectors ==
  ASSUME NEW s, IsVector(s), NEW t, IsVector(t)
  PROVE  /\ IsVector(s \o t) /\ ToSet(s \o t) = ToSet(s) \cup ToSet(t)
         /\ Len(s \o t) = Len(s) + Len(t)
<1>. DEFINE T == ToSet(s) \cup ToSet(t)
<1>1. s \in Seq(T) /\ t \in Seq(T)
  BY VectorIn
<1>. HIDE DEF T
<1>2. s \o t \in Seq(T) /\ ToSet(s \o t) = ToSet(s) \cup ToSet(t)
  BY <1>1, JoinedSets
<1>3. Len(s \o t) = Len(s) + Len(t)
  BY <1>1, ConcatProperties
<1>. QED  BY <1>2, <1>3 DEF IsVector, T

LEMMA FlattenedVectors ==
  ASSUME NEW n \in Nat, NEW s, DOMAIN s = 1..n, s = [i \in 1..n |-> s[i]],
         \A i \in 1..n : IsVector(s[i])
  PROVE  /\ IsVector(FlattenSeq(s))
         /\ ToSet(FlattenSeq(s)) = UNION {ToSet(s[i]) : i \in 1..n}
<1>. DEFINE T == UNION {ToSet(s[i]) : i \in 1..n}
<1>1. \A i \in 1..n : ToSet(s[i]) \subseteq T
  OBVIOUS
<1>. HIDE DEF T
<1>2. \A i \in 1..n : s[i] \in Seq(T)
  BY <1>1, VectorIn
<1>3. s \in Seq(Seq(T))
  BY <1>2, SeqOfSeqs
<1>4. /\ FlattenSeq(s) \in Seq(T)
      /\ ToSet(FlattenSeq(s)) = UNION {ToSet(s[i]) : i \in 1..n}
  BY <1>3, FlattenedSet
<1>. QED  BY <1>4 DEF IsVector, T

LEMMA ChosenVector ==
  ASSUME NEW s, IsVector(s), NEW places \in SUBSET DOMAIN s
  PROVE  IsVector(Chosen(s, places)) /\ ToSet(Chosen(s, places)) = {s[n] : n \in places}
<1>1. /\ Chosen(s, places) \in Seq(ToSet(s))
      /\ ToSet(Chosen(s, places)) = {s[n] : n \in places}
  BY VectorFacts, ChosenSet
<1>. QED  BY <1>1, IntoVector

\* A set of numbers up to a bound has a greatest one.
LEMMA Greatest ==
  ASSUME NEW m \in Nat, NEW S, S \subseteq 0..m, S # {}
  PROVE  Max(S) \in S
<1>. DEFINE Gaps == {m - x : x \in S}
<1>1. Gaps \subseteq Nat /\ Gaps # {}
  OBVIOUS
<1>2. PICK gap \in Gaps : \A other \in Gaps : gap <= other
  BY <1>1, NatLeast
<1>3. PICK x \in S : gap = m - x
  BY <1>2
<1>4. \A y \in S : m - x <= m - y
  BY <1>2, <1>3
<1>5. \A y \in S : x \in Int /\ y \in Int /\ x >= y
  BY <1>4
<1>6. \E z \in S : \A y \in S : z >= y
  BY <1>5
<1>. QED  BY <1>6 DEF Max

LEMMA SingleVector ==
  ASSUME NEW x
  PROVE  /\ IsVector(<<x>>) /\ DOMAIN <<x>> = 1..1 /\ Len(<<x>>) = 1 /\ <<x>>[1] = x
         /\ ToSet(<<x>>) = {x} /\ <<x>> = [i \in 1..1 |-> x]
<1>1. DOMAIN <<x>> = 1..1 /\ Len(<<x>>) = 1 /\ <<x>>[1] = x /\ <<x>> \in Seq({x})
  OBVIOUS
<1>2. ToSet(<<x>>) = {x}
  BY <1>1 DEF ToSet
<1>3. \A i \in 1..1 : i = 1
  OBVIOUS
<1>4. <<x>> = [i \in 1..1 |-> <<x>>[i]]
  BY <1>1
<1>5. [i \in 1..1 |-> <<x>>[i]] = [i \in 1..1 |-> x]
  BY <1>1, <1>3
<1>. QED  BY <1>1, <1>2, <1>4, <1>5 DEF IsVector

LEMMA OnesJoin ==
  ASSUME NEW t, IsVector(t), NEW s, s = [i \in DOMAIN t |-> <<t[i]>>]
  PROVE  FlattenSeq(s) = t
<1>. DEFINE T == ToSet(t)
            n == Len(t)
<1>1. t \in Seq(T) /\ n \in Nat /\ DOMAIN t = 1..n /\ \A i \in 1..n : t[i] \in T
  BY VectorFacts
<1>. HIDE DEF T, n
<1>2. \A i \in 1..n : s[i] = <<t[i]>> /\ s[i] \in Seq(T) /\ Len(s[i]) = 1 /\ s[i][1] = t[i]
  BY <1>1
<1>3. DOMAIN s = 1..n /\ s = [i \in 1..n |-> s[i]]
  BY <1>1
<1>4. s \in Seq(Seq(T)) /\ Len(s) = n
  <2>1. \A i \in 1..n : s[i] \in Seq(T)
    BY <1>2
  <2>2. n \in Nat
    BY <1>1
  <2>3. s \in [1..n -> Seq(T)]
    BY <1>3, <2>1
  <2>. QED  BY <2>2, <2>3, SeqOfLength
<1>5. Len(t) = n /\ n \in Nat /\ t \in Seq(T)
  BY <1>1 DEF n
<1>6. \A i \in 1..n : Len(s[i]) = 1 /\ s[i][1] = t[i]
  BY <1>2
<1>. QED  BY <1>4, <1>5, <1>6, FlattenedOnes

\* A row per row of a vector.
LEMMA MadeVector ==
  ASSUME NEW n \in Nat, NEW s, DOMAIN s = 1..n, NEW t, DOMAIN t = DOMAIN s,
         t = [k \in DOMAIN t |-> t[k]]
  PROVE  IsVector(t) /\ Len(t) = n /\ DOMAIN t = 1..n
<1>1. DOMAIN t = 1..n /\ t = [k \in 1..n |-> t[k]]
  OBVIOUS
<1>. QED  BY <1>1, VectorOf

\* Sequences of sequences that have the same lengths are concatenated alike.
AlignedAt(s, t, p) ==
  \E l \in 1..Len(s) : \E i \in 1..Len(s[l]) :
    FlattenSeq(s)[p] = s[l][i] /\ FlattenSeq(t)[p] = t[l][i]

LEMMA AlignedFlat ==
  ASSUME NEW T, NEW U, NEW s \in Seq(Seq(T)), NEW t \in Seq(Seq(U)), Len(s) = Len(t),
         \A l \in 1..Len(s) : Len(s[l]) = Len(t[l])
  PROVE  /\ Len(FlattenSeq(s)) = Len(FlattenSeq(t))
         /\ \A p \in 1..Len(FlattenSeq(s)) : AlignedAt(s, t, p)
<1>. DEFINE n == Len(s)
<1>1. n \in Nat /\ \A l \in 1..n : s[l] \in Seq(T) /\ t[l] \in Seq(U)
  OBVIOUS
<1>2. /\ Len(FlattenSeq(s)) = SumTo(Lengths(s), n)
      /\ \A l \in 1..n : \A i \in 1..Len(s[l]) :
           FlattenSeq(s)[SumTo(Lengths(s), l - 1) + i] = s[l][i]
  BY Flattened
<1>3. /\ Len(FlattenSeq(t)) = SumTo(Lengths(t), n)
      /\ \A l \in 1..n : \A i \in 1..Len(t[l]) :
           FlattenSeq(t)[SumTo(Lengths(t), l - 1) + i] = t[l][i]
  <2>1. /\ Len(FlattenSeq(t)) = SumTo(Lengths(t), Len(t))
        /\ \A l \in 1..Len(t) : \A i \in 1..Len(t[l]) :
             FlattenSeq(t)[SumTo(Lengths(t), l - 1) + i] = t[l][i]
    BY ONLY t \in Seq(Seq(U)), Flattened
  <2>. QED  BY <2>1
<1>4. \A l \in 1..n : /\ Lengths(s)[l] = Len(s[l]) /\ Lengths(s)[l] = Lengths(t)[l]
                      /\ Lengths(s)[l] \in Nat
  BY <1>1 DEF Lengths
<1>. HIDE DEF n
<1>5. ASSUME NEW m \in 0..n
      PROVE  SumTo(Lengths(s), m) = SumTo(Lengths(t), m)
  <2>1. m \in Nat /\ \A l \in 1..m : Lengths(s)[l] = Lengths(t)[l]
    BY <1>1, <1>4
  <2>. QED  BY <2>1, SumSame
<1>6. Len(FlattenSeq(s)) = Len(FlattenSeq(t))
  BY <1>1, <1>2, <1>3, <1>5
<1>7. ASSUME NEW p \in 1..Len(FlattenSeq(s))
      PROVE  AlignedAt(s, t, p)
  <2>1. \E l \in 1..n : \E i \in 1..Lengths(s)[l] : p = SumTo(Lengths(s), l - 1) + i
    BY <1>1, <1>2, <1>4, SumPlace
  <2>2. PICK l \in 1..n : \E i \in 1..Lengths(s)[l] : p = SumTo(Lengths(s), l - 1) + i
    BY <2>1
  <2>3. PICK i \in 1..Lengths(s)[l] : p = SumTo(Lengths(s), l - 1) + i
    BY <2>2
  <2>4. i \in 1..Len(s[l]) /\ i \in 1..Len(t[l])
    <3>1. Lengths(s)[l] = Len(s[l]) /\ Len(s[l]) = Len(t[l])
      BY <1>4 DEF n
    <3>. QED  BY <2>3, <3>1
  <2>5. SumTo(Lengths(s), l - 1) = SumTo(Lengths(t), l - 1)
    BY <1>1, <1>5
  <2>6. FlattenSeq(s)[p] = s[l][i] /\ FlattenSeq(t)[p] = t[l][i]
    BY <1>2, <1>3, <2>3, <2>4, <2>5
  <2>. QED  BY <2>4, <2>6 DEF AlignedAt, n
<1>. QED  BY <1>6, <1>7

\* A sequence of vectors is a sequence of sequences.
LEMMA VectorsNested ==
  ASSUME NEW n \in Nat, NEW s, DOMAIN s = 1..n, s = [i \in 1..n |-> s[i]],
         \A i \in 1..n : IsVector(s[i])
  PROVE  s \in Seq(Seq(UNION {ToSet(s[i]) : i \in 1..n})) /\ Len(s) = n
<1>. DEFINE T == UNION {ToSet(s[i]) : i \in 1..n}
<1>1. ASSUME NEW i \in 1..n
      PROVE  s[i] \in Seq(T)
  <2>1. ToSet(s[i]) \subseteq T
    OBVIOUS
  <2>. HIDE DEF T
  <2>. QED  BY <2>1, VectorIn
<1>. HIDE DEF T
<1>2. s \in [1..n -> Seq(T)]
  BY <1>1
<1>3. s \in Seq(Seq(T)) /\ Len(s) = n
  BY <1>2, SeqOfLength
<1>. QED  BY <1>3 DEF T

LEMMA GreatestBounds ==
  ASSUME NEW m \in Nat, NEW S, S \subseteq 0..m, S # {}
  PROVE  Max(S) \in S /\ \A y \in S : Max(S) >= y
<1>. DEFINE Gaps == {m - x : x \in S}
<1>1. Gaps \subseteq Nat /\ Gaps # {}
  OBVIOUS
<1>2. PICK gap \in Gaps : \A other \in Gaps : gap <= other
  BY <1>1, NatLeast
<1>3. PICK x \in S : gap = m - x
  BY <1>2
<1>4. \A y \in S : m - x <= m - y
  BY <1>2, <1>3
<1>5. \A y \in S : x \in Int /\ y \in Int /\ x >= y
  BY <1>4
<1>6. \E z \in S : \A y \in S : z >= y
  BY <1>5
<1>. QED  BY <1>6 DEF Max

LEMMA GreatestIs ==
  ASSUME NEW m \in Nat, NEW S, S \subseteq 0..m, S # {}
  PROVE  Max({0} \cup S) = Max(S)
<1>1. Max(S) \in S /\ \A y \in S : Max(S) >= y
  BY GreatestBounds
<1>2. {0} \cup S \subseteq 0..m /\ {0} \cup S # {}
  OBVIOUS
<1>. DEFINE W == {0} \cup S
<1>3. \A y \in W : y \in 0..m
  BY <1>2
<1>. HIDE DEF W
<1>4. Max(W) \in W /\ \A y \in W : Max(W) >= y
  BY <1>2, GreatestBounds DEF W
<1>5. Max(S) \in W /\ \A y \in W : y = 0 \/ y \in S
  BY <1>1 DEF W
<1>. DEFINE a == Max(W)
            b == Max(S)
<1>6. a >= b /\ a \in W
  BY <1>4, <1>5
<1>7. b >= a \/ a = 0
  BY <1>1, <1>5, <1>6
<1>8. a \in 0..m /\ b \in 0..m
  BY <1>3, <1>5, <1>6
<1>9. a = b
  <2>. HIDE DEF a, b
  <2>. QED  BY <1>6, <1>7, <1>8
<1>. QED  BY <1>9 DEF W

LEMMA VectorFinite ==
  ASSUME NEW s, IsVector(s)
  PROVE  IsFiniteSet(ToSet(s)) /\ IsFiniteSet(DOMAIN s)
<1>1. DOMAIN s = 1..Len(s) /\ Len(s) \in Nat /\ s = [k \in 1..Len(s) |-> s[k]]
  BY VectorFacts
<1>2. IsFiniteSet(1..Len(s))
  <2>1. 1 \in Int /\ Len(s) \in Int
    BY <1>1
  <2>. QED  BY <2>1, FS_Interval
<1>3. s \in Surjection(1..Len(s), ToSet(s))
  BY <1>1 DEF Surjection, ToSet
<1>. QED  BY <1>1, <1>2, <1>3, FS_Surjection

\* What is of a kind in one part only is that part.
LEMMA BlockChosen ==
  ASSUME NEW T, NEW s \in Seq(Seq(T)), NEW k \in 1..Len(s), NEW C,
         \A i \in 1..Len(s[k]) : s[k][i] \in C,
         \A j \in 1..Len(s) : j # k => \A i \in 1..Len(s[j]) : s[j][i] \notin C
  PROVE  Chosen(FlattenSeq(s), {p \in DOMAIN FlattenSeq(s) : FlattenSeq(s)[p] \in C}) = s[k]
<1>. DEFINE n == Len(s)
            flat == FlattenSeq(s)
            low == SumTo(Lengths(s), k - 1)
            m == Len(s[k])
            places == {p \in DOMAIN flat : flat[p] \in C}
            f == [p \in places |-> flat[p]]
<1>1. /\ n \in Nat /\ s[k] \in Seq(T)
      /\ \A j \in 1..n : Lengths(s)[j] = Len(s[j]) /\ Lengths(s)[j] \in Nat
  BY DEF Lengths
<1>2. /\ flat \in Seq(T)
      /\ Len(flat) = SumTo(Lengths(s), n)
      /\ \A j \in 1..n : \A i \in 1..Len(s[j]) : flat[SumTo(Lengths(s), j - 1) + i] = s[j][i]
  BY Flattened
<1>3. low \in Nat /\ m \in Nat /\ low + m <= Len(flat) /\ Len(flat) \in Nat
  BY FlattenedPart
<1>4. DOMAIN flat = 1..Len(flat)
  BY <1>2
<1>. HIDE DEF n, flat
<1>5. ASSUME NEW p \in 1..Len(flat), flat[p] \in C
      PROVE  p \in (low + 1)..(low + m)
  <2>1. \E j \in 1..n : \E i \in 1..Lengths(s)[j] : p = SumTo(Lengths(s), j - 1) + i
    <3>1. n \in Nat /\ (\A j \in 1..n : Lengths(s)[j] \in Nat) /\ p \in 1..SumTo(Lengths(s), n)
      BY <1>1, <1>2
    <3>. QED  BY ONLY <3>1, SumPlace
  <2>2. PICK j \in 1..n : \E i \in 1..Lengths(s)[j] : p = SumTo(Lengths(s), j - 1) + i
    BY <2>1
  <2>3. PICK i \in 1..Lengths(s)[j] : p = SumTo(Lengths(s), j - 1) + i
    BY <2>2
  <2>4. Lengths(s)[j] = Len(s[j])
    BY <1>1
  <2>5. flat[p] = s[j][i] /\ i \in 1..Len(s[j])
    BY <1>2, <2>3, <2>4
  <2>6. j = k
    BY <1>5, <2>5 DEF n
  <2>7. p = low + i /\ i \in 1..m
    BY <2>3, <2>5, <2>6
  <2>. HIDE DEF low, m
  <2>. QED  BY <1>3, <2>7
<1>6. ASSUME NEW p \in (low + 1)..(low + m)
      PROVE  p \in 1..Len(flat) /\ flat[p] \in C /\ flat[p] = s[k][p - low]
  <2>1. p \in 1..Len(flat) /\ p - low \in 1..m /\ low + (p - low) = p
    <3>. HIDE DEF low, m
    <3>. QED  BY <1>3
  <2>2. flat[low + (p - low)] = s[k][p - low]
    BY <1>2, <2>1 DEF n
  <2>. QED  BY <2>1, <2>2
<1>7. places = (low + 1)..(low + m)
  BY <1>4, <1>5, <1>6
<1>8. DOMAIN f = (low + 1)..(low + m)
  BY <1>7
<1>. HIDE DEF f, low, m
<1>9. InOrder(f) = [i \in 1..m |-> f[low + i]]
  <2>1. low \in Nat /\ m \in Nat
    BY <1>3
  <2>. QED  BY ONLY <1>8, <2>1, InOrderBlock
<1>10. ASSUME NEW i \in 1..m
       PROVE  f[low + i] = s[k][i]
  <2>1. low + i \in (low + 1)..(low + m) /\ (low + i) - low = i
    BY <1>3
  <2>2. f[low + i] = flat[low + i]
    BY <1>7, <2>1 DEF f
  <2>. QED  BY <1>6, <2>1, <2>2
<1>11. s[k] = [i \in 1..m |-> s[k][i]]
  BY <1>1 DEF m
<1>12. InOrder(f) = s[k]
  BY <1>9, <1>10, <1>11
<1>. QED  BY <1>12 DEF Chosen, f, places, flat

LEMMA MappedVector ==
  ASSUME NEW s, IsVector(s), NEW t, DOMAIN t = DOMAIN s, t = [k \in DOMAIN t |-> t[k]]
  PROVE  IsVector(t)
<1>1. Len(s) \in Nat /\ DOMAIN s = 1..Len(s)
  BY VectorFacts
<1>. QED  BY <1>1, MadeVector

-----------------------------------------------------------------------------
(***************************************************************************)
(* Vectors of one content, and vectors without repetition.                 *)
(***************************************************************************)
Times(s, x) == Cardinality({i \in DOMAIN s : s[i] = x})

SameContent(s, t) ==
  /\ IsVector(s) /\ IsVector(t) /\ ToSet(s) = ToSet(t)
  /\ \A x : Times(s, x) = Times(t, x)

LEMMA TimesCounted ==
  ASSUME NEW s, IsVector(s), NEW x
  PROVE  /\ IsFiniteSet({i \in DOMAIN s : s[i] = x}) /\ Times(s, x) \in Nat
         /\ Chosen(s, {i \in DOMAIN s : s[i] = x}) = [k \in 1..Times(s, x) |-> x]
<1>. DEFINE places == {i \in DOMAIN s : s[i] = x}
            f == [i \in places |-> s[i]]
<1>1. IsFiniteSet(DOMAIN s) /\ DOMAIN s = 1..Len(s) /\ Len(s) \in Nat
  BY VectorFinite, VectorFacts
<1>2. IsFiniteSet(places) /\ places \in SUBSET Int
  BY <1>1, FS_Subset
<1>3. DOMAIN f = places /\ \A i \in places : f[i] = x
  OBVIOUS
<1>4. Chosen(s, places) = InOrder(f)
  BY DEF Chosen
<1>5. Times(s, x) = Cardinality(places)
  BY DEF Times
<1>. HIDE DEF places, f
<1>6. /\ Cardinality(places) \in Nat
      /\ \A k \in 1..Cardinality(places) : Place(places, k) \in places
  BY <1>2, PlacesInOrder
<1>7. InOrder(f) = [k \in 1..Cardinality(places) |-> x]
  BY <1>3, <1>6 DEF InOrder
<1>. QED  BY <1>2, <1>4, <1>5, <1>6, <1>7 DEF places

LEMMA ContentItself ==
  ASSUME NEW s, IsVector(s)
  PROVE  SameContent(s, s)
BY DEF SameContent

LEMMA OccurrencesJoined ==
  ASSUME NEW s, IsVector(s), NEW t, IsVector(t), NEW x
  PROVE  Times(s \o t, x) = Times(s, x) + Times(t, x)
<1>. DEFINE u == s \o t
            m == Len(s)
            n == Len(t)
            P == {i \in DOMAIN s : s[i] = x}
            Q == {i \in DOMAIN t : t[i] = x}
            R == {m + i : i \in Q}
            f == [i \in Q |-> m + i]
<1>1. m \in Nat /\ n \in Nat /\ DOMAIN s = 1..m /\ DOMAIN t = 1..n
  BY VectorFacts
<1>2. DOMAIN u = 1..(m + n) /\ \A i \in 1..(m + n) : u[i] = IF i <= m THEN s[i] ELSE t[i - m]
  <2>1. s \in Seq(ToSet(s) \cup ToSet(t)) /\ t \in Seq(ToSet(s) \cup ToSet(t))
    BY VectorIn
  <2>2. u \in Seq(ToSet(s) \cup ToSet(t)) /\ Len(u) = Len(s) + Len(t)
        /\ \A i \in 1..(Len(s) + Len(t)) : u[i] = IF i <= Len(s) THEN s[i] ELSE t[i - Len(s)]
    BY <2>1, ConcatProperties
  <2>3. DOMAIN u = 1..Len(u)
    BY <2>2
  <2>. QED  BY <2>2, <2>3
<1>3. IsFiniteSet(P) /\ IsFiniteSet(Q)
  BY TimesCounted
<1>. HIDE DEF u, m, n
<1>4. P \subseteq 1..m /\ Q \subseteq 1..n
  BY <1>1
<1>5. {i \in DOMAIN u : u[i] = x} = P \cup R
  <2>1. ASSUME NEW i \in DOMAIN u, u[i] = x
        PROVE  i \in P \cup R
    <3>1. CASE i <= m
      BY <1>1, <1>2, <2>1, <3>1
    <3>2. CASE ~(i <= m)
      <4>1. i - m \in 1..n /\ i = m + (i - m)
        BY <1>1, <1>2, <3>2
      <4>2. t[i - m] = x
        BY <1>2, <2>1, <3>2
      <4>. QED  BY <1>1, <4>1, <4>2
    <3>. QED  BY <3>1, <3>2
  <2>2. ASSUME NEW i \in P
        PROVE  i \in DOMAIN u /\ u[i] = x
    BY <1>1, <1>2
  <2>3. ASSUME NEW i \in Q
        PROVE  m + i \in DOMAIN u /\ u[m + i] = x
    <3>1. i \in 1..n /\ t[i] = x
      BY <1>1
    <3>2. m + i \in 1..(m + n) /\ ~(m + i <= m) /\ (m + i) - m = i
      BY <1>1, <3>1
    <3>. QED  BY <1>2, <3>1, <3>2
  <2>. QED  BY <2>1, <2>2, <2>3
<1>6. P \cap R = {}
  BY <1>1, <1>4
<1>7. ExistsBijection(Q, R)
  <2>1. Q \subseteq Int /\ m \in Int
    BY <1>1, <1>4
  <2>. HIDE DEF Q
  <2>2. f \in [Q -> R] /\ \A i \in Q : f[i] = m + i
    OBVIOUS
  <2>3. \A i, j \in Q : f[i] = f[j] => i = j
    BY <2>1, <2>2
  <2>4. \A y \in R : \E i \in Q : f[i] = y
    BY <2>2
  <2>. HIDE DEF R, f
  <2>5. f \in Bijection(Q, R)
    BY <2>2, <2>3, <2>4 DEF Bijection, Injection, Surjection, IsInjective
  <2>. QED  BY <2>5 DEF ExistsBijection
<1>. HIDE DEF P, Q, R, f
<1>8. IsFiniteSet(R) /\ Cardinality(R) = Cardinality(Q)
  BY <1>3, <1>7, FS_Bijection
<1>9. Cardinality(P \cup R) = Cardinality(P) + Cardinality(R) - Cardinality(P \cap R)
  BY <1>3, <1>8, FS_Union
<1>10. Cardinality(P \cap R) = 0
  BY <1>6, FS_EmptySet
<1>11. Cardinality(P) \in Nat /\ Cardinality(R) \in Nat
  BY <1>3, <1>8, FS_CardinalityType
<1>12. Cardinality(P \cup R) = Cardinality(P) + Cardinality(Q)
  <2>. DEFINE p == Cardinality(P)
              r == Cardinality(R)
  <2>1. p \in Nat /\ r \in Nat /\ Cardinality(P \cup R) = p + r - 0
    BY <1>9, <1>10, <1>11
  <2>. HIDE DEF p, r
  <2>2. p + r - 0 = p + r
    BY <2>1
  <2>. QED  BY <1>8, <2>1, <2>2 DEF p, r
<1>13. Times(u, x) = Cardinality(P \cup R)
  BY <1>5 DEF Times
<1>. QED  BY <1>12, <1>13 DEF Times, P, Q, u

LEMMA ContentJoined ==
  ASSUME NEW s, NEW t, SameContent(s, t), NEW u, NEW v, SameContent(u, v)
  PROVE  SameContent(s \o u, t \o v)
<1>1. IsVector(s) /\ IsVector(t) /\ IsVector(u) /\ IsVector(v)
      /\ ToSet(s) = ToSet(t) /\ ToSet(u) = ToSet(v)
  BY DEF SameContent
<1>2. IsVector(s \o u) /\ ToSet(s \o u) = ToSet(s) \cup ToSet(u)
  BY <1>1, JoinedVectors
<1>3. IsVector(t \o v) /\ ToSet(t \o v) = ToSet(t) \cup ToSet(v)
  BY <1>1, JoinedVectors
<1>4. \A x : Times(s \o u, x) = Times(t \o v, x)
  <2>. TAKE x
  <2>1. Times(s, x) = Times(t, x) /\ Times(u, x) = Times(v, x)
    BY DEF SameContent
  <2>2. Times(s \o u, x) = Times(s, x) + Times(u, x)
    BY <1>1, OccurrencesJoined
  <2>3. Times(t \o v, x) = Times(t, x) + Times(v, x)
    BY <1>1, OccurrencesJoined
  <2>. QED  BY <2>1, <2>2, <2>3
<1>. QED  BY <1>1, <1>2, <1>3, <1>4 DEF SameContent

TellsApart(f, S) == \A x, y \in S : f[x] = f[y] => x = y

MapsRows(f, s, a) == DOMAIN a = DOMAIN s /\ \A k \in DOMAIN s : a[k] = f[s[k]]

LEMMA OccurrencesMapped ==
  ASSUME NEW s, IsVector(s), NEW f, TellsApart(f, ToSet(s)), NEW a, MapsRows(f, s, a), NEW z
  PROVE  /\ \A x \in ToSet(s) : f[x] = z => Times(a, z) = Times(s, x)
         /\ (\A x \in ToSet(s) : f[x] # z) => Times(a, z) = Cardinality({})
<1>1. \A k \in DOMAIN s : s[k] \in ToSet(s)
  BY VectorFacts
<1>2. ASSUME NEW x \in ToSet(s), f[x] = z
      PROVE  Times(a, z) = Times(s, x)
  <2>1. {k \in DOMAIN a : a[k] = z} = {k \in DOMAIN s : s[k] = x}
    BY <1>1, <1>2 DEF TellsApart, MapsRows
  <2>. QED  BY <2>1 DEF Times
<1>3. ASSUME \A x \in ToSet(s) : f[x] # z
      PROVE  Times(a, z) = Cardinality({})
  <2>1. {k \in DOMAIN a : a[k] = z} = {}
    BY <1>1, <1>3 DEF MapsRows
  <2>. QED  BY <2>1 DEF Times
<1>. QED  BY <1>2, <1>3

LEMMA ContentMapped ==
  ASSUME NEW s, NEW t, SameContent(s, t), NEW f, TellsApart(f, ToSet(s)),
         NEW a, a = [k \in DOMAIN s |-> f[s[k]]], NEW b, b = [k \in DOMAIN t |-> f[t[k]]]
  PROVE  SameContent(a, b)
<1>1. /\ IsVector(s) /\ IsVector(t) /\ ToSet(s) = ToSet(t)
      /\ DOMAIN s = 1..Len(s) /\ Len(s) \in Nat /\ DOMAIN t = 1..Len(t) /\ Len(t) \in Nat
  BY VectorFacts DEF SameContent
<1>2. /\ DOMAIN a = DOMAIN s /\ a = [k \in DOMAIN a |-> a[k]]
      /\ \A k \in DOMAIN s : a[k] = f[s[k]]
  OBVIOUS
<1>3. /\ DOMAIN b = DOMAIN t /\ b = [k \in DOMAIN b |-> b[k]]
      /\ \A k \in DOMAIN t : b[k] = f[t[k]]
  OBVIOUS
<1>4. IsVector(a) /\ IsVector(b)
  <2>1. IsVector(a)
    BY ONLY <1>1, <1>2, MadeVector
  <2>2. IsVector(b)
    BY ONLY <1>1, <1>3, MadeVector
  <2>. QED  BY <2>1, <2>2
<1>5. ToSet(a) = {f[x] : x \in ToSet(s)} /\ ToSet(b) = {f[x] : x \in ToSet(t)}
  BY <1>2, <1>3 DEF ToSet
<1>7. MapsRows(f, s, a) /\ MapsRows(f, t, b)
  BY <1>2, <1>3 DEF MapsRows
<1>6. \A z : Times(a, z) = Times(b, z)
  <2>. TAKE z
  <2>1. /\ \A x \in ToSet(s) : f[x] = z => Times(a, z) = Times(s, x)
        /\ (\A x \in ToSet(s) : f[x] # z) => Times(a, z) = Cardinality({})
    BY ONLY TellsApart(f, ToSet(s)), <1>1, <1>7, OccurrencesMapped
  <2>2. /\ \A x \in ToSet(t) : f[x] = z => Times(b, z) = Times(t, x)
        /\ (\A x \in ToSet(t) : f[x] # z) => Times(b, z) = Cardinality({})
    BY ONLY TellsApart(f, ToSet(s)), <1>1, <1>7, OccurrencesMapped
  <2>3. \A x : Times(s, x) = Times(t, x)
    BY DEF SameContent
  <2>. QED  BY <1>1, <2>1, <2>2, <2>3
<1>. QED  BY <1>1, <1>4, <1>5, <1>6 DEF SameContent

Apart(s) == \A i, j \in DOMAIN s : s[i] = s[j] => i = j

LEMMA ApartLength ==
  ASSUME NEW s, IsVector(s), Apart(s)
  PROVE  Len(s) = Cardinality(ToSet(s))
<1>1. Len(s) \in Nat /\ DOMAIN s = 1..Len(s) /\ s = [i \in 1..Len(s) |-> s[i]]
  BY VectorFacts
<1>2. IsFiniteSet(1..Len(s)) /\ Cardinality(1..Len(s)) = Len(s)
  <2>1. 1 \in Int /\ Len(s) \in Int /\ Len(s) - 1 + 1 = Len(s)
    BY <1>1
  <2>2. Cardinality(1..Len(s)) = IF 1 > Len(s) THEN 0 ELSE Len(s) - 1 + 1
    BY <2>1, FS_Interval
  <2>. QED  BY <1>1, <2>1, <2>2, FS_Interval
<1>3. s \in Bijection(1..Len(s), ToSet(s))
  <2>1. s \in [1..Len(s) -> ToSet(s)]
    BY <1>1 DEF ToSet
  <2>2. \A y \in ToSet(s) : \E i \in 1..Len(s) : s[i] = y
    BY <1>1 DEF ToSet
  <2>3. \A i, j \in 1..Len(s) : s[i] = s[j] => i = j
    BY <1>1 DEF Apart
  <2>. QED  BY <2>1, <2>2, <2>3 DEF Bijection, Injection, Surjection, IsInjective
<1>4. ExistsBijection(1..Len(s), ToSet(s))
  BY <1>3 DEF ExistsBijection
<1>. QED  BY <1>2, <1>4, FS_Bijection

LEMMA ChosenApart ==
  ASSUME NEW s, IsVector(s), NEW places \in SUBSET DOMAIN s,
         \A p, q \in places : s[p] = s[q] => p = q
  PROVE  Apart(Chosen(s, places))
<1>1. DOMAIN s = 1..Len(s) /\ Len(s) \in Nat /\ IsFiniteSet(DOMAIN s)
  BY VectorFacts, VectorFinite
<1>2. places \in SUBSET Int /\ IsFiniteSet(places)
  BY <1>1, FS_Subset
<1>3. /\ Cardinality(places) \in Nat
      /\ \A k \in 1..Cardinality(places) : Place(places, k) \in places
      /\ \A j, k \in 1..Cardinality(places) : j < k => Place(places, j) < Place(places, k)
  BY <1>2, PlacesInOrder
<1>4. Chosen(s, places) = [k \in 1..Cardinality(places) |-> s[Place(places, k)]]
  <2>. DEFINE f == [n \in places |-> s[n]]
  <2>1. Chosen(s, places) = InOrder(f) /\ DOMAIN f = places
    BY DEF Chosen
  <2>2. \A k \in 1..Cardinality(places) : f[Place(places, k)] = s[Place(places, k)]
    BY <1>3
  <2>. HIDE DEF f
  <2>. QED  BY <2>1, <2>2 DEF InOrder
<1>5. ASSUME NEW j \in 1..Cardinality(places), NEW k \in 1..Cardinality(places),
             s[Place(places, j)] = s[Place(places, k)]
      PROVE  j = k
  <2>1. Place(places, j) = Place(places, k)
    BY <1>3, <1>5
  <2>2. Place(places, j) \in Int
    BY <1>2, <1>3
  <2>3. j < k \/ k < j \/ j = k
    BY <1>3
  <2>. QED  BY <1>3, <2>1, <2>2, <2>3
<1>. QED  BY <1>4, <1>5 DEF Apart

RowsApart(s) ==
  /\ \A i \in 1..Len(s) : Apart(s[i])
  /\ \A i, j \in 1..Len(s) : \A k \in 1..Len(s[i]), m \in 1..Len(s[j]) :
       s[i][k] = s[j][m] => i = j

LEMMA FlatApart ==
  ASSUME NEW T, NEW s \in Seq(Seq(T)), RowsApart(s)
  PROVE  Apart(FlattenSeq(s))
<1>. DEFINE f == Lengths(s)
            n == Len(s)
            flat == FlattenSeq(s)
<1>1. /\ flat \in Seq(T) /\ Len(flat) = SumTo(f, n)
      /\ \A i \in 1..n : \A k \in 1..Len(s[i]) : flat[SumTo(f, i - 1) + k] = s[i][k]
  BY Flattened
<1>2. n \in Nat /\ \A i \in 1..n : s[i] \in Seq(T) /\ f[i] = Len(s[i]) /\ f[i] \in Nat
  <2>1. n \in Nat /\ DOMAIN s = 1..n /\ \A i \in 1..n : s[i] \in Seq(T)
    BY LenProperties
  <2>2. \A i \in 1..n : Len(s[i]) \in Nat
    BY <2>1, LenProperties
  <2>. QED  BY <2>1, <2>2 DEF Lengths
<1>3. DOMAIN flat = 1..SumTo(f, n)
  BY <1>1, LenProperties
<1>. HIDE DEF f, n, flat
<1>4. ASSUME NEW p \in 1..SumTo(f, n), NEW q \in 1..SumTo(f, n), flat[p] = flat[q]
      PROVE  p = q
  <2>1. \A i \in 1..n : f[i] \in Nat
    BY <1>2
  <2>2. PICK i \in 1..n : \E k \in 1..f[i] : p = SumTo(f, i - 1) + k
    BY <1>2, <2>1, SumPlace
  <2>3. PICK k \in 1..f[i] : p = SumTo(f, i - 1) + k
    BY <2>2
  <2>4. PICK j \in 1..n : \E m \in 1..f[j] : q = SumTo(f, j - 1) + m
    BY <1>2, <2>1, SumPlace
  <2>5. PICK m \in 1..f[j] : q = SumTo(f, j - 1) + m
    BY <2>4
  <2>6. flat[p] = s[i][k] /\ flat[q] = s[j][m]
    BY <1>1, <1>2, <2>3, <2>5
  <2>7. k \in 1..Len(s[i]) /\ m \in 1..Len(s[j])
    BY <1>2
  <2>8. i = j
    BY <1>4, <2>6, <2>7 DEF RowsApart, n
  <2>9. DOMAIN s[i] = 1..Len(s[i])
    BY <1>2, LenProperties
  <2>10. Apart(s[i])
    BY DEF RowsApart, n
  <2>11. k = m
    BY <1>4, <2>6, <2>7, <2>8, <2>9, <2>10 DEF Apart
  <2>. QED  BY <2>3, <2>5, <2>8, <2>11
<1>. QED  BY <1>3, <1>4 DEF Apart, flat

(***************************************************************************)
(* The positions at which rows hold an object.                             *)
(***************************************************************************)
=============================================================================
