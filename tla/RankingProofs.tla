---------------------------- MODULE RankingProofs ----------------------------
(***************************************************************************)
(* What filtering, sorting and cutting a list gives.  An element of a      *)
(* finite ordered set is at the place that the number of elements before   *)
(* it says: these numbers are distinct, and there are as many of them as   *)
(* elements, so that each place is taken.                                  *)
(***************************************************************************)
EXTENDS Ranking, FiniteSetTheorems, TLAPS

Orders(order, S) ==
  /\ \A x \in S : <<x, x>> \notin order
  /\ \A x, y \in S : x # y => <<x, y>> \in order \/ <<y, x>> \in order
  /\ \A x, y, z \in S : <<x, y>> \in order /\ <<y, z>> \in order => <<x, z>> \in order

LEMMA IntervalFacts ==
  ASSUME NEW n \in Nat
  PROVE  IsFiniteSet(1..n) /\ Cardinality(1..n) = n
<1>1. 1 \in Int /\ n \in Int
  OBVIOUS
<1>2. IsFiniteSet(1..n) /\ Cardinality(1..n) = IF 1 > n THEN 0 ELSE n - 1 + 1
  BY <1>1, FS_Interval
<1>3. (IF 1 > n THEN 0 ELSE n - 1 + 1) = n
  OBVIOUS
<1> QED
  BY <1>2, <1>3

\* Before determines the place of an element, and each place is taken.
LEMMA PlaceFacts ==
  ASSUME NEW S, IsFiniteSet(S), NEW order, Orders(order, S)
  PROVE  /\ Cardinality(S) \in Nat
         /\ \A x \in S : Cardinality(Before(S, order, x)) + 1 \in 1..Cardinality(S)
         /\ \A x, y \in S : <<x, y>> \in order =>
              Cardinality(Before(S, order, x)) < Cardinality(Before(S, order, y))
         /\ \A x, y \in S :
              Cardinality(Before(S, order, x)) = Cardinality(Before(S, order, y)) => x = y
         /\ \A n \in 1..Cardinality(S) :
              \E x \in S : Cardinality(Before(S, order, x)) = n - 1
<1> DEFINE N == Cardinality(S)
           b == [x \in S |-> Cardinality(Before(S, order, x))]
           place == [x \in S |-> b[x] + 1]
<1>1. N \in Nat
  BY FS_CardinalityType
<1>2. ASSUME NEW x \in S
      PROVE  /\ Before(S, order, x) \in SUBSET S /\ x \notin Before(S, order, x)
             /\ IsFiniteSet(Before(S, order, x))
             /\ b[x] \in Nat /\ b[x] < N
  <2>1. Before(S, order, x) \in SUBSET S /\ x \notin Before(S, order, x)
    BY DEF Before, Orders
  <2>2. /\ IsFiniteSet(Before(S, order, x))
        /\ Cardinality(Before(S, order, x)) <= N
        /\ (N = Cardinality(Before(S, order, x)) => S = Before(S, order, x))
    BY <2>1, FS_Subset
  <2>3. Cardinality(Before(S, order, x)) \in Nat
    BY <2>2, FS_CardinalityType
  <2> HIDE DEF N
  <2>4. Cardinality(Before(S, order, x)) # N
    BY <2>1, <2>2
  <2> QED
    BY <1>1, <2>1, <2>2, <2>3, <2>4
<1>3. ASSUME NEW x \in S, NEW y \in S, <<x, y>> \in order
      PROVE  b[x] < b[y]
  <2>1. Before(S, order, x) \in SUBSET Before(S, order, y)
    BY <1>3 DEF Before, Orders
  <2>2. x \in Before(S, order, y) /\ x \notin Before(S, order, x)
    BY <1>2, <1>3 DEF Before
  <2>3. /\ Cardinality(Before(S, order, x)) <= Cardinality(Before(S, order, y))
        /\ (Cardinality(Before(S, order, y)) = Cardinality(Before(S, order, x)) =>
              Before(S, order, y) = Before(S, order, x))
    BY <1>2, <2>1, FS_Subset
  <2>4. b[x] <= b[y] /\ b[x] # b[y]
    BY <2>2, <2>3
  <2> QED
    BY <1>2, <2>4
<1> HIDE DEF N
<1>4. place \in [S -> 1..N]
  <2> HIDE DEF b
  <2> QED
    BY <1>1, <1>2
<1>5. ASSUME NEW x \in S, NEW y \in S, b[x] = b[y] PROVE x = y
  <2>1. ~(b[x] < b[y]) /\ ~(b[y] < b[x])
    <3> HIDE DEF b
    <3> QED
      BY <1>2, <1>5
  <2> QED
    BY <1>3, <2>1 DEF Orders
<1>6. place \in Injection(S, 1..N)
  <2>1. \A x, y \in S : place[x] = place[y] => x = y
    <3> HIDE DEF b
    <3> QED
      BY <1>2, <1>5
  <2> HIDE DEF place
  <2> QED
    BY <1>4, <2>1 DEF Injection, IsInjective
<1>7. place \in Surjection(S, 1..N)
  <2>1. IsFiniteSet(1..N) /\ Cardinality(1..N) = N
    BY <1>1, FS_Interval
  <2> QED
    BY <1>6, <2>1, FS_Injection DEF N
<1>8. ASSUME NEW n \in 1..N PROVE \E x \in S : b[x] = n - 1
  <2>1. PICK x \in S : place[x] = n
    <3> HIDE DEF place
    <3> QED
      BY <1>7 DEF Surjection
  <2> HIDE DEF b
  <2> QED
    BY <1>1, <1>2, <2>1
<1>9. ASSUME NEW x \in S PROVE b[x] + 1 \in 1..N
  <2> HIDE DEF b
  <2> QED
    BY <1>1, <1>2
<1> QED
  BY <1>1, <1>3, <1>5, <1>8, <1>9 DEF N

\* The list of a finite ordered set has each element once, in that order.
LEMMA InOrderFacts ==
  ASSUME NEW S, IsFiniteSet(S), NEW order, Orders(order, S)
  PROVE  /\ InOrder(S, order) \in [1..Cardinality(S) -> S]
         /\ \A n \in 1..Cardinality(S) :
              Cardinality(Before(S, order, InOrder(S, order)[n])) = n - 1
         /\ \A x \in S : \E n \in 1..Cardinality(S) : InOrder(S, order)[n] = x
         /\ \A m, n \in 1..Cardinality(S) :
              m < n <=> <<InOrder(S, order)[m], InOrder(S, order)[n]>> \in order
         /\ \A m, n \in 1..Cardinality(S) : InOrder(S, order)[m] = InOrder(S, order)[n] => m = n
<1> DEFINE N == Cardinality(S)
           at == InOrder(S, order)
           b == [x \in S |-> Cardinality(Before(S, order, x))]
<1>1. /\ N \in Nat
      /\ \A x \in S : b[x] + 1 \in 1..N
      /\ \A x, y \in S : <<x, y>> \in order => b[x] < b[y]
      /\ \A x, y \in S : b[x] = b[y] => x = y
      /\ \A n \in 1..N : \E x \in S : b[x] = n - 1
  BY PlaceFacts
<1>2. at = [n \in 1..N |-> CHOOSE x \in S : b[x] = n - 1]
  BY DEF InOrder
<1>3. /\ \A x \in S : <<x, x>> \notin order
      /\ \A x, y \in S : x # y => <<x, y>> \in order \/ <<y, x>> \in order
  BY DEF Orders
<1>4. \A x \in S : b[x] \in Nat
  <2> SUFFICES ASSUME NEW x \in S PROVE b[x] \in Nat
    OBVIOUS
  <2>1. Before(S, order, x) \in SUBSET S
    BY DEF Before
  <2>2. IsFiniteSet(Before(S, order, x))
    BY <2>1, FS_Subset
  <2> QED
    BY <2>2, FS_CardinalityType
<1> HIDE DEF N, at, b
<1>5. ASSUME NEW n \in 1..N PROVE at[n] \in S /\ b[at[n]] = n - 1
  BY <1>1, <1>2
<1>6. at \in [1..N -> S]
  BY <1>2, <1>5
<1>7. ASSUME NEW x \in S PROVE \E n \in 1..N : at[n] = x
  <2>1. b[x] + 1 \in 1..N /\ b[x] = (b[x] + 1) - 1
    BY <1>1, <1>4
  <2>2. at[b[x] + 1] \in S /\ b[at[b[x] + 1]] = b[x]
    BY <1>5, <2>1
  <2> QED
    BY <1>1, <2>1, <2>2
<1>8. ASSUME NEW m \in 1..N, NEW n \in 1..N
      PROVE  (m < n <=> <<at[m], at[n]>> \in order) /\ (at[m] = at[n] => m = n)
  <2>1. at[m] \in S /\ at[n] \in S /\ b[at[m]] = m - 1 /\ b[at[n]] = n - 1
    BY <1>5
  <2>2. at[m] = at[n] => m = n
    BY <1>1, <2>1
  <2>3. <<at[m], at[n]>> \in order => m < n
    BY <1>1, <2>1
  <2>4. <<at[n], at[m]>> \in order => n < m
    BY <1>1, <2>1
  <2>5. m < n => <<at[m], at[n]>> \in order
    BY <1>1, <1>3, <2>1, <2>4
  <2> QED
    BY <2>2, <2>3, <2>5
<1>9. \A n \in 1..N : Cardinality(Before(S, order, at[n])) = n - 1
  BY <1>5 DEF b
<1> QED
  BY <1>6, <1>7, <1>8, <1>9 DEF N, at

-----------------------------------------------------------------------------
(* Filters and sorts.                                                      *)

LEMMA AscendingOrders ==
  ASSUME NEW I \in SUBSET Int
  PROVE  Orders(Ascending(I), I) /\ \A i, j \in I : <<i, j>> \in Ascending(I) <=> i < j
<1>1. \A i, j \in I : <<i, j>> \in Ascending(I) <=> i < j
  BY DEF Ascending
<1> QED
  BY <1>1 DEF Orders

LEMMA ByKeyOrders ==
  ASSUME NEW I \in SUBSET Int, NEW keys, \A i \in I : keys[i] \in Int
  PROVE  /\ Orders(ByKey(I, keys), I)
         /\ \A i, j \in I : <<i, j>> \in ByKey(I, keys)
                              <=> keys[i] > keys[j] \/ (keys[i] = keys[j] /\ i < j)
<1>1. \A i, j \in I : <<i, j>> \in ByKey(I, keys)
                        <=> keys[i] > keys[j] \/ (keys[i] = keys[j] /\ i < j)
  BY DEF ByKey
<1> QED
  BY <1>1 DEF Orders

\* A filtered list has the elements at the chosen positions, in their old order.
LEMMA PickedFacts ==
  ASSUME NEW X, NEW s \in Seq(X), NEW I \in SUBSET DOMAIN s
  PROVE  /\ IsFiniteSet(I) /\ Cardinality(I) \in Nat
         /\ Picked(s, I) \in Seq(X) /\ Len(Picked(s, I)) = Cardinality(I)
         /\ DOMAIN Picked(s, I) = 1..Cardinality(I)
         /\ \E at \in [1..Cardinality(I) -> I] :
              /\ \A n \in 1..Cardinality(I) : Picked(s, I)[n] = s[at[n]]
              /\ \A i \in I : \E n \in 1..Cardinality(I) : at[n] = i
              /\ \A m, n \in 1..Cardinality(I) : m < n <=> at[m] < at[n]
              /\ \A m, n \in 1..Cardinality(I) : at[m] = at[n] => m = n
<1> DEFINE at == InOrder(I, Ascending(I))  N == Cardinality(I)
<1>1. DOMAIN s = 1..Len(s) /\ Len(s) \in Nat /\ \A i \in DOMAIN s : s[i] \in X
  OBVIOUS
<1>2. IsFiniteSet(I) /\ N \in Nat /\ I \in SUBSET Int
  <2>1. IsFiniteSet(1..Len(s)) /\ I \in SUBSET (1..Len(s))
    BY <1>1, FS_Interval
  <2>2. IsFiniteSet(I)
    BY <2>1, FS_Subset
  <2> QED
    BY <2>1, <2>2, FS_CardinalityType
<1>3. /\ at \in [1..N -> I]
      /\ \A i \in I : \E n \in 1..N : at[n] = i
      /\ \A m, n \in 1..N : m < n <=> at[m] < at[n]
      /\ \A m, n \in 1..N : at[m] = at[n] => m = n
  <2>1. /\ Orders(Ascending(I), I)
        /\ \A i, j \in I : <<i, j>> \in Ascending(I) <=> i < j
    BY <1>2, AscendingOrders
  <2>2. /\ at \in [1..N -> I]
        /\ \A i \in I : \E n \in 1..N : at[n] = i
        /\ \A m, n \in 1..N : m < n <=> <<at[m], at[n]>> \in Ascending(I)
        /\ \A m, n \in 1..N : at[m] = at[n] => m = n
    BY <1>2, <2>1, InOrderFacts
  <2> HIDE DEF at, N
  <2> QED
    BY <2>1, <2>2
<1>4. Picked(s, I) = [n \in 1..N |-> s[at[n]]]
  BY <1>3 DEF Picked
<1> HIDE DEF at, N
<1>5. \A n \in 1..N : s[at[n]] \in X
  BY <1>1, <1>3
<1>6. Picked(s, I) \in Seq(X) /\ Len(Picked(s, I)) = N /\ DOMAIN Picked(s, I) = 1..N
  BY <1>2, <1>4, <1>5
<1> QED
  BY <1>2, <1>3, <1>4, <1>6 DEF N

\* Of two elements of a filtered list, the first is from an earlier position.
LEMMA PickedOrder ==
  ASSUME NEW X, NEW s \in Seq(X), NEW I \in SUBSET DOMAIN s
  PROVE  \A i, k \in 1..Cardinality(I) : i < k =>
           \E p, q \in I : Picked(s, I)[i] = s[p] /\ Picked(s, I)[k] = s[q] /\ p < q
<1> DEFINE N == Cardinality(I)
<1>1. /\ DOMAIN Picked(s, I) = 1..N
      /\ \E at \in [1..N -> I] :
           /\ \A n \in 1..N : Picked(s, I)[n] = s[at[n]]
           /\ \A i \in I : \E n \in 1..N : at[n] = i
           /\ \A m, n \in 1..N : m < n <=> at[m] < at[n]
           /\ \A m, n \in 1..N : at[m] = at[n] => m = n
  BY PickedFacts
<1>2. ASSUME NEW i \in 1..N, NEW k \in 1..N, i < k
      PROVE  \E p, q \in I : Picked(s, I)[i] = s[p] /\ Picked(s, I)[k] = s[q] /\ p < q
  <2> HIDE DEF N
  <2> QED
    BY <1>1, <1>2
<1> QED
  BY <1>2

\* What a filtered list contains.
LEMMA PickedElements ==
  ASSUME NEW X, NEW s \in Seq(X), NEW I \in SUBSET DOMAIN s
  PROVE  ToSet(Picked(s, I)) = {s[i] : i \in I}
<1> DEFINE N == Cardinality(I)
<1>2. /\ DOMAIN Picked(s, I) = 1..N
      /\ \E at \in [1..N -> I] :
           /\ \A n \in 1..N : Picked(s, I)[n] = s[at[n]]
           /\ \A i \in I : \E n \in 1..N : at[n] = i
           /\ \A m, n \in 1..N : m < n <=> at[m] < at[n]
           /\ \A m, n \in 1..N : at[m] = at[n] => m = n
  BY PickedFacts
<1> HIDE DEF N
<1>1. PICK at \in [1..N -> I] :
        /\ \A n \in 1..N : Picked(s, I)[n] = s[at[n]]
        /\ \A i \in I : \E n \in 1..N : at[n] = i
  BY <1>2
<1> QED
  BY <1>1, <1>2 DEF ToSet

\* The first element of a filtered list is from the first chosen position.
LEMMA PickedFirst ==
  ASSUME NEW X, NEW s \in Seq(X), NEW I \in SUBSET DOMAIN s
  PROVE  /\ Picked(s, I) = <<>> <=> I = {}
         /\ \A i \in I : (\A j \in I : i <= j) => Picked(s, I)[1] = s[i]
<1> DEFINE N == Cardinality(I)
<1>1. /\ DOMAIN Picked(s, I) = 1..N
      /\ \E at \in [1..N -> I] :
           /\ \A n \in 1..N : Picked(s, I)[n] = s[at[n]]
           /\ \A i \in I : \E n \in 1..N : at[n] = i
           /\ \A m, n \in 1..N : m < n <=> at[m] < at[n]
           /\ \A m, n \in 1..N : at[m] = at[n] => m = n
  BY PickedFacts
<1>2. N \in Nat /\ Picked(s, I) \in Seq(X) /\ Len(Picked(s, I)) = N
  BY PickedFacts
<1> HIDE DEF N
<1>3. PICK at \in [1..N -> I] :
        /\ \A n \in 1..N : Picked(s, I)[n] = s[at[n]]
        /\ \A i \in I : \E n \in 1..N : at[n] = i
        /\ \A m, n \in 1..N : m < n <=> at[m] < at[n]
  BY <1>1
<1>4. Picked(s, I) = <<>> <=> I = {}
  <2>1. Picked(s, I) = <<>> <=> N = 0
    BY <1>2
  <2>2. N # 0 => 1 \in 1..N
    BY <1>2
  <2>3. N = 0 => 1..N = {}
    OBVIOUS
  <2> QED
    BY <1>3, <2>1, <2>2, <2>3
<1>5. ASSUME NEW i \in I, \A j \in I : i <= j PROVE Picked(s, I)[1] = s[i]
  <2>1. PICK n \in 1..N : at[n] = i
    BY <1>3
  <2>2. 1 \in 1..N
    BY <1>2, <2>1
  <2>3. at[1] \in I /\ i <= at[1] /\ at[1] \in Int /\ i \in Int
    BY <1>3, <1>5, <2>2
  <2>4. ~(1 < n)
    BY <1>3, <2>1, <2>2, <2>3
  <2> QED
    BY <1>2, <1>3, <2>1, <2>2, <2>4
<1> QED
  BY <1>4, <1>5

LEMMA SameSize ==
  ASSUME NEW S, IsFiniteSet(S), NEW T, NEW f \in [S -> T],
         \A x, y \in S : f[x] = f[y] => x = y,
         \A z \in T : \E x \in S : f[x] = z
  PROVE  IsFiniteSet(T) /\ Cardinality(T) = Cardinality(S)
<1>1. f \in Bijection(S, T)
  BY DEF Bijection, Injection, IsInjective, Surjection
<1> QED
  BY <1>1, FS_Bijection DEF ExistsBijection

\* The positions in I that have an element of W.
Having(s, I, W) == {i \in I : s[i] \in W}

\* A filtered list has as many elements of a kind as are chosen.
LEMMA PickedCount ==
  ASSUME NEW X, NEW s \in Seq(X), NEW I \in SUBSET DOMAIN s, NEW W
  PROVE  /\ IsFiniteSet(Having(s, I, W))
         /\ Cardinality(Having(Picked(s, I), DOMAIN Picked(s, I), W)) = Cardinality(Having(s, I, W))
<1> DEFINE N == Cardinality(I)
           A == {n \in DOMAIN Picked(s, I) : Picked(s, I)[n] \in W}
           B == {i \in I : s[i] \in W}
<1>1. /\ DOMAIN Picked(s, I) = 1..N
      /\ \E at \in [1..N -> I] :
           /\ \A n \in 1..N : Picked(s, I)[n] = s[at[n]]
           /\ \A i \in I : \E n \in 1..N : at[n] = i
           /\ \A m, n \in 1..N : m < n <=> at[m] < at[n]
           /\ \A m, n \in 1..N : at[m] = at[n] => m = n
  BY PickedFacts
<1>2. N \in Nat /\ IsFiniteSet(I)
  BY PickedFacts
<1> HIDE DEF N
<1>3. PICK at \in [1..N -> I] :
        /\ \A n \in 1..N : Picked(s, I)[n] = s[at[n]]
        /\ \A i \in I : \E n \in 1..N : at[n] = i
        /\ \A m, n \in 1..N : at[m] = at[n] => m = n
  BY <1>1
<1> DEFINE f == [n \in A |-> at[n]]
<1>4. A \in SUBSET (1..N) /\ IsFiniteSet(A)
  <2>1. A \in SUBSET (1..N) /\ IsFiniteSet(1..N)
    BY <1>1, <1>2, FS_Interval
  <2> QED
    BY <2>1, FS_Subset
<1>5. \A n \in 1..N : n \in A <=> at[n] \in B
  BY <1>1, <1>3
<1>6. B \in SUBSET I /\ IsFiniteSet(B)
  BY <1>2, FS_Subset
<1> HIDE DEF A, B
<1>7. /\ f \in [A -> B]
      /\ \A m, n \in A : f[m] = f[n] => m = n
      /\ \A i \in B : \E n \in A : f[n] = i
  <2>1. \A n \in A : n \in 1..N /\ at[n] \in B /\ f[n] = at[n]
    BY <1>4, <1>5
  <2>2. f \in [A -> B]
    BY <2>1
  <2>3. \A m, n \in A : f[m] = f[n] => m = n
    BY <1>3, <2>1
  <2>4. \A i \in B : \E n \in A : f[n] = i
    <3> SUFFICES ASSUME NEW i \in B PROVE \E n \in A : f[n] = i
      OBVIOUS
    <3>1. PICK n \in 1..N : at[n] = i
      BY <1>3, <1>6
    <3>2. n \in A
      BY <1>5, <3>1
    <3> QED
      BY <2>1, <3>1, <3>2
  <2> QED
    BY <2>2, <2>3, <2>4
<1> HIDE DEF f
<1>8. Cardinality(B) = Cardinality(A)
  BY <1>4, <1>7, SameSize
<1> QED
  BY <1>6, <1>8 DEF A, B, Having

\* A sorted list is the old one in another order, and no key is less than a later one.
\* Is at the order in which sorted has the elements of s, the greatest key first?
Sorts(at, s, sorted, keys) ==
  /\ \A n \in 1..Len(s) : sorted[n] = s[at[n]]
  /\ \A i \in 1..Len(s) : \E n \in 1..Len(s) : at[n] = i
  /\ \A m, n \in 1..Len(s) : at[m] = at[n] => m = n
  /\ \A m, n \in 1..Len(s) : m < n => keys[at[m]] >= keys[at[n]]

LEMMA DescendingFacts ==
  ASSUME NEW X, NEW s \in Seq(X), NEW keys, \A i \in DOMAIN s : keys[i] \in Int
  PROVE  /\ Descending(s, keys) \in Seq(X) /\ Len(Descending(s, keys)) = Len(s)
         /\ \E at \in [1..Len(s) -> 1..Len(s)] : Sorts(at, s, Descending(s, keys), keys)
<1> DEFINE I == DOMAIN s  at == InOrder(I, ByKey(I, keys))  N == Len(s)
<1>1. I = 1..N /\ N \in Nat /\ \A i \in I : s[i] \in X
  OBVIOUS
<1>2. IsFiniteSet(I) /\ Cardinality(I) = N
  BY <1>1, FS_Interval
<1>3. Orders(ByKey(I, keys), I)
  BY <1>1, ByKeyOrders
<1>4. /\ at \in [1..N -> I]
      /\ \A i \in I : \E n \in 1..N : at[n] = i
      /\ \A m, n \in 1..N : m < n <=> <<at[m], at[n]>> \in ByKey(I, keys)
      /\ \A m, n \in 1..N : at[m] = at[n] => m = n
  <2> HIDE DEF I
  <2>1. /\ at \in [1..Cardinality(I) -> I]
        /\ \A i \in I : \E n \in 1..Cardinality(I) : at[n] = i
        /\ \A m, n \in 1..Cardinality(I) : m < n <=> <<at[m], at[n]>> \in ByKey(I, keys)
        /\ \A m, n \in 1..Cardinality(I) : at[m] = at[n] => m = n
    BY <1>2, <1>3, InOrderFacts
  <2> HIDE DEF at, N
  <2> QED
    BY <1>2, <2>1
<1>5. Descending(s, keys) = [n \in 1..N |-> s[at[n]]]
  BY <1>4 DEF Descending
<1>6. ASSUME NEW m \in 1..N, NEW n \in 1..N, m < n PROVE keys[at[m]] >= keys[at[n]]
  <2>1. at[m] \in I /\ at[n] \in I /\ <<at[m], at[n]>> \in ByKey(I, keys)
    BY <1>4, <1>6
  <2>2. keys[at[m]] > keys[at[n]] \/ keys[at[m]] = keys[at[n]]
    BY <2>1 DEF ByKey
  <2>3. keys[at[m]] \in Int /\ keys[at[n]] \in Int
    BY <2>1
  <2> QED
    BY <2>2, <2>3
<1> HIDE DEF at, N, I
<1>7. \A n \in 1..N : s[at[n]] \in X
  BY <1>1, <1>4
<1>8. Descending(s, keys) \in Seq(X) /\ Len(Descending(s, keys)) = N
  BY <1>1, <1>5, <1>7
<1>9. at \in [1..N -> 1..N] /\ Sorts(at, s, Descending(s, keys), keys)
  BY <1>1, <1>4, <1>5, <1>6 DEF N, Sorts
<1> QED
  BY <1>8, <1>9 DEF N

\* s[:n] is a prefix; for a negative n what its length is does not matter here.
LEMMA FirstOfFacts ==
  ASSUME NEW X, NEW s \in Seq(X), NEW n \in Int
  PROVE  /\ FirstOf(s, n) \in Seq(X)
         /\ Len(FirstOf(s, n)) \in 0..Len(s)
         /\ n >= 0 => Len(FirstOf(s, n)) = IF n <= Len(s) THEN n ELSE Len(s)
         /\ \A i \in 1..Len(FirstOf(s, n)) : FirstOf(s, n)[i] = s[i]
<1> DEFINE m == IF n >= 0 THEN Min({n, Len(s)}) ELSE Max({0, Len(s) + n})
<1>1. Len(s) \in Nat
  OBVIOUS
<1>2. n >= 0 => m = IF n <= Len(s) THEN n ELSE Len(s)
  BY <1>1 DEF Min
<1>3. n < 0 => m = IF Len(s) + n >= 0 THEN Len(s) + n ELSE 0
  BY <1>1 DEF Max
<1>4. m \in 0..Len(s)
  BY <1>1, <1>2, <1>3
<1>5. FirstOf(s, n) = SubSeq(s, 1, m)
  BY DEF FirstOf
<1> HIDE DEF m
<1>6. /\ SubSeq(s, 1, m) \in Seq(X) /\ Len(SubSeq(s, 1, m)) = m
      /\ \A i \in 1..m : SubSeq(s, 1, m)[i] = s[i]
  BY <1>1, <1>4
<1> QED
  BY <1>2, <1>4, <1>5, <1>6

\* A finite ordered set that is not empty has a first element.
LEMMA FirstElement ==
  ASSUME NEW S, IsFiniteSet(S), S # {}, NEW order, Orders(order, S)
  PROVE  \E x \in S : \A y \in S : <<y, x>> \notin order
<1>1. Cardinality(S) \in Nat /\ Cardinality(S) # 0
  BY FS_CardinalityType, FS_EmptySet
<1>2. PICK x \in S : Cardinality(Before(S, order, x)) = 1 - 1
  BY <1>1, PlaceFacts
<1>3. Before(S, order, x) = {}
  <2>1. Before(S, order, x) \in SUBSET S
    BY DEF Before
  <2>2. IsFiniteSet(Before(S, order, x))
    BY <2>1, FS_Subset
  <2> QED
    BY <1>2, <2>2, FS_EmptySet
<1> QED
  BY <1>3 DEF Before

LEMMA FirstPosition ==
  ASSUME NEW n \in Nat, NEW I \in SUBSET (1..n), I # {}
  PROVE  \E i \in I : \A j \in I : i <= j
<1>1. IsFiniteSet(I) /\ I \in SUBSET Int
  <2>1. IsFiniteSet(1..n)
    BY FS_Interval
  <2>2. IsFiniteSet(I)
    BY <2>1, FS_Subset
  <2>3. \A i \in I : i \in Int
    OBVIOUS
  <2> QED
    BY <2>2, <2>3
<1>2. Orders(Ascending(I), I) /\ \A i, j \in I : <<i, j>> \in Ascending(I) <=> i < j
  BY <1>1, AscendingOrders
<1>3. PICK i \in I : \A j \in I : <<j, i>> \notin Ascending(I)
  BY <1>1, <1>2, FirstElement
<1>4. ASSUME NEW j \in I PROVE i <= j
  <2>1. ~(j < i) /\ i \in Int /\ j \in Int
    BY <1>1, <1>2, <1>3
  <2> QED
    BY <2>1
<1> QED
  BY <1>4

\* What a test of the elements keeps.
LEMMA KeptElements ==
  ASSUME NEW X, NEW s \in Seq(X), NEW wanted
  PROVE  LET kept == Picked(s, {i \in DOMAIN s : s[i] \in wanted})
         IN  kept \in Seq(X) /\ ToSet(kept) = ToSet(s) \intersect wanted
<1> DEFINE I == {i \in DOMAIN s : s[i] \in wanted}
<1>1. I \in SUBSET DOMAIN s
  OBVIOUS
<1>2. {s[i] : i \in I} = ToSet(s) \intersect wanted
  BY DEF ToSet
<1> HIDE DEF I
<1>3. Picked(s, I) \in Seq(X) /\ ToSet(Picked(s, I)) = {s[i] : i \in I}
  BY <1>1, PickedFacts, PickedElements
<1> QED
  BY <1>2, <1>3 DEF I

\* The first occurrences: each element once, in the order of its first mention.
LEMMA FirstMentions ==
  ASSUME NEW X, NEW s \in Seq(X)
  PROVE  LET I == {i \in DOMAIN s : \A k \in 1..(i - 1) : s[k] # s[i]}
         IN  /\ Picked(s, I) \in Seq(X) /\ Len(Picked(s, I)) = Cardinality(I)
             /\ ToSet(Picked(s, I)) = ToSet(s)
             /\ Cardinality(I) = Cardinality(ToSet(s))
<1> DEFINE I == {i \in DOMAIN s : \A k \in 1..(i - 1) : s[k] # s[i]}
           f == [i \in I |-> s[i]]
<1>1. I \in SUBSET DOMAIN s /\ DOMAIN s = 1..Len(s) /\ Len(s) \in Nat
  OBVIOUS
<1>2. ASSUME NEW x \in ToSet(s) PROVE \E i \in I : s[i] = x
  <2> DEFINE J == {i \in DOMAIN s : s[i] = x}
  <2>1. J \in SUBSET (1..Len(s)) /\ J # {}
    BY <1>1, <1>2 DEF ToSet
  <2>2. PICK i \in J : \A j \in J : i <= j
    <3> HIDE DEF J
    <3> QED
      BY <1>1, <2>1, FirstPosition
  <2>3. i \in DOMAIN s /\ s[i] = x /\ \A k \in 1..(i - 1) : s[k] # x
    BY <1>1, <2>2
  <2> QED
    BY <2>3
<1>3. \A i \in I : s[i] \in ToSet(s)
  BY DEF ToSet
<1>4. ASSUME NEW i \in I, NEW j \in I, s[i] = s[j] PROVE i = j
  <2>1. i \in Nat /\ j \in Nat /\ ~(i \in 1..(j - 1)) /\ ~(j \in 1..(i - 1)) /\ i >= 1 /\ j >= 1
    BY <1>1, <1>4
  <2> QED
    BY <2>1
<1> HIDE DEF I
<1>5. f \in Bijection(I, ToSet(s))
  BY <1>2, <1>3, <1>4 DEF Bijection, Injection, IsInjective, Surjection
<1>6. IsFiniteSet(I)
  <2>1. IsFiniteSet(1..Len(s))
    BY <1>1, FS_Interval
  <2> QED
    BY <1>1, <2>1, FS_Subset
<1>7. Cardinality(ToSet(s)) = Cardinality(I)
  BY <1>5, <1>6, FS_Bijection DEF ExistsBijection
<1>8. /\ Picked(s, I) \in Seq(X) /\ Len(Picked(s, I)) = Cardinality(I)
      /\ ToSet(Picked(s, I)) = {s[i] : i \in I}
  BY <1>1, PickedFacts, PickedElements
<1>9. {s[i] : i \in I} = ToSet(s)
  BY <1>2, <1>3
<1> QED
  BY <1>7, <1>8, <1>9 DEF I
=============================================================================
