---------------------------- MODULE NativeProofs -----------------------------
(***************************************************************************)
(* The safety of the native parts, for any number of callers and threads, any *)
(* records, comments and archives, and any widths of codes.                    *)
(***************************************************************************)
EXTENDS MCNative, FiniteSetTheorems, WellFoundedInduction, TLAPS

-----------------------------------------------------------------------------
\* Numbers, and functions on an interval of them.

\* Induction over the numbers, from the well-foundedness of their order.
LEMMA LeastNatural ==
  ASSUME NEW S \in SUBSET Nat, S # {}
  PROVE  \E n \in S : \A m \in S : n <= m
  <1>1. IsWellFoundedOn(OpToRel(<, Nat), Nat)
    BY NatLessThanWellFounded
  <1>2. PICK n \in S : \A m \in S : <<m, n>> \notin OpToRel(<, Nat)
    <2> HIDE DEF OpToRel
    <2> QED
      BY <1>1, WFMin
  <1>3. \A m \in S : <<m, n>> \in OpToRel(<, Nat) <=> m < n
    BY DEF OpToRel
  <1>4. \A m \in S : ~(m < n)
    BY <1>2, <1>3, Zenon
  <1> QED
    BY <1>4

LEMMA Induct ==
  ASSUME NEW S, 0 \in S, \A n \in Nat : n \in S => n + 1 \in S
  PROVE  Nat \subseteq S
  <1> SUFFICES ASSUME Nat \ S # {} PROVE FALSE
    OBVIOUS
  <1>1. PICK n \in Nat \ S : \A m \in Nat \ S : n <= m
    BY LeastNatural
  <1> QED
    BY <1>1

\* From the number lo on.
LEMMA InductFrom ==
  ASSUME NEW lo \in Int, NEW hi \in Int, NEW S,
         lo \in S, \A n \in lo..hi - 1 : n \in S => n + 1 \in S
  PROVE  lo..hi \subseteq S
  <1> DEFINE T == {k \in Nat : lo + k <= hi => lo + k \in S}
  <1>1. 0 \in T
    OBVIOUS
  <1>2. \A k \in Nat : k \in T => k + 1 \in T
    <2> SUFFICES ASSUME NEW k \in Nat, lo + k <= hi => lo + k \in S, lo + (k + 1) <= hi
                 PROVE  lo + (k + 1) \in S
      OBVIOUS
    <2>1. lo + k \in lo..hi - 1 /\ lo + k \in S
      OBVIOUS
    <2>2. lo + (k + 1) = (lo + k) + 1
      OBVIOUS
    <2> QED
      BY <2>1, <2>2
  <1> HIDE DEF T
  <1>3. Nat \subseteq T
    BY <1>1, <1>2, Induct
  <1> USE DEF T
  <1>4. ASSUME NEW n \in lo..hi PROVE n \in S
    <2>1. n - lo \in Nat /\ lo + (n - lo) = n
      OBVIOUS
    <2>2. n - lo \in T
      BY <1>3, <2>1
    <2> QED
      BY <2>1, <2>2
  <1> QED
    BY <1>4

\* f, on an interval, begins with first and goes on with next.
Recursive(f, lo, hi, X, first, next) ==
    /\ f \in [lo..hi -> X]
    /\ \A n \in lo..hi : f[n] = IF n = lo THEN first ELSE next[<<n, f[n - 1]>>]

\* There is such a function.
LEMMA Recursion ==
  ASSUME NEW lo \in Int, NEW hi \in Int, NEW X, NEW first \in X,
         NEW next \in [(lo..hi) \X X -> X]
  PROVE  \E f : Recursive(f, lo, hi, X, first, next)
  <1> DEFINE Good(m, f) == \A n \in lo..m :
                              f[n] = IF n = lo THEN first ELSE next[<<n, f[n - 1]>>]
             S == {m \in lo..hi : \E f \in [lo..m -> X] : Good(m, f)}
  <1>1. CASE lo > hi
    <2>1. lo..hi = {}
      BY <1>1
    <2> DEFINE f == [n \in lo..hi |-> first]
    <2>2. f \in [lo..hi -> X]
      OBVIOUS
    <2> HIDE DEF f
    <2> QED
      BY <2>1, <2>2 DEF Recursive
  <1>2. CASE lo <= hi
    <2>1. lo \in S
      <3> DEFINE f == [n \in lo..lo |-> first]
      <3>1. f \in [lo..lo -> X] /\ Good(lo, f) /\ lo \in lo..hi
        BY <1>2
      <3> HIDE DEF f
      <3> QED
        BY <3>1
    <2>2. \A m \in lo..hi - 1 : m \in S => m + 1 \in S
      <3> SUFFICES ASSUME NEW m \in lo..hi - 1, NEW f \in [lo..m -> X], Good(m, f)
                   PROVE  m + 1 \in S
        OBVIOUS
      <3> DEFINE g == [n \in lo..m + 1 |-> IF n <= m THEN f[n] ELSE next[<<m + 1, f[m]>>]]
      <3>1. m + 1 \in lo..hi /\ m \in lo..m /\ m + 1 # lo /\ m + 1 - 1 = m
        OBVIOUS
      <3>2. next[<<m + 1, f[m]>>] \in X
        BY <3>1
      <3>3. g \in [lo..m + 1 -> X]
        BY <3>2
      <3>4. Good(m + 1, g)
        <4> TAKE n \in lo..m + 1
        <4>1. CASE n = m + 1
          <5>1. g[m + 1] = next[<<m + 1, f[m]>>] /\ g[m] = f[m]
            BY <3>1
          <5>2. n - 1 = m /\ n # lo
            BY <3>1, <4>1
          <5> HIDE DEF g
          <5> QED
            BY <4>1, <5>1, <5>2
        <4>2. CASE n \in lo..m
          <5>1. g[n] = f[n] /\ (n # lo => g[n - 1] = f[n - 1])
            BY <4>2
          <5>2. f[n] = IF n = lo THEN first ELSE next[<<n, f[n - 1]>>]
            BY <4>2
          <5> HIDE DEF g
          <5> QED
            BY <5>1, <5>2
        <4> QED
          BY <4>1, <4>2
      <3> HIDE DEF g, Good
      <3> QED
        BY <3>1, <3>3, <3>4
    <2> HIDE DEF S
    <2>3. lo..hi \subseteq S
      BY <2>1, <2>2, InductFrom
    <2> USE DEF S
    <2>4. PICK f \in [lo..hi -> X] : Good(hi, f)
      <3>1. hi \in S
        BY <1>2, <2>3
      <3> QED
        BY <3>1
    <2> QED
      BY <2>4 DEF Recursive
  <1> QED
    BY <1>1, <1>2

\* Powers of two.
LEMMA Powers == \A n \in Nat : 2^n \in Nat /\ 2^n > 0 /\ 2^(n + 1) = 2 * 2^n
  <1> SUFFICES ASSUME NEW n \in Nat PROVE 2^n \in Nat /\ 2^n > 0 /\ 2^(n + 1) = 2 * 2^n
    OBVIOUS
  <1> DEFINE A == SUBSET (1..n)
             With == [s \in A |-> s \union {n + 1}]
             C == {s \union {n + 1} : s \in A}
  <1>1. /\ IsFiniteSet(1..n) /\ Cardinality(1..n) = n
        /\ IsFiniteSet(1..n + 1) /\ Cardinality(1..n + 1) = n + 1
    BY FS_Interval
  <1>2. /\ IsFiniteSet(A) /\ Cardinality(A) = 2^n
        /\ Cardinality(SUBSET (1..n + 1)) = 2^(n + 1)
    BY <1>1, FS_SUBSET
  <1>3. With \in Bijection(A, C)
    <2>1. \A s, u \in A : With[s] = With[u] => s = u
      <3> SUFFICES ASSUME NEW s \in A, NEW u \in A,
                          s \union {n + 1} = u \union {n + 1}
                   PROVE  s = u
        OBVIOUS
      <3>1. n + 1 \notin s /\ n + 1 \notin u
        OBVIOUS
      <3> QED
        BY <3>1
    <2>2. With \in [A -> C] /\ \A c \in C : \E s \in A : With[s] = c
      OBVIOUS
    <2> HIDE DEF With, A, C
    <2> QED
      BY <2>1, <2>2 DEF Bijection, Injection, Surjection, IsInjective
  <1>4. IsFiniteSet(C) /\ Cardinality(C) = 2^n
    <2> HIDE DEF A, C, With
    <2> QED
      BY <1>2, <1>3, FS_Bijection DEF ExistsBijection
  <1>5. A \intersect C = {}
    OBVIOUS
  <1>6. A \union C = SUBSET (1..n + 1)
    <2>1. ASSUME NEW s \in SUBSET (1..n + 1) PROVE s \in A \union C
      <3>1. CASE n + 1 \notin s
        <4>1. \A i \in s : i \in 1..n
          BY <3>1
        <4> QED
          BY <4>1
      <3>2. CASE n + 1 \in s
        <4>1. s \ {n + 1} \in A
          OBVIOUS
        <4>2. s = (s \ {n + 1}) \union {n + 1}
          BY <3>2
        <4> QED
          BY <4>1, <4>2
      <3> QED
        BY <3>1, <3>2
    <2>2. ASSUME NEW s \in A
          PROVE  s \in SUBSET (1..n + 1) /\ s \union {n + 1} \in SUBSET (1..n + 1)
      OBVIOUS
    <2>3. A \subseteq SUBSET (1..n + 1) /\ C \subseteq SUBSET (1..n + 1)
      BY <2>2, Zenon
    <2> HIDE DEF A, C
    <2> QED
      BY <2>1, <2>3, Zenon
  <1>7. Cardinality(A \union C) = Cardinality(A) + Cardinality(C) - Cardinality(A \intersect C)
    <2> HIDE DEF A, C
    <2> QED
      BY <1>2, <1>4, FS_Union
  <1>8. 2^n \in Nat /\ 2^n > 0
    <2>1. A # {}
      OBVIOUS
    <2> HIDE DEF A
    <2> QED
      BY <1>2, <2>1, FS_CardinalityType, FS_EmptySet
  <1>9. 2^(n + 1) = 2^n + 2^n
    <2>1. Cardinality({}) = 0
      BY FS_EmptySet
    <2>2. Cardinality(A \union C) = 2^(n + 1)
      BY <1>2, <1>6, Zenon
    <2>3. Cardinality(A \intersect C) = 0
      BY <1>5, <2>1, Zenon
    <2> HIDE DEF A, C
    <2> QED
      BY <1>2, <1>4, <1>7, <1>8, <2>2, <2>3
  <1> QED
    BY <1>8, <1>9

LEMMA PowersGrow ==
  ASSUME NEW a \in Nat, NEW b \in Nat, a < b
  PROVE  2^a < 2^b
  <1> DEFINE S == {n \in Nat : 2^a < 2^n}
  <1>1. a + 1 \in S
    BY Powers
  <1>2. \A n \in a + 1..b - 1 : n \in S => n + 1 \in S
    BY Powers
  <1> HIDE DEF S
  <1>3. a + 1..b \subseteq S
    BY <1>1, <1>2, InductFrom
  <1>4. b \in S
    BY <1>3
  <1> QED
    BY <1>4 DEF S

-----------------------------------------------------------------------------
\* Listing.  A set of places has exactly one listing in order.

Place == Nat \X Nat

\* The order of places is a strict total order.
LEMMA PlacesOrdered ==
  /\ \A p \in Place : ~Precedes(p, p)
  /\ \A p, q, r \in Place : Precedes(p, q) /\ Precedes(q, r) => Precedes(p, r)
  /\ \A p, q \in Place : p = q \/ Precedes(p, q) \/ Precedes(q, p)
  BY DEF Place, Precedes

\* A later place has more places before it.
LEMMA RankGrows ==
  ASSUME NEW S \in SUBSET Place, IsFiniteSet(S), NEW p \in S, NEW q \in S, Precedes(p, q)
  PROVE  Rank(p, S) < Rank(q, S)
  <1> DEFINE less(x) == {y \in S : Precedes(y, x)}
  <1>1. less(p) \subseteq less(q)
    BY PlacesOrdered
  <1>2. p \in less(q) /\ p \notin less(p)
    BY PlacesOrdered
  <1>3. IsFiniteSet(less(q)) /\ IsFiniteSet(less(p))
    BY FS_Subset
  <1>4. Cardinality(less(p)) \in Nat /\ Cardinality(less(q)) \in Nat
    BY <1>3, FS_CardinalityType
  <1>5. Cardinality(less(p)) <= Cardinality(less(q)) /\ Cardinality(less(p)) # Cardinality(less(q))
    <2> HIDE DEF less
    <2> QED
      BY <1>1, <1>2, <1>3, FS_Subset
  <1> QED
    BY <1>4, <1>5 DEF Rank

\* A place of S has fewer places before it than S has.
LEMMA RankBounded ==
  ASSUME NEW S \in SUBSET Place, IsFiniteSet(S), NEW p \in S
  PROVE  Rank(p, S) \in 0..Cardinality(S) - 1
  <1> DEFINE less == {y \in S : Precedes(y, p)}
  <1>1. less \subseteq S /\ p \notin less
    BY PlacesOrdered
  <1>2. IsFiniteSet(less) /\ Cardinality(less) <= Cardinality(S) /\ Cardinality(S) # Cardinality(less)
    <2> HIDE DEF less
    <2> QED
      BY <1>1, FS_Subset
  <1>3. Cardinality(less) \in Nat /\ Cardinality(S) \in Nat
    BY <1>2, FS_CardinalityType
  <1> QED
    BY <1>2, <1>3 DEF Rank

\* Every number below the size of S is the rank of exactly one place.
LEMMA RankOnto ==
  ASSUME NEW S \in SUBSET Place, IsFiniteSet(S)
  PROVE  /\ \A p, q \in S : Rank(p, S) = Rank(q, S) => p = q
         /\ \A k \in 1..Cardinality(S) : \E p \in S : Rank(p, S) = k - 1
  <1> DEFINE n == Cardinality(S)
             f == [p \in S |-> Rank(p, S)]
  <1>1. n \in Nat
    BY FS_CardinalityType
  <1>2. \A p, q \in S : Rank(p, S) = Rank(q, S) => p = q
    <2> SUFFICES ASSUME NEW p \in S, NEW q \in S, p # q
                 PROVE  Rank(p, S) # Rank(q, S)
      OBVIOUS
    <2>1. Precedes(p, q) \/ Precedes(q, p)
      BY PlacesOrdered
    <2>2. Rank(p, S) \in Int /\ Rank(q, S) \in Int
      BY <1>1, RankBounded
    <2>3. Rank(p, S) < Rank(q, S) \/ Rank(q, S) < Rank(p, S)
      BY <2>1, RankGrows
    <2> QED
      BY <2>2, <2>3
  <1>3. f \in Injection(S, 0..n - 1)
    BY <1>2, RankBounded DEF Injection, IsInjective
  <1>4. IsFiniteSet(0..n - 1) /\ Cardinality(0..n - 1) = n
    BY <1>1, FS_Interval
  <1>5. f \in Surjection(S, 0..n - 1)
    <2> HIDE DEF f
    <2> QED
      BY <1>3, <1>4, FS_Injection
  <1>6. \A j \in 0..n - 1 : \E p \in S : f[p] = j
    BY <1>5 DEF Surjection
  <1>7. \A k \in 1..n : k - 1 \in 0..n - 1
    BY <1>1
  <1> QED
    BY <1>2, <1>6, <1>7

\* The listing of S holds all of S in order.
LEMMA ListedInOrder ==
  ASSUME NEW S \in SUBSET Place, IsFiniteSet(S)
  PROVE  /\ Listed[S] \in [1..Cardinality(S) -> S]
         /\ \A i, j \in 1..Cardinality(S) : i < j => Precedes(Listed[S][i], Listed[S][j])
         /\ \A p \in S : \E k \in 1..Cardinality(S) : Listed[S][k] = p
  <1> DEFINE n == Cardinality(S)
  <1>1. n \in Nat
    BY FS_CardinalityType
  <1>2. Listed[S] = [k \in 1..n |-> CHOOSE p \in S : Rank(p, S) = k - 1]
    BY DEF Listed, Place
  <1>3. ASSUME NEW k \in 1..n
        PROVE  Listed[S][k] \in S /\ Rank(Listed[S][k], S) = k - 1
    <2>1. \E p \in S : Rank(p, S) = k - 1
      BY RankOnto
    <2>2. Listed[S][k] = CHOOSE p \in S : Rank(p, S) = k - 1
      BY <1>2
    <2> QED
      BY <2>1, <2>2
  <1>4. \A i, j \in 1..n : i < j => Precedes(Listed[S][i], Listed[S][j])
    <2> SUFFICES ASSUME NEW i \in 1..n, NEW j \in 1..n, i < j
                 PROVE  Precedes(Listed[S][i], Listed[S][j])
      OBVIOUS
    <2> DEFINE p == Listed[S][i]
               q == Listed[S][j]
    <2>1. p \in S /\ q \in S /\ Rank(p, S) = i - 1 /\ Rank(q, S) = j - 1
      BY <1>3
    <2> HIDE DEF p, q
    <2>2. ~(Rank(q, S) < Rank(p, S)) /\ Rank(p, S) # Rank(q, S)
      BY <1>1, <2>1
    <2>3. p \in Place /\ q \in Place
      BY <2>1
    <2>4. Precedes(p, q)
      BY <2>1, <2>2, <2>3, RankGrows, PlacesOrdered
    <2> QED
      BY <2>4 DEF p, q
  <1>5. \A p \in S : \E k \in 1..n : Listed[S][k] = p
    <2> TAKE p \in S
    <2> DEFINE k == Rank(p, S) + 1
    <2>1. k \in 1..n /\ k - 1 = Rank(p, S)
      BY <1>1, RankBounded
    <2>2. Listed[S][k] = p
      <3> HIDE DEF k
      <3> QED
        BY <1>3, <2>1, RankOnto
    <2> QED
      BY <2>1, <2>2
  <1>6. Listed[S] \in [1..n -> S]
    BY <1>2, <1>3
  <1> QED
    BY <1>4, <1>5, <1>6

\* Whatever holds all of S in order is the listing of S.
LEMMA ListedUnique ==
  ASSUME NEW S \in SUBSET Place, NEW m \in Nat, NEW f \in [1..m -> S],
         \A i, j \in 1..m : i < j => Precedes(f[i], f[j]),
         \A p \in S : \E k \in 1..m : f[k] = p
  PROVE  IsFiniteSet(S) /\ Cardinality(S) = m /\ f = Listed[S]
  <1>1. \A i, j \in 1..m : f[i] = f[j] => i = j
    <2> SUFFICES ASSUME NEW i \in 1..m, NEW j \in 1..m, i # j
                 PROVE  f[i] # f[j]
      OBVIOUS
    <2>1. i < j \/ j < i
      OBVIOUS
    <2>2. f[i] \in Place /\ f[j] \in Place
      OBVIOUS
    <2> QED
      BY <2>1, <2>2, PlacesOrdered
  <1>2. f \in Bijection(1..m, S)
    BY <1>1 DEF Bijection, Injection, Surjection, IsInjective
  <1>3. IsFiniteSet(1..m) /\ Cardinality(1..m) = m
    BY FS_Interval
  <1>4. IsFiniteSet(S) /\ Cardinality(S) = m
    BY <1>2, <1>3, FS_Bijection DEF ExistsBijection
  <1>5. ASSUME NEW k \in 1..m PROVE Rank(f[k], S) = k - 1
    <2> DEFINE less == {y \in S : Precedes(y, f[k])}
               g == [i \in 1..k - 1 |-> f[i]]
    <2>1. \A i \in 1..m : Precedes(f[i], f[k]) => i < k
      <3> SUFFICES ASSUME NEW i \in 1..m, ~(i < k), Precedes(f[i], f[k])
                   PROVE  FALSE
        OBVIOUS
      <3>1. i = k \/ k < i
        OBVIOUS
      <3>2. f[i] \in Place /\ f[k] \in Place
        OBVIOUS
      <3> QED
        BY <3>1, <3>2, PlacesOrdered
    <2>2. \A i \in 1..k - 1 : i \in 1..m /\ i < k
      OBVIOUS
    <2>3. g \in [1..k - 1 -> less]
      BY <2>2
    <2>4. \A y \in less : \E i \in 1..k - 1 : g[i] = y
      <3> TAKE y \in less
      <3>1. PICK i \in 1..m : f[i] = y
        OBVIOUS
      <3>2. i < k
        BY <2>1, <3>1
      <3>3. i \in 1..k - 1
        BY <3>2
      <3> QED
        BY <3>1, <3>3
    <2>5. \A i, j \in 1..k - 1 : g[i] = g[j] => i = j
      BY <1>1, <2>2
    <2>6. g \in Bijection(1..k - 1, less)
      BY <2>3, <2>4, <2>5 DEF Bijection, Injection, Surjection, IsInjective
    <2>7. IsFiniteSet(1..k - 1) /\ Cardinality(1..k - 1) = k - 1
      BY FS_Interval
    <2>8. Cardinality(less) = k - 1
      <3> HIDE DEF less, g
      <3> QED
        BY <2>6, <2>7, FS_Bijection DEF ExistsBijection
    <2> QED
      BY <2>8 DEF Rank
  <1>6. \A k \in 1..m : Listed[S][k] = f[k]
    <2> TAKE k \in 1..m
    <2>1. Listed[S][k] = CHOOSE p \in S : Rank(p, S) = k - 1
      BY <1>4 DEF Listed, Place
    <2>2. f[k] \in S /\ Rank(f[k], S) = k - 1
      BY <1>5
    <2>3. \A p \in S : Rank(p, S) = k - 1 => p = f[k]
      BY <1>4, <2>2, RankOnto
    <2> QED
      BY <2>1, <2>2, <2>3
  <1>7. Listed[S] \in [1..m -> S]
    BY <1>4, ListedInOrder
  <1> QED
    BY <1>4, <1>6, <1>7

\* The part of a sequence at some indices, by the listing of those indices.
LEMMA PartInOrder ==
  ASSUME NEW list, NEW I \in SUBSET Nat, IsFiniteSet(I)
  PROVE  /\ Cardinality(I) \in Nat
         /\ \E ix \in [1..Cardinality(I) -> I] :
                /\ \A j, k \in 1..Cardinality(I) : j < k => ix[j] < ix[k]
                /\ \A i \in I : \E k \in 1..Cardinality(I) : ix[k] = i
                /\ Part(list, I) = [k \in 1..Cardinality(I) |-> list[ix[k]]]
  <1> DEFINE P == {<<0, i>> : i \in I}
             b == [i \in I |-> <<0, i>>]
  <1>1. P \in SUBSET Place
    BY DEF Place
  <1>2. b \in Bijection(I, P)
    BY DEF Bijection, Injection, Surjection, IsInjective
  <1>3. IsFiniteSet(P) /\ Cardinality(P) = Cardinality(I)
    <2> HIDE DEF b, P
    <2> QED
      BY <1>2, FS_Bijection DEF ExistsBijection
  <1> DEFINE n == Cardinality(I)
             at == Listed[P]
             ix == [k \in 1..n |-> at[k][2]]
  <1>4. n \in Nat
    BY FS_CardinalityType
  <1>5. /\ at \in [1..n -> P]
        /\ \A j, k \in 1..n : j < k => Precedes(at[j], at[k])
        /\ \A p \in P : \E k \in 1..n : at[k] = p
    BY <1>1, <1>3, ListedInOrder
  <1>6. \A k \in 1..n : at[k] = <<0, at[k][2]>> /\ at[k][2] \in I
    <2> TAKE k \in 1..n
    <2>1. PICK i \in I : at[k] = <<0, i>>
      BY <1>5
    <2>2. <<0, i>>[2] = i
      OBVIOUS
    <2> HIDE DEF at, P, n, b
    <2>3. at[k][2] = i
      BY <2>1, <2>2, Zenon
    <2> QED
      BY <2>1, <2>3
  <1>7. ix \in [1..n -> I]
    BY <1>6
  <1>8. \A j, k \in 1..n : j < k => ix[j] < ix[k]
    <2> SUFFICES ASSUME NEW j \in 1..n, NEW k \in 1..n, j < k
                 PROVE  at[j][2] < at[k][2]
      OBVIOUS
    <2>1. Precedes(at[j], at[k])
      BY <1>5
    <2>2. at[j][1] = 0 /\ at[k][1] = 0
      BY <1>6
    <2> HIDE DEF at
    <2> QED
      BY <2>1, <2>2 DEF Precedes
  <1>9. \A i \in I : \E k \in 1..n : ix[k] = i
    <2> TAKE i \in I
    <2>1. PICK k \in 1..n : at[k] = <<0, i>>
      BY <1>5
    <2>2. <<0, i>>[2] = i
      OBVIOUS
    <2>3. ix[k] = at[k][2]
      OBVIOUS
    <2> HIDE DEF ix, at, P, n, b
    <2>4. ix[k] = i
      BY <2>1, <2>2, <2>3, Zenon
    <2> QED
      BY <2>4
  <1>10. Part(list, I) = [k \in 1..n |-> list[ix[k]]]
    <2>1. DOMAIN at = 1..n
      BY <1>5
    <2>2. Part(list, I) = [k \in DOMAIN at |-> list[at[k][2]]]
      BY DEF Part
    <2> HIDE DEF at
    <2> QED
      BY <2>1, <2>2
  <1> HIDE DEF ix
  <1> QED
    BY <1>4, <1>7, <1>8, <1>9, <1>10

\* Whatever lists the indices in order gives the part.
LEMMA PartUnique ==
  ASSUME NEW list, NEW I \in SUBSET Nat, NEW m \in Nat, NEW ix \in [1..m -> I],
         \A j, k \in 1..m : j < k => ix[j] < ix[k],
         \A i \in I : \E k \in 1..m : ix[k] = i
  PROVE  Part(list, I) = [k \in 1..m |-> list[ix[k]]]
  <1> DEFINE P == {<<0, i>> : i \in I}
             f == [k \in 1..m |-> <<0, ix[k]>>]
  <1>1. P \in SUBSET Place
    BY DEF Place
  <1>2. f \in [1..m -> P]
    OBVIOUS
  <1>3. \A j, k \in 1..m : j < k => Precedes(f[j], f[k])
    BY DEF Precedes
  <1>4. \A p \in P : \E k \in 1..m : f[k] = p
    <2> SUFFICES ASSUME NEW i \in I PROVE \E k \in 1..m : f[k] = <<0, i>>
      OBVIOUS
    <2>1. PICK k \in 1..m : ix[k] = i
      OBVIOUS
    <2> QED
      BY <2>1
  <1>5. f = Listed[P]
    <2> HIDE DEF P, f
    <2> QED
      BY <1>1, <1>2, <1>3, <1>4, ListedUnique
  <1>6. Part(list, I) = [k \in DOMAIN f |-> list[f[k][2]]]
    BY <1>5 DEF Part
  <1> QED
    BY <1>6

\* A part of a sequence is a sequence of the same kind.
LEMMA PartType ==
  ASSUME NEW T, NEW list \in Seq(T), NEW I \in SUBSET DOMAIN list
  PROVE  Part(list, I) \in Seq(T)
  <1>1. DOMAIN list = 1..Len(list) /\ Len(list) \in Nat
    OBVIOUS
  <1>2. I \in SUBSET Nat
    BY <1>1
  <1>3. IsFiniteSet(I)
    <2>1. IsFiniteSet(DOMAIN list)
      BY <1>1, FS_Interval
    <2> QED
      BY <2>1, FS_Subset
  <1>4. PICK ix \in [1..Cardinality(I) -> I] :
            Part(list, I) = [k \in 1..Cardinality(I) |-> list[ix[k]]]
    BY <1>2, <1>3, PartInOrder
  <1>5. Cardinality(I) \in Nat
    BY <1>3, FS_CardinalityType
  <1>6. Part(list, I) \in [1..Cardinality(I) -> T]
    BY <1>4
  <1> QED
    BY <1>5, <1>6

-----------------------------------------------------------------------------
\* The single-flight owner.  The three invariants are inductive together: that the
\* thread of a caller which opens anew is not registered any more follows from
\* HolderCanPublish.

FlightInv == FlightTypeOK /\ HolderCanPublish /\ OwnershipEndsWithBlock

\* The initial states satisfy the invariant.
LEMMA FlightInvInit == FlightInit => FlightInv
  <1> SUFFICES ASSUME FlightInit PROVE FlightInv
    OBVIOUS
  <1>1. FlightTypeOK
    BY DEF FlightInit, FlightTypeOK
  <1>2. \A c \in Caller : holder # c
    BY FlightAssumption DEF FlightInit
  <1> QED
    BY <1>1, <1>2 DEF FlightInv, HolderCanPublish, OwnershipEndsWithBlock

\* Waiting for ownership and getting it or not.
LEMMA FlightInvOpening ==
  ASSUME NEW c \in Caller, FlightInv, Open(c) \/ Hit(c) \/ Own(c) \/ WaitTimeout(c)
  PROVE  FlightInv'
  <1> USE FlightAssumption DEF FlightInv, FlightTypeOK, HolderCanPublish,
          OwnershipEndsWithBlock, WorkerGoes, BeaterGoes
  <1>1. CASE Open(c)
    BY <1>1 DEF Open
  <1>2. CASE Hit(c)
    BY <1>2 DEF Hit
  <1>3. CASE Own(c)
    BY <1>3 DEF Own
  <1>4. CASE WaitTimeout(c)
    BY <1>4 DEF WaitTimeout
  <1> QED
    BY <1>1, <1>2, <1>3, <1>4

\* Heartbeats, from the caller's other thread.
LEMMA FlightInvBeating ==
  ASSUME NEW c \in Caller, FlightInv,
         StartBeater(c) \/ StopBeater(c) \/ BeginHeartbeat(c) \/ EndHeartbeat(c)
  PROVE  FlightInv'
  <1> USE FlightAssumption DEF FlightInv, FlightTypeOK, HolderCanPublish,
          OwnershipEndsWithBlock, WorkerGoes, BeaterGoes
  <1>1. CASE StartBeater(c)
    BY <1>1 DEF StartBeater
  <1>2. CASE StopBeater(c)
    BY <1>2 DEF StopBeater
  <1>3. CASE BeginHeartbeat(c)
    BY <1>3 DEF BeginHeartbeat
  <1>4. CASE EndHeartbeat(c)
    BY <1>4 DEF EndHeartbeat
  <1> QED
    BY <1>1, <1>2, <1>3, <1>4

\* Publishing, closing, leaving and dying: what ends an ownership.
LEMMA FlightInvEnding ==
  ASSUME NEW c \in Caller, FlightInv,
         BeginPublish(c) \/ EndPublish(c) \/ Close(c) \/ Leave(c) \/ Collect(c) \/ Die(c)
  PROVE  FlightInv'
  <1> USE FlightAssumption DEF FlightInv, FlightTypeOK, HolderCanPublish,
          OwnershipEndsWithBlock, WorkerGoes, BeaterGoes, Drop
  <1>1. CASE BeginPublish(c)
    BY <1>1 DEF BeginPublish
  <1>2. CASE EndPublish(c)
    BY <1>2 DEF EndPublish
  <1>3. CASE Close(c)
    BY <1>3 DEF Close
  <1>4. CASE Leave(c)
    <2>1. CASE SharedBorrow(c)
      BY <1>4, <2>1 DEF Leave, SharedBorrow
    <2>2. CASE ~SharedBorrow(c)
      BY <1>4, <2>2 DEF Leave, SharedBorrow
    <2> QED
      BY <2>1, <2>2
  <1>5. CASE Collect(c)
    BY <1>5 DEF Collect
  <1>6. CASE Die(c)
    BY <1>6 DEF Die
  <1> QED
    BY <1>1, <1>2, <1>3, <1>4, <1>5, <1>6

\* Every step keeps the invariant.
LEMMA FlightInvStep == FlightInv /\ [FlightNext]_flightVars => FlightInv'
  <1> SUFFICES ASSUME FlightInv, [FlightNext]_flightVars PROVE FlightInv'
    OBVIOUS
  <1>1. CASE FallSilent \/ Evict \/ UNCHANGED flightVars
    BY <1>1 DEF FallSilent, Evict, flightVars, FlightInv, FlightTypeOK, HolderCanPublish,
                OwnershipEndsWithBlock
  <1>2. ASSUME NEW c \in Caller, FlightStep(c) PROVE FlightInv'
    BY <1>2, FlightInvOpening, FlightInvBeating, FlightInvEnding DEF FlightStep
  <1> QED
    BY <1>1, <1>2 DEF FlightNext

\* The inductive invariant holds in every behavior.
THEOREM FlightInvariant == FlightSpec => []FlightInv
  BY FlightInvInit, FlightInvStep, PTL DEF FlightSpec

\* Whatever calls are refused, fail, or are overtaken by another caller, the
\* registered owner can still publish: no waiter waits for one that cannot.
THEOREM HolderPublishes == FlightSpec => []HolderCanPublish
  BY FlightInvariant, PTL DEF FlightInv

\* A caller that left its with-block is registered only if one of its heartbeats
\* was under way when it left.
THEOREM OwnershipEnds == FlightSpec => []OwnershipEndsWithBlock
  BY FlightInvariant, PTL DEF FlightInv

-----------------------------------------------------------------------------
\* Clock products.  While a batch call runs, nobody else changes the records: they
\* are those it began with, and it has at most one verdict for each of them.
BatchAlone ==
    \A t \in Thread : batch[t] # NoBatch =>
        /\ batch[t].kind \in {"retain", "edit"}
        /\ rows = began[t]
        /\ Len(batch[t].verdicts) <= Len(rows)
        /\ \A u \in Thread : u # t => batch[u] = NoBatch

AnyVerdict == {TRUE, FALSE} \union {<<>>} \union {<<r>> : r \in Row}

ClockInv ==
    /\ ClockTypeOK /\ BatchAlone
    /\ batch \in [Thread -> [kind : {"none", "retain", "edit"}, verdicts : Seq(AnyVerdict)]]
    /\ began \in [Thread -> Seq(Row)]

\* A verdict is one of those its call may have.
LEMMA VerdictsAreAny == \A kind : Verdicts(kind) \subseteq AnyVerdict
  BY DEF Verdicts, AnyVerdict

\* The initial states satisfy the invariant.
LEMMA ClockInvInit == ClockInit => ClockInv
  <1> SUFFICES ASSUME ClockInit PROVE ClockInv
    OBVIOUS
  <1>1. /\ rows \in SeqOf(Row, MaxRows) /\ system \in System
        /\ batch = [t \in Thread |-> NoBatch] /\ began = [t \in Thread |-> <<>>]
    BY DEF ClockInit
  <1>2. rows \in Seq(Row)
    <2>1. PICK m \in 0..MaxRows : rows \in [1..m -> Row]
      BY <1>1 DEF SeqOf
    <2>2. m \in Nat
      BY ClockAssumption
    <2> QED
      BY <2>1, <2>2
  <1>3. ClockTypeOK
    <2>1. \A t \in Thread : batch[t].kind = "none" /\ batch[t].verdicts = <<>> /\ began[t] = <<>>
      BY <1>1 DEF NoBatch
    <2>2. \A S : <<>> \in Seq(S)
      OBVIOUS
    <2> QED
      BY <1>1, <1>2, <2>1, <2>2 DEF ClockTypeOK
  <1> QED
    BY <1>1, <1>3 DEF ClockInv, BatchAlone, NoBatch

\* An edit outside of a batch call, while none runs.
LEMMA ClockInvEdit ==
  ASSUME ClockInv, Borrowable, rows' \in Seq(Row), system' \in System,
         UNCHANGED <<batch, began>>
  PROVE  ClockInv'
  BY DEF ClockInv, ClockTypeOK, BatchAlone, Borrowable

\* The edits keep the records a sequence of records.
LEMMA EditedRows ==
  ASSUME ClockInv, NEW r \in Row, NEW i \in Nat, i >= 1
  PROVE  /\ i <= Len(rows) => [rows EXCEPT ![i] = r] \in Seq(Row)
         /\ i <= Len(rows) => RemoveAt(rows, i) \in Seq(Row)
         /\ i <= Len(rows) + 1 => InsertAt(rows, i, r) \in Seq(Row)
  <1>1. rows \in Seq(Row)
    BY DEF ClockInv, ClockTypeOK
  <1>2. i <= Len(rows) => [rows EXCEPT ![i] = r] \in Seq(Row)
    BY <1>1
  <1>3. i <= Len(rows) => RemoveAt(rows, i) \in Seq(Row)
    <2> HAVE i <= Len(rows)
    <2>1. SubSeq(rows, 1, i - 1) \in Seq(Row) /\ SubSeq(rows, i + 1, Len(rows)) \in Seq(Row)
      BY <1>1
    <2> QED
      BY <2>1 DEF RemoveAt
  <1>4. i <= Len(rows) + 1 => InsertAt(rows, i, r) \in Seq(Row)
    <2> HAVE i <= Len(rows) + 1
    <2>1. SubSeq(rows, 1, i - 1) \in Seq(Row) /\ SubSeq(rows, i, Len(rows)) \in Seq(Row)
      BY <1>1
    <2> QED
      BY <2>1 DEF InsertAt
  <1> QED
    BY <1>2, <1>3, <1>4

\* A batch call that ends by itself frees the product.
LEMMA ClockInvEnd ==
  ASSUME ClockInv, NEW t \in Thread, batch[t].kind # "none",
         batch' = [batch EXCEPT ![t] = NoBatch], rows' \in Seq(Row), UNCHANGED <<system, began>>
  PROVE  ClockInv'
  <1>1. batch[t] # NoBatch
    BY DEF NoBatch
  <1>2. \A u \in Thread : batch'[u] = NoBatch
    BY <1>1 DEF ClockInv, BatchAlone
  <1>3. ClockTypeOK'
    <2>1. \A u \in Thread : batch'[u].kind = "none" /\ batch'[u].verdicts = <<>>
      BY <1>2 DEF NoBatch
    <2>2. \A S : <<>> \in Seq(S)
      OBVIOUS
    <2>3. \A u \in Thread : began'[u] \in Seq(Row)
      BY DEF ClockInv, ClockTypeOK
    <2>4. system' \in System
      BY DEF ClockInv, ClockTypeOK
    <2> QED
      BY <2>1, <2>2, <2>3, <2>4 DEF ClockTypeOK
  <1>4. batch' \in [Thread -> [kind : {"none", "retain", "edit"}, verdicts : Seq(AnyVerdict)]]
    BY DEF ClockInv, NoBatch
  <1> QED
    BY <1>2, <1>3, <1>4 DEF ClockInv, BatchAlone

\* At the end of a batch call there is a verdict for every record.
LEMMA AllAnswered ==
  ASSUME ClockInv, NEW t \in Thread, NEW kind \in {"retain", "edit"}, Answered(t, kind)
  PROVE  /\ rows = began[t] /\ rows \in Seq(Row)
         /\ batch[t].kind = kind /\ batch[t] # NoBatch
         /\ batch[t].verdicts \in Seq(Verdicts(kind))
         /\ Len(batch[t].verdicts) = Len(rows)
         /\ DOMAIN batch[t].verdicts = DOMAIN rows
  <1>1. batch[t].kind = kind /\ batch[t] # NoBatch
    BY DEF Answered, NoBatch
  <1>2. rows \in Seq(Row) /\ batch[t].verdicts \in Seq(Verdicts(kind))
    BY <1>1 DEF ClockInv, ClockTypeOK
  <1>3. rows = began[t] /\ Len(batch[t].verdicts) <= Len(rows)
    BY <1>1 DEF ClockInv, BatchAlone
  <1>4. Len(batch[t].verdicts) >= Len(rows)
    BY DEF Answered
  <1>5. Len(batch[t].verdicts) \in Nat /\ Len(rows) \in Nat
    BY <1>2
  <1>6. Len(batch[t].verdicts) = Len(rows)
    BY <1>3, <1>4, <1>5
  <1> QED
    BY <1>1, <1>2, <1>3, <1>6

\* What the end of each kind of batch call writes, where every record has a verdict.
LEMMA RetainedRows ==
  ASSUME ClockInv, NEW t \in Thread, FinishRetain(t)
  PROVE  rows' = Kept(began[t], batch[t].verdicts) /\ rows' \in Seq(Row)
  <1> DEFINE v == batch[t].verdicts
             I == {i \in DOMAIN rows : i \in DOMAIN v => v[i]}
  <1>1. /\ rows = began[t] /\ rows \in Seq(Row) /\ DOMAIN v = DOMAIN rows
    BY AllAnswered DEF FinishRetain
  <1>2. rows' = Part(rows, I)
    BY DEF FinishRetain
  <1>3. I = {i \in DOMAIN rows : v[i]}
    BY <1>1
  <1>4. rows' = Kept(began[t], v)
    BY <1>1, <1>2, <1>3 DEF Kept
  <1>5. I \in SUBSET DOMAIN rows
    OBVIOUS
  <1> HIDE DEF I
  <1>6. Part(rows, I) \in Seq(Row)
    BY <1>1, <1>5, PartType
  <1> QED
    BY <1>2, <1>4, <1>6

LEMMA RewrittenRows ==
  ASSUME ClockInv, NEW t \in Thread, FinishEdit(t)
  PROVE  /\ rows' = began[t] \/ rows' = Rewritten(began[t], batch[t].verdicts)
         /\ rows' \in Seq(Row)
  <1> DEFINE v == batch[t].verdicts
             w == [i \in DOMAIN rows |->
                      IF i \in DOMAIN v /\ v[i] # <<>> THEN v[i][1] ELSE rows[i]]
  <1>1. /\ rows = began[t] /\ rows \in Seq(Row) /\ DOMAIN v = DOMAIN rows
        /\ v \in Seq(Verdicts("edit"))
    BY AllAnswered DEF FinishEdit
  <1>2. rows' = w \/ rows' = rows
    BY DEF FinishEdit
  <1>3. w = Rewritten(began[t], v)
    BY <1>1 DEF Rewritten
  <1>4. w \in Seq(Row)
    <2>1. \A i \in 1..Len(rows) : w[i] \in Row
      <3> TAKE i \in 1..Len(rows)
      <3>1. i \in DOMAIN rows /\ i \in DOMAIN v /\ rows[i] \in Row
        BY <1>1
      <3>2. v[i] \in Verdicts("edit")
        BY <1>1, <3>1
      <3>3. v[i] = <<>> \/ \E r \in Row : v[i] = <<r>>
        BY <3>2 DEF Verdicts
      <3>4. v[i] # <<>> => v[i][1] \in Row
        BY <3>3
      <3> HIDE DEF v
      <3> QED
        BY <3>1, <3>4
    <2>2. w \in [1..Len(rows) -> Row] /\ Len(rows) \in Nat
      <3>1. DOMAIN rows = 1..Len(rows) /\ Len(rows) \in Nat
        BY <1>1
      <3>2. DOMAIN w = 1..Len(rows)
        BY <3>1
      <3> QED
        BY <2>1, <3>1, <3>2
    <2> HIDE DEF w
    <2> QED
      BY <2>2
  <1> HIDE DEF w
  <1> QED
    BY <1>1, <1>2, <1>3, <1>4

\* Beginning a batch call takes the product: nobody else is in one.
LEMMA ClockInvBegin ==
  ASSUME ClockInv, NEW t \in Thread, NEW kind \in {"retain", "edit"}, BeginBatch(t, kind)
  PROVE  ClockInv'
  <1> DEFINE b == [kind |-> kind, verdicts |-> <<>>]
  <1>1. /\ rows \in Seq(Row) /\ Len(rows) \in Nat /\ system \in System
        /\ batch \in [Thread -> [kind : {"none", "retain", "edit"}, verdicts : Seq(AnyVerdict)]]
        /\ began \in [Thread -> Seq(Row)]
    BY DEF ClockInv, ClockTypeOK
  <1>2. /\ batch' = [batch EXCEPT ![t] = b] /\ began' = [began EXCEPT ![t] = rows]
        /\ rows' = rows /\ system' = system /\ \A u \in Thread : batch[u] = NoBatch
    BY DEF BeginBatch, Borrowable
  <1>3. \A S : <<>> \in Seq(S)
    OBVIOUS
  <1>4. b \in [kind : {"none", "retain", "edit"}, verdicts : Seq(AnyVerdict)]
    BY <1>3
  <1>5. batch' \in [Thread -> [kind : {"none", "retain", "edit"}, verdicts : Seq(AnyVerdict)]]
    BY <1>1, <1>2, <1>4
  <1>6. began' \in [Thread -> Seq(Row)]
    BY <1>1, <1>2
  <1>7. /\ batch'[t] = b /\ began'[t] = rows
        /\ \A u \in Thread : u # t => batch'[u] = NoBatch
    BY <1>1, <1>2
  <1>8. BatchAlone'
    <2>1. \A u \in Thread : batch'[u] # NoBatch => u = t
      BY <1>7
    <2>2. b.kind = kind /\ Len(b.verdicts) = 0
      OBVIOUS
    <2> HIDE DEF b
    <2> QED
      BY <1>1, <1>2, <1>7, <2>1, <2>2 DEF BatchAlone
  <1>9. ClockTypeOK'
    <2>1. \A u \in Thread : batch'[u] = b \/ batch'[u] = NoBatch
      BY <1>7
    <2>2. \A u \in Thread : /\ batch'[u].kind \in {"none", "retain", "edit"}
                            /\ batch'[u].verdicts = <<>>
      BY <2>1 DEF NoBatch
    <2> QED
      BY <1>1, <1>2, <1>3, <1>6, <2>2 DEF ClockTypeOK
  <1> QED
    BY <1>5, <1>6, <1>8, <1>9 DEF ClockInv

\* A call back adds one verdict; no other call runs.
LEMMA ClockInvCallBack ==
  ASSUME ClockInv, NEW t \in Thread, CallBack(t)
  PROVE  ClockInv'
  <1>1. PICK v \in Verdicts(batch[t].kind) :
            batch' = [batch EXCEPT ![t].verdicts = Append(@, v)]
    BY DEF CallBack
  <1> DEFINE old == batch[t].verdicts
             b == [batch[t] EXCEPT !.verdicts = Append(old, v)]
  <1>2. /\ rows \in Seq(Row) /\ Len(rows) \in Nat /\ system \in System
        /\ batch \in [Thread -> [kind : {"none", "retain", "edit"}, verdicts : Seq(AnyVerdict)]]
        /\ began \in [Thread -> Seq(Row)]
    BY DEF ClockInv, ClockTypeOK
  <1>3. /\ batch[t].kind # "none" /\ Len(old) < Len(rows)
        /\ rows' = rows /\ system' = system /\ began' = began
    BY DEF CallBack
  <1>4. batch[t] # NoBatch
    BY <1>3 DEF NoBatch
  <1>5. /\ batch[t].kind \in {"retain", "edit"} /\ rows = began[t]
        /\ \A u \in Thread : u # t => batch[u] = NoBatch
    BY <1>4 DEF ClockInv, BatchAlone
  <1>6. old \in Seq(Verdicts(batch[t].kind)) /\ old \in Seq(AnyVerdict)
    BY <1>2 DEF ClockInv, ClockTypeOK
  <1>7. v \in AnyVerdict
    BY VerdictsAreAny
  <1>8. /\ Append(old, v) \in Seq(Verdicts(batch[t].kind))
        /\ Append(old, v) \in Seq(AnyVerdict)
        /\ Len(Append(old, v)) = Len(old) + 1 /\ Len(old) \in Nat
    BY <1>6, <1>7
  <1>9. /\ batch'[t] = b /\ b.kind = batch[t].kind /\ b.verdicts = Append(old, v)
        /\ \A u \in Thread : u # t => batch'[u] = batch[u]
    BY <1>1, <1>2
  <1>10. batch' \in [Thread -> [kind : {"none", "retain", "edit"}, verdicts : Seq(AnyVerdict)]]
    <2>1. b \in [kind : {"none", "retain", "edit"}, verdicts : Seq(AnyVerdict)]
      BY <1>2, <1>8
    <2>2. batch' = [batch EXCEPT ![t] = b]
      BY <1>1, <1>2
    <2> HIDE DEF b
    <2> QED
      BY <1>2, <2>1, <2>2
  <1> HIDE DEF b, old
  <1>11. BatchAlone'
    <2>1. \A u \in Thread : batch'[u] # NoBatch => u = t
      BY <1>5, <1>9
    <2>2. /\ batch'[t].kind \in {"retain", "edit"} /\ rows' = began'[t]
          /\ Len(batch'[t].verdicts) <= Len(rows')
      BY <1>2, <1>3, <1>5, <1>8, <1>9
    <2>3. \A u \in Thread : u # t => batch'[u] = NoBatch
      BY <1>5, <1>9
    <2> QED
      BY <2>1, <2>2, <2>3 DEF BatchAlone
  <1>12. ClockTypeOK'
    <2>1. \A u \in Thread : /\ batch'[u].kind \in {"none", "retain", "edit"}
                            /\ batch'[u].verdicts \in Seq(Verdicts(batch'[u].kind))
      <3> TAKE u \in Thread
      <3>1. CASE u = t
        BY <1>5, <1>8, <1>9, <3>1
      <3>2. CASE u # t
        BY <1>9, <3>2 DEF ClockInv, ClockTypeOK
      <3> QED
        BY <3>1, <3>2
    <2>2. \A u \in Thread : began'[u] \in Seq(Row)
      BY <1>2, <1>3
    <2> QED
      BY <1>2, <1>3, <2>1, <2>2 DEF ClockTypeOK
  <1> QED
    BY <1>2, <1>3, <1>10, <1>11, <1>12 DEF ClockInv

\* Every step keeps the invariant.
LEMMA ClockInvStep == ClockInv /\ [ClockNext]_clockVars => ClockInv'
  <1> SUFFICES ASSUME ClockInv, [ClockNext]_clockVars PROVE ClockInv'
    OBVIOUS
  <1>0. rows \in Seq(Row) /\ Len(rows) \in Nat /\ DOMAIN rows = 1..Len(rows) /\ system \in System
    BY DEF ClockInv, ClockTypeOK
  <1>1. ASSUME NEW s \in System, SetTimeSystem(s) PROVE ClockInv'
    BY <1>0, <1>1, ClockInvEdit DEF SetTimeSystem
  <1>2. ASSUME NEW i \in 1..MaxRows + 1, NEW r \in Row, SetRecordValues(i, r) PROVE ClockInv'
    <2>1. i \in Nat /\ i >= 1 /\ i <= Len(rows)
      BY <1>0, <1>2 DEF SetRecordValues
    <2>2. rows' \in Seq(Row)
      BY <1>2, <2>1, EditedRows DEF SetRecordValues
    <2> QED
      BY <1>0, <1>2, <2>2, ClockInvEdit DEF SetRecordValues
  <1>3. ASSUME NEW i \in 1..MaxRows + 1, NEW r \in Row, InsertRow(i, r) PROVE ClockInv'
    <2>1. i \in Nat /\ i >= 1 /\ i <= Len(rows) + 1
      BY <1>0, <1>3 DEF InsertRow
    <2>2. rows' \in Seq(Row)
      BY <1>3, <2>1, EditedRows DEF InsertRow
    <2> QED
      BY <1>0, <1>3, <2>2, ClockInvEdit DEF InsertRow
  <1>4. ASSUME NEW i \in 1..MaxRows + 1, RemoveRow(i) PROVE ClockInv'
    <2>1. i \in Nat /\ i >= 1 /\ i <= Len(rows)
      BY <1>0, <1>4 DEF RemoveRow
    <2>2. rows[i] \in Row
      BY <1>0, <2>1
    <2>3. rows' \in Seq(Row)
      BY <1>4, <2>1, <2>2, EditedRows DEF RemoveRow
    <2> QED
      BY <1>0, <1>4, <2>3, ClockInvEdit DEF RemoveRow
  <1>5. ASSUME NEW t \in Thread, NEW kind \in {"retain", "edit"}, BeginBatch(t, kind)
        PROVE  ClockInv'
    BY <1>5, ClockInvBegin
  <1>6. ASSUME NEW t \in Thread, CallBack(t) PROVE ClockInv'
    BY <1>6, ClockInvCallBack
  <1>7. ASSUME NEW t \in Thread, CallBackRaises(t) PROVE ClockInv'
    BY <1>0, <1>7, ClockInvEnd DEF CallBackRaises
  <1>8. ASSUME NEW t \in Thread, FinishRetain(t) PROVE ClockInv'
    <2>1. batch[t].kind # "none"
      BY <1>8 DEF FinishRetain, Answered
    <2>2. rows' \in Seq(Row)
      BY <1>8, RetainedRows
    <2> QED
      BY <1>8, <2>1, <2>2, ClockInvEnd DEF FinishRetain
  <1>9. ASSUME NEW t \in Thread, FinishEdit(t) PROVE ClockInv'
    <2>1. batch[t].kind # "none"
      BY <1>9 DEF FinishEdit, Answered
    <2>2. rows' \in Seq(Row)
      BY <1>9, RewrittenRows
    <2> QED
      BY <1>9, <2>1, <2>2, ClockInvEnd DEF FinishEdit
  <1>10. CASE UNCHANGED clockVars
    BY <1>10 DEF clockVars, ClockInv, ClockTypeOK, BatchAlone
  <1> QED
    BY <1>1, <1>2, <1>3, <1>4, <1>5, <1>6, <1>7, <1>8, <1>9, <1>10 DEF ClockNext

\* The records stay records, and while a batch call runs they are those it began
\* with: the product is borrowed until the call ends.
THEOREM ClockInvariant == ClockSpec => []ClockInv
  BY ClockInvInit, ClockInvStep, PTL DEF ClockSpec

THEOREM ClockTypeCorrect == ClockSpec => []ClockTypeOK
  BY ClockInvariant, PTL DEF ClockInv

\* Only the end of a thread's own batch call takes it out of that call.
LEMMA BatchStepAllOrNothing ==
  ASSUME ClockInv, [ClockNext]_clockVars, NEW t \in Thread,
         batch[t] # NoBatch, batch'[t] = NoBatch
  PROVE  LET old == began[t]
             b   == batch[t]
         IN  \/ rows' = old
             \/ b.kind = "retain" /\ Len(b.verdicts) = Len(old) /\ rows' = Kept(old, b.verdicts)
             \/ b.kind = "edit" /\ Len(b.verdicts) = Len(old) /\ rows' = Rewritten(old, b.verdicts)
  <1>1. ~Borrowable
    BY DEF Borrowable
  <1>2. /\ rows = began[t] /\ batch[t].kind # "none"
        /\ \A u \in Thread : u # t => batch[u] = NoBatch
    BY DEF ClockInv, BatchAlone
  <1>3. \A u \in Thread : batch[u].kind # "none" => u = t
    BY <1>2 DEF NoBatch
  <1>4. ASSUME NEW u \in Thread, CallBack(u) PROVE rows' = began[t]
    BY <1>2, <1>4 DEF CallBack
  <1>5. ASSUME NEW u \in Thread, CallBackRaises(u) PROVE rows' = began[t]
    BY <1>2, <1>5 DEF CallBackRaises
  <1>6. ASSUME NEW u \in Thread, FinishRetain(u)
        PROVE  /\ batch[t].kind = "retain" /\ Len(batch[t].verdicts) = Len(began[t])
               /\ rows' = Kept(began[t], batch[t].verdicts)
    <2>1. u = t
      BY <1>3, <1>6 DEF FinishRetain, Answered
    <2> QED
      BY <1>6, <2>1, AllAnswered, RetainedRows DEF FinishRetain
  <1>7. ASSUME NEW u \in Thread, FinishEdit(u)
        PROVE  \/ rows' = began[t]
               \/ /\ batch[t].kind = "edit" /\ Len(batch[t].verdicts) = Len(began[t])
                  /\ rows' = Rewritten(began[t], batch[t].verdicts)
    <2>1. u = t
      BY <1>3, <1>7 DEF FinishEdit, Answered
    <2> QED
      BY <1>7, <2>1, AllAnswered, RewrittenRows DEF FinishEdit
  <1>8. ~UNCHANGED clockVars
    BY DEF clockVars
  <1> QED
    BY <1>1, <1>4, <1>5, <1>6, <1>7, <1>8
       DEF ClockNext, SetTimeSystem, SetRecordValues, InsertRow, RemoveRow, BeginBatch

\* retain_records and edit_records change all the records they were asked about
\* or none: the callbacks decide before the first change, nothing else changes
\* the product meanwhile, and an exception leaves it as it was.
THEOREM BatchesAreAllOrNothing == ClockSpec => BatchAllOrNothing
  <1>1. ClockInv /\ [ClockNext]_clockVars =>
            [\A t \in Thread :
                LET old == began[t]
                    b   == batch[t]
                IN  (b # NoBatch /\ batch'[t] = NoBatch) =>
                    \/ rows' = old
                    \/ b.kind = "retain" /\ Len(b.verdicts) = Len(old)
                       /\ rows' = Kept(old, b.verdicts)
                    \/ b.kind = "edit" /\ Len(b.verdicts) = Len(old)
                       /\ rows' = Rewritten(old, b.verdicts)]_clockVars
    BY BatchStepAllOrNothing
  <1> QED
    BY <1>1, ClockInvariant, PTL DEF ClockSpec, BatchAllOrNothing

-----------------------------------------------------------------------------
\* Archives.  The reference's counts, for a flag and a width: the codes of a run
\* that have the widths up to w, the ones before, and the bits they are written with.
EntriesFrom(blocks) == CLEAR + (IF blocks THEN 1 ELSE 0)
LastCode(blocks, w) == 2^w - EntriesFrom(blocks) + 1
CodesBefore(blocks, w) == IF w = InitBits THEN 0 ELSE LastCode(blocks, w - 1)
WidthBits(blocks, w) ==
    GroupsOf(LastCode(blocks, w) - CodesBefore(blocks, w)) * ByteBits * w
BitsBefore(blocks) ==
    LET bits[w \in InitBits..MaxMaxBits] ==
            IF w = InitBits THEN 0 ELSE bits[w - 1] + WidthBits(blocks, w - 1)
    IN  bits

\* The widths are natural numbers, and every one of them is used by a code.
LEMMA Widths ==
  /\ InitBits \in Nat /\ InitBits > 2 /\ MaxMaxBits \in Nat /\ ByteBits \in Nat /\ ByteBits > 1
  /\ CLEAR \in Nat /\ CLEAR > 1 /\ 2^InitBits = 2 * CLEAR
  /\ \A w \in InitBits..MaxMaxBits : 2^w \in Nat /\ 2^w >= 2 * CLEAR /\ 2^(w + 1) = 2 * 2^w
  /\ \A v, w \in InitBits..MaxMaxBits : v < w => 2^v < 2^w
  <1>1. /\ InitBits \in Nat /\ InitBits > 2 /\ MaxMaxBits \in Nat /\ ByteBits \in Nat /\ ByteBits > 1
    BY CompressAssumption
  <1>2. InitBits - 1 \in Nat /\ InitBits - 2 \in Nat
    BY <1>1
  <1>3. CLEAR \in Nat /\ 2^((InitBits - 1) + 1) = 2 * CLEAR
    BY <1>2, Powers DEF CLEAR
  <1>4. 2^((InitBits - 2) + 1) = 2 * 2^(InitBits - 2) /\ 2^(InitBits - 2) \in Nat /\ 2^(InitBits - 2) > 0
    BY <1>2, Powers
  <1>5. (InitBits - 1) + 1 = InitBits /\ (InitBits - 2) + 1 = InitBits - 1
    BY <1>1
  <1>6. 2^(InitBits - 1) = 2 * 2^(InitBits - 2)
    BY <1>4, <1>5
  <1>7. CLEAR > 1
    BY <1>4, <1>6 DEF CLEAR
  <1>8. 2^InitBits = 2 * CLEAR
    BY <1>3, <1>5
  <1>9. \A v, w \in InitBits..MaxMaxBits : v < w => 2^v < 2^w
    <2> TAKE v, w \in InitBits..MaxMaxBits
    <2>1. v \in Nat /\ w \in Nat
      BY <1>1
    <2> QED
      BY <2>1, PowersGrow
  <1>10. ASSUME NEW w \in InitBits..MaxMaxBits
         PROVE  2^w \in Nat /\ 2^w >= 2 * CLEAR /\ 2^(w + 1) = 2 * 2^w
    <2>1. w \in Nat /\ w >= InitBits
      BY <1>1
    <2>2. 2^w \in Nat /\ 2^(w + 1) = 2 * 2^w
      BY <2>1, Powers
    <2>3. 2^w >= 2^InitBits
      <3>1. CASE w = InitBits
        BY <1>3, <1>8, <3>1
      <3>2. CASE w # InitBits
        <4>1. InitBits < w
          BY <2>1, <3>2, <1>1
        <4>2. 2^InitBits < 2^w
          BY <1>1, <2>1, <4>1, PowersGrow
        <4>3. 2^InitBits \in Nat
          BY <1>3, <1>8
        <4> QED
          BY <2>2, <4>2, <4>3
      <3> QED
        BY <3>1, <3>2
    <2> QED
      BY <1>8, <2>2, <2>3
  <1> QED
    BY <1>1, <1>3, <1>7, <1>8, <1>9, <1>10

\* Every width has codes, and there are more of them up to a larger width.
LEMMA CodesOfWidths ==
  ASSUME NEW blocks \in BOOLEAN, NEW w \in InitBits..MaxMaxBits
  PROVE  /\ EntriesFrom(blocks) \in Nat
         /\ LastCode(blocks, w) \in Nat /\ CodesBefore(blocks, w) \in Nat
         /\ LastCode(blocks, w) > 1 /\ CodesBefore(blocks, w) < LastCode(blocks, w)
         /\ w < MaxMaxBits => CodesBefore(blocks, w + 1) = LastCode(blocks, w)
         /\ \A v \in InitBits..MaxMaxBits : v < w => LastCode(blocks, v) <= CodesBefore(blocks, w)
  <1>1. /\ InitBits \in Nat /\ MaxMaxBits \in Nat /\ CLEAR \in Nat /\ CLEAR > 1
        /\ 2^w \in Nat /\ 2^w >= 2 * CLEAR
    BY Widths
  <1>2. EntriesFrom(blocks) \in Nat /\ EntriesFrom(blocks) <= CLEAR + 1
    BY <1>1 DEF EntriesFrom
  <1>3. \A v \in InitBits..MaxMaxBits : LastCode(blocks, v) \in Nat /\ LastCode(blocks, v) > 1
    <2> TAKE v \in InitBits..MaxMaxBits
    <2>1. 2^v \in Nat /\ 2^v >= 2 * CLEAR
      BY Widths
    <2> QED
      BY <1>1, <1>2, <2>1 DEF LastCode
  <1>4. w # InitBits => w - 1 \in InitBits..MaxMaxBits /\ w - 1 < w
    BY <1>1
  <1>5. w # InitBits => 2^(w - 1) < 2^w /\ 2^(w - 1) \in Nat
    BY <1>4, Widths
  <1>6. CodesBefore(blocks, w) \in Nat
    BY <1>3, <1>4 DEF CodesBefore
  <1>7. CodesBefore(blocks, w) < LastCode(blocks, w)
    <2>1. CASE w = InitBits
      BY <1>3, <2>1 DEF CodesBefore
    <2>2. CASE w # InitBits
      BY <1>1, <1>2, <1>5, <2>2 DEF CodesBefore, LastCode
    <2> QED
      BY <2>1, <2>2
  <1>8. w < MaxMaxBits => CodesBefore(blocks, w + 1) = LastCode(blocks, w)
    <2>1. w + 1 # InitBits /\ (w + 1) - 1 = w
      BY <1>1
    <2> QED
      BY <2>1 DEF CodesBefore
  <1>9. ASSUME NEW v \in InitBits..MaxMaxBits, v < w
        PROVE  LastCode(blocks, v) <= CodesBefore(blocks, w)
    <2>1. w # InitBits /\ v <= w - 1 /\ v \in Nat /\ w - 1 \in Nat
      BY <1>1, <1>9
    <2>2. CodesBefore(blocks, w) = LastCode(blocks, w - 1)
      BY <2>1 DEF CodesBefore
    <2>3. 2^v <= 2^(w - 1) /\ 2^v \in Nat /\ 2^(w - 1) \in Nat
      <3>1. CASE v = w - 1
        BY <3>1, <2>1, Powers
      <3>2. CASE v < w - 1
        BY <3>2, <2>1, Powers, PowersGrow
      <3> QED
        BY <2>1, <3>1, <3>2
    <2> QED
      BY <1>2, <2>2, <2>3 DEF LastCode
  <1> QED
    BY <1>2, <1>3, <1>6, <1>7, <1>8, <1>9

\* Whole groups hold at least the codes.
LEMMA Groups ==
  /\ \A k \in Nat : GroupsOf(k) \in Nat
  /\ GroupsOf(0) = 0
  /\ \A k \in Nat \ {0} : GroupsOf(k) = ((k - 1) \div ByteBits) + 1
  /\ \A k \in Nat \ {0} : GroupsOf(k) * ByteBits >= k
  <1>1. ByteBits \in Nat /\ ByteBits > 1
    BY Widths
  <1>2. \A k \in Nat : GroupsOf(k) \in Nat
    BY <1>1 DEF GroupsOf
  <1>3. GroupsOf(0) = 0
    BY <1>1 DEF GroupsOf
  <1>4. ASSUME NEW k \in Nat \ {0} PROVE GroupsOf(k) = ((k - 1) \div ByteBits) + 1
    <2> DEFINE q == (k - 1) \div ByteBits
               r == (k - 1) % ByteBits
    <2>1. q \in Nat /\ r \in 0..ByteBits - 1 /\ k - 1 = (ByteBits * q) + r
      BY <1>1
    <2>2. k + ByteBits - 1 = ((q + 1) * ByteBits) + r
      <3> HIDE DEF q, r
      <3> QED
        BY <1>1, <2>1
    <2>3. (k + ByteBits - 1) \div ByteBits = q + 1
      <3> HIDE DEF q, r
      <3>1. q + 1 \in Nat /\ k + ByteBits - 1 \in Nat /\ r \in Nat /\ r < ByteBits
        BY <1>1, <2>1
      <3> QED
        BY <1>1, <2>2, <3>1
    <2> QED
      BY <2>3 DEF GroupsOf
  <1>5. ASSUME NEW k \in Nat \ {0} PROVE GroupsOf(k) * ByteBits >= k
    <2> DEFINE q == (k - 1) \div ByteBits
               r == (k - 1) % ByteBits
    <2>1. q \in Nat /\ r \in 0..ByteBits - 1 /\ k - 1 = (ByteBits * q) + r
      BY <1>1
    <2>2. GroupsOf(k) = q + 1
      BY <1>4
    <2> HIDE DEF q, r
    <2>3. (q + 1) * ByteBits = (ByteBits * q) + ByteBits
      BY <1>1, <2>1
    <2>4. k <= (ByteBits * q) + ByteBits
      BY <1>1, <2>1
    <2> QED
      BY <2>2, <2>3, <2>4
  <1> QED
    BY <1>2, <1>3, <1>4, <1>5

\* The scanner pads to the end of the group the last code is in.
LEMMA AlignsToGroup ==
  ASSUME NEW k \in Nat \ {0}, NEW w \in Nat \ {0}, NEW from \in Nat
  PROVE  AlignToGroup(from + k * w, w, from) = from + GroupsOf(k) * ByteBits * w
  <1> DEFINE g == w * ByteBits
             q == (k - 1) \div ByteBits
             s == (k - 1) % ByteBits
             r == s * w + w - 1
  <1>1. ByteBits \in Nat /\ ByteBits > 1
    BY Widths
  <1>2. q \in Nat /\ s \in Nat /\ s < ByteBits /\ k - 1 = (q * ByteBits) + s
    BY <1>1
  <1>3. g \in Nat /\ g > 0
    BY <1>1
  <1>4. k * w = q * g + s * w + w
    <2> HIDE DEF q, s
    <2>1. k = (q * ByteBits) + s + 1
      BY <1>1, <1>2
    <2>2. k * w = ((q * ByteBits) + s + 1) * w
      BY <2>1
    <2>3. ((q * ByteBits) + s + 1) * w = (q * ByteBits) * w + s * w + w
      BY <1>1, <1>2
    <2>4. (q * ByteBits) * w = q * (w * ByteBits)
      BY <1>1, <1>2
    <2> QED
      BY <2>2, <2>3, <2>4
  <1>5. r \in Nat /\ r < g
    <2> HIDE DEF q, s
    <2>1. s * w \in Nat
      BY <1>2
    <2>2. (ByteBits - 1 - s) * w >= 0
      BY <1>1, <1>2
    <2>3. (ByteBits - 1 - s) * w = ByteBits * w - w - s * w
      BY <1>1, <1>2
    <2>4. w * ByteBits = ByteBits * w
      BY <1>1
    <2> QED
      BY <1>1, <2>1, <2>2, <2>3, <2>4
  <1>6. (from + k * w) - 1 - from + g = (q + 1) * g + r
    <2> HIDE DEF q, s
    <2>1. (q + 1) * g = q * g + g
      BY <1>2, <1>3
    <2>2. q * g \in Nat /\ s * w \in Nat /\ k * w \in Nat
      BY <1>2, <1>3
    <2> HIDE DEF g
    <2> QED
      BY <1>3, <1>4, <2>1, <2>2
  <1>7. ((from + k * w) - 1 - from + g) % g = r
    <2> HIDE DEF q, s, r, g
    <2>1. (q + 1) * g + r \in Nat
      BY <1>2, <1>3, <1>5
    <2> QED
      BY <1>2, <1>3, <1>5, <1>6, <2>1
  <1>8. AlignToGroup(from + k * w, w, from) = (from + k * w) - 1 + (g - r)
    <2> HIDE DEF q, s, r
    <2> QED
      BY <1>7 DEF AlignToGroup
  <1>9. (from + k * w) - 1 + (g - r) = from + q * g + g
    <2> HIDE DEF q, s
    <2>1. q * g \in Nat /\ s * w \in Nat
      BY <1>2, <1>3
    <2> HIDE DEF g
    <2> QED
      BY <1>3, <1>4, <2>1
  <1>10. q * g + g = GroupsOf(k) * ByteBits * w
    <2>1. GroupsOf(k) = q + 1
      BY Groups
    <2> HIDE DEF q
    <2>2. (q + 1) * ByteBits * w = (q + 1) * (w * ByteBits)
      BY <1>1, <1>2
    <2>3. (q + 1) * (w * ByteBits) = q * (w * ByteBits) + w * ByteBits
      BY <1>1, <1>2
    <2> QED
      BY <2>1, <2>2, <2>3
  <1> QED
    <2> HIDE DEF q, s, r
    <2>1. q * g \in Nat
      BY <1>2, <1>3
    <2> HIDE DEF g
    <2> QED
      BY <1>3, <1>8, <1>9, <1>10, <2>1

\* The bits before a width: none before the first one, and then whole groups.
LEMMA BitsBeforeWidth ==
  ASSUME NEW blocks \in BOOLEAN
  PROVE  /\ BitsBefore(blocks)[InitBits] = 0
         /\ \A w \in InitBits..MaxMaxBits : BitsBefore(blocks)[w] \in Nat
         /\ \A w \in InitBits..MaxMaxBits - 1 :
                BitsBefore(blocks)[w + 1] = BitsBefore(blocks)[w] + WidthBits(blocks, w)
  <1> DEFINE D == InitBits..MaxMaxBits
             Law(f) == f = [w \in D |-> IF w = InitBits THEN 0
                                       ELSE f[w - 1] + WidthBits(blocks, w - 1)]
             next == [p \in D \X Nat |-> p[2] + (IF p[1] = InitBits THEN 0
                                                ELSE WidthBits(blocks, p[1] - 1))]
  <1>1. InitBits \in Nat /\ MaxMaxBits \in Nat /\ InitBits <= MaxMaxBits /\ ByteBits \in Nat
    BY CompressAssumption
  <1>2. \A w \in D : WidthBits(blocks, w) \in Nat
    <2> TAKE w \in D
    <2>1. LastCode(blocks, w) - CodesBefore(blocks, w) \in Nat
      BY CodesOfWidths
    <2>2. GroupsOf(LastCode(blocks, w) - CodesBefore(blocks, w)) \in Nat
      BY <2>1, Groups
    <2> QED
      BY <1>1, <2>2 DEF WidthBits
  <1>3. next \in [D \X Nat -> Nat]
    <2>1. \A w \in D, x \in Nat : x + (IF w = InitBits THEN 0 ELSE WidthBits(blocks, w - 1)) \in Nat
      BY <1>1, <1>2
    <2> QED
      BY <2>1
  <1>4. PICK g : Recursive(g, InitBits, MaxMaxBits, Nat, 0, next)
    <2>1. InitBits \in Int /\ MaxMaxBits \in Int /\ 0 \in Nat
      BY <1>1
    <2> HIDE DEF next
    <2> QED
      BY <1>3, <2>1, Recursion
  <1>5. Law(g)
    <2>0. /\ g \in [D -> Nat]
          /\ \A w \in D : g[w] = IF w = InitBits THEN 0 ELSE next[<<w, g[w - 1]>>]
      BY <1>4 DEF Recursive
    <2>1. \A w \in D : w # InitBits => /\ w - 1 \in D /\ g[w - 1] \in Nat
                                       /\ next[<<w, g[w - 1]>>] = g[w - 1] + WidthBits(blocks, w - 1)
      <3> SUFFICES ASSUME NEW w \in D, w # InitBits
                   PROVE  /\ w - 1 \in D /\ g[w - 1] \in Nat
                          /\ next[<<w, g[w - 1]>>] = g[w - 1] + WidthBits(blocks, w - 1)
        OBVIOUS
      <3>1. w - 1 \in D
        BY <1>1
      <3>2. g[w - 1] \in Nat
        BY <2>0, <3>1
      <3> QED
        BY <3>1, <3>2
    <2> HIDE DEF next
    <2> QED
      BY <2>0, <2>1
  <1>6. BitsBefore(blocks) = CHOOSE f : Law(f)
    BY DEF BitsBefore
  <1>7. Law(BitsBefore(blocks))
    <2> HIDE DEF Law
    <2> QED
      BY <1>5, <1>6
  <1> DEFINE b == BitsBefore(blocks)
  <1> HIDE DEF b
  <1>8. \A w \in D : b[w] = IF w = InitBits THEN 0 ELSE b[w - 1] + WidthBits(blocks, w - 1)
    BY <1>7 DEF b
  <1>9. b[InitBits] = 0
    BY <1>1, <1>8
  <1>10. \A w \in InitBits..MaxMaxBits - 1 : b[w + 1] = b[w] + WidthBits(blocks, w)
    <2> TAKE w \in InitBits..MaxMaxBits - 1
    <2>1. w + 1 \in D /\ w + 1 # InitBits /\ (w + 1) - 1 = w
      BY <1>1
    <2> QED
      BY <1>8, <2>1
  <1>11. \A w \in D : b[w] \in Nat
    <2> DEFINE S == {w \in D : b[w] \in Nat}
    <2>1. InitBits \in S
      BY <1>1, <1>9
    <2>2. \A w \in InitBits..MaxMaxBits - 1 : w \in S => w + 1 \in S
      BY <1>1, <1>2, <1>10
    <2>0. InitBits \in Int /\ MaxMaxBits \in Int
      BY <1>1
    <2> HIDE DEF S
    <2>3. D \subseteq S
      BY <2>0, <2>1, <2>2, InductFrom
    <2> QED
      BY <2>3 DEF S
  <1> QED
    BY <1>9, <1>10, <1>11 DEF b

\* The codes of a run by their width, and what a full width adds.
LEMMA RunByWidths ==
  ASSUME blockMode \in BOOLEAN, maxbits \in InitBits..MaxMaxBits,
         NEW w \in InitBits..maxbits, NEW n \in Nat, NEW ended \in BOOLEAN,
         CodesBefore(blockMode, w) <= n,
         w = maxbits \/ n <= LastCode(blockMode, w)
  PROVE  /\ \A v \in InitBits..w - 1 :
                /\ v < maxbits /\ (CodesBefore(blockMode, w) < n => n > UpTo(v))
                /\ OfWidth(n, v) = LastCode(blockMode, v) - CodesBefore(blockMode, v)
         /\ OfWidth(n, w) = n - CodesBefore(blockMode, w)
         /\ ~(w < maxbits /\ n > UpTo(w))
         /\ \A v \in w + 1..maxbits : OfWidth(n, v) = 0
  <1>1. /\ InitBits \in Nat /\ maxbits \in Nat /\ w \in Nat /\ MaxMaxBits \in Nat
        /\ InitBits <= w /\ w <= maxbits /\ maxbits <= MaxMaxBits
    BY CompressAssumption
  <1>2. \A v : UpTo(v) = LastCode(blockMode, v)
    BY DEF UpTo, LastCode, FirstFree, EntriesFrom
  <1>3. w \in InitBits..MaxMaxBits
    BY <1>1
  <1>4. ASSUME NEW v \in InitBits..maxbits
        PROVE  LET lo == CodesBefore(blockMode, v)
                   hi == IF v = maxbits \/ n < LastCode(blockMode, v) THEN n
                         ELSE LastCode(blockMode, v)
               IN  OfWidth(n, v) = IF hi > lo THEN hi - lo ELSE 0
    BY <1>2 DEF OfWidth, CodesBefore
  <1>5. ASSUME NEW v \in InitBits..w - 1
        PROVE  /\ v < maxbits /\ (CodesBefore(blockMode, w) < n => n > UpTo(v))
               /\ OfWidth(n, v) = LastCode(blockMode, v) - CodesBefore(blockMode, v)
    <2>1. v \in InitBits..MaxMaxBits /\ v \in InitBits..maxbits /\ v < w /\ v < maxbits
      BY <1>1
    <2>2. LastCode(blockMode, v) <= CodesBefore(blockMode, w) /\ CodesBefore(blockMode, w) \in Nat
      BY <1>3, <2>1, CodesOfWidths
    <2>3. /\ LastCode(blockMode, v) \in Nat /\ CodesBefore(blockMode, v) \in Nat
          /\ CodesBefore(blockMode, v) < LastCode(blockMode, v)
      BY <2>1, CodesOfWidths
    <2>4. LastCode(blockMode, v) <= n
      BY <2>2, <2>3
    <2>5. ~(v = maxbits \/ n < LastCode(blockMode, v))
      BY <1>1, <2>1, <2>3, <2>4
    <2>6. OfWidth(n, v) = LastCode(blockMode, v) - CodesBefore(blockMode, v)
      BY <1>4, <2>1, <2>3, <2>5
    <2>7. CodesBefore(blockMode, w) < n => n > LastCode(blockMode, v)
      BY <2>2, <2>3
    <2> QED
      BY <1>2, <2>1, <2>6, <2>7
  <1>6. OfWidth(n, w) = n - CodesBefore(blockMode, w)
    <2>1. CodesBefore(blockMode, w) \in Nat /\ LastCode(blockMode, w) \in Nat
      BY <1>3, CodesOfWidths
    <2> QED
      BY <1>4, <2>1
  <1>7. ~(w < maxbits /\ n > UpTo(w))
    <2>1. LastCode(blockMode, w) \in Nat
      BY <1>3, CodesOfWidths
    <2> QED
      BY <1>1, <1>2, <2>1
  <1>8. ASSUME NEW v \in w + 1..maxbits PROVE OfWidth(n, v) = 0
    <2>1. v \in InitBits..MaxMaxBits /\ v \in InitBits..maxbits /\ w < v /\ w # maxbits
      BY <1>1
    <2>2. LastCode(blockMode, w) <= CodesBefore(blockMode, v) /\ CodesBefore(blockMode, v) \in Nat
      BY <1>3, <2>1, CodesOfWidths
    <2>3. LastCode(blockMode, w) \in Nat
      BY <1>3, CodesOfWidths
    <2>4. /\ LastCode(blockMode, v) \in Nat
          /\ CodesBefore(blockMode, v) < LastCode(blockMode, v)
      BY <2>1, CodesOfWidths
    <2>5. n <= CodesBefore(blockMode, v) /\ n < LastCode(blockMode, v)
      BY <2>1, <2>2, <2>3, <2>4
    <2> QED
      BY <1>4, <2>1, <2>2, <2>5
  <1> QED
    BY <1>5, <1>6, <1>7, <1>8

\* The reference counts whole groups of the widths before the last one, and of
\* the last one what the run has, once a code has that width or the run has ended.
LEMMA RunBitsAt ==
  ASSUME blockMode \in BOOLEAN, maxbits \in InitBits..MaxMaxBits,
         NEW w \in InitBits..maxbits, NEW n \in Nat, NEW ended \in BOOLEAN,
         CodesBefore(blockMode, w) <= n,
         w = maxbits \/ n <= LastCode(blockMode, w),
         ended \/ w = InitBits \/ CodesBefore(blockMode, w) < n
  PROVE  LET k == n - CodesBefore(blockMode, w)
         IN  RunBits(n, ended) = BitsBefore(blockMode)[w]
                                 + (IF ended THEN GroupsOf(k) * ByteBits ELSE k) * w
  <1> DEFINE D == InitBits..maxbits
             k == n - CodesBefore(blockMode, w)
             Full(v) == ended \/ (v < maxbits /\ n > UpTo(v))
             Term(v) == (IF Full(v) THEN GroupsOf(OfWidth(n, v)) * ByteBits ELSE OfWidth(n, v)) * v
             Law(f) == f = [v \in D |->
                LET c == OfWidth(n, v)
                    full == ended \/ (v < maxbits /\ n > UpTo(v))
                IN  (IF full THEN GroupsOf(c) * ByteBits ELSE c) * v
                    + IF v = InitBits THEN 0 ELSE f[v - 1]]
             next == [p \in D \X Nat |-> Term(p[1]) + p[2]]
             b == BitsBefore(blockMode)
  <1>1. /\ InitBits \in Nat /\ maxbits \in Nat /\ w \in Nat /\ ByteBits \in Nat /\ MaxMaxBits \in Nat
        /\ InitBits <= w /\ w <= maxbits /\ maxbits <= MaxMaxBits
    BY CompressAssumption
  <1>2. w \in InitBits..MaxMaxBits
    BY <1>1
  <1>3. k \in Nat
    <2>1. CodesBefore(blockMode, w) \in Nat
      BY <1>2, CodesOfWidths
    <2> QED
      BY <2>1
  <1>4. /\ b[InitBits] = 0 /\ \A v \in InitBits..MaxMaxBits : b[v] \in Nat
        /\ \A v \in InitBits..MaxMaxBits - 1 : b[v + 1] = b[v] + WidthBits(blockMode, v)
    BY BitsBeforeWidth
  <1>5. /\ \A v \in InitBits..w - 1 :
               /\ v < maxbits /\ (ended \/ n > UpTo(v))
               /\ OfWidth(n, v) = LastCode(blockMode, v) - CodesBefore(blockMode, v)
        /\ OfWidth(n, w) = k
        /\ ~(w < maxbits /\ n > UpTo(w))
        /\ \A v \in w + 1..maxbits : OfWidth(n, v) = 0
    <2>1. w = InitBits => \A v \in InitBits..w - 1 : FALSE
      BY <1>1
    <2> QED
      BY <2>1, RunByWidths
  <1>6. \A v \in InitBits..w - 1 : Term(v) = WidthBits(blockMode, v)
    BY <1>5 DEF WidthBits
  <1>7. Term(w) = (IF ended THEN GroupsOf(k) * ByteBits ELSE k) * w
    BY <1>5
  <1>8. \A v \in w + 1..maxbits : Term(v) = 0
    <2> TAKE v \in w + 1..maxbits
    <2>1. OfWidth(n, v) = 0 /\ GroupsOf(0) = 0 /\ v \in Nat
      BY <1>1, <1>5, Groups
    <2>2. Term(v) = (IF Full(v) THEN 0 * ByteBits ELSE 0) * v
      BY <2>1
    <2> QED
      BY <1>1, <2>1, <2>2
  <1>9. \A v \in D : Term(v) \in Nat
    <2> TAKE v \in D
    <2>1. OfWidth(n, v) \in Nat
      <3>1. v \in InitBits..w - 1 \/ v = w \/ v \in w + 1..maxbits
        BY <1>1
      <3>2. CASE v \in InitBits..w - 1
        <4>1. v \in InitBits..MaxMaxBits
          BY <1>1, <3>2
        <4>2. LastCode(blockMode, v) - CodesBefore(blockMode, v) \in Nat
          BY <4>1, CodesOfWidths
        <4> QED
          BY <1>5, <3>2, <4>2
      <3> QED
        BY <1>3, <1>5, <3>1, <3>2
    <2>2. GroupsOf(OfWidth(n, v)) \in Nat
      BY <2>1, Groups
    <2> QED
      BY <1>1, <2>1, <2>2
  <1> HIDE DEF Term
  <1>10. next \in [D \X Nat -> Nat]
    BY <1>9
  <1>11. Term(InitBits) \in Nat /\ InitBits \in D
    BY <1>1, <1>9
  <1>12. PICK g : Recursive(g, InitBits, maxbits, Nat, Term(InitBits), next)
    <2>1. InitBits \in Int /\ maxbits \in Int
      BY <1>1
    <2> HIDE DEF next
    <2> QED
      BY <1>10, <1>11, <2>1, Recursion
  <1>13. /\ g \in [D -> Nat]
         /\ \A v \in D : g[v] = Term(v) + (IF v = InitBits THEN 0 ELSE g[v - 1])
    <2>1. /\ g \in [D -> Nat]
          /\ \A v \in D : g[v] = IF v = InitBits THEN Term(InitBits) ELSE next[<<v, g[v - 1]>>]
      <3> HIDE DEF next
      <3> QED
        BY <1>12 DEF Recursive
    <2>2. ASSUME NEW v \in D, v # InitBits
          PROVE  v - 1 \in D /\ next[<<v, g[v - 1]>>] = Term(v) + g[v - 1]
      <3>1. v - 1 \in D
        BY <1>1, <2>2
      <3>2. g[v - 1] \in Nat
        BY <2>1, <3>1
      <3> QED
        BY <3>1, <3>2
    <2> HIDE DEF next, Law
    <2>3. ASSUME NEW v \in D PROVE g[v] = Term(v) + (IF v = InitBits THEN 0 ELSE g[v - 1])
      <3>1. Term(v) \in Nat
        BY <1>9
      <3>2. CASE v = InitBits
        <4>1. g[v] = Term(v)
          BY <2>1, <3>2, Zenon
        <4>2. Term(v) = Term(v) + 0
          BY <3>1
        <4> QED
          BY <3>2, <4>1, <4>2
      <3>3. CASE v # InitBits
        BY <2>1, <2>2, <3>3
      <3> QED
        BY <3>2, <3>3
    <2> QED
      BY <2>1, <2>3
  <1>14. Law(g)
    <2>1. \A v \in D :
             g[v] = (LET c == OfWidth(n, v)
                         full == ended \/ (v < maxbits /\ n > UpTo(v))
                     IN  (IF full THEN GroupsOf(c) * ByteBits ELSE c) * v
                         + IF v = InitBits THEN 0 ELSE g[v - 1])
      BY <1>13 DEF Term
    <2> QED
      BY <1>13, <2>1
  <1> DEFINE f == CHOOSE f : Law(f)
  <1>15. RunBits(n, ended) = f[maxbits]
    BY DEF RunBits
  <1>16. Law(f)
    <2> HIDE DEF Law
    <2> QED
      BY <1>14
  <1>17. \A v \in D : f[v] = Term(v) + (IF v = InitBits THEN 0 ELSE f[v - 1])
    <2>1. Law(f) => \A v \in D :
             f[v] = (LET c == OfWidth(n, v)
                         full == ended \/ (v < maxbits /\ n > UpTo(v))
                     IN  (IF full THEN GroupsOf(c) * ByteBits ELSE c) * v
                         + IF v = InitBits THEN 0 ELSE f[v - 1])
      <3> HIDE DEF f
      <3> QED
        OBVIOUS
    <2> HIDE DEF f, Law
    <2> QED
      BY <1>16, <2>1 DEF Term
  <1> HIDE DEF f, Law, next, k, b
  <1>18. \A v \in InitBits..w - 1 : f[v] = b[v + 1]
    <2> DEFINE S == {v \in D : v < w => f[v] = b[v + 1]}
    <2>1. InitBits \in S
      <3> SUFFICES ASSUME InitBits < w PROVE f[InitBits] = b[InitBits + 1]
        BY <1>11
      <3>1. InitBits \in InitBits..w - 1 /\ InitBits \in InitBits..MaxMaxBits - 1
        BY <1>1
      <3>2. f[InitBits] = Term(InitBits)
        BY <1>11, <1>17
      <3> QED
        BY <1>4, <1>6, <1>11, <3>1, <3>2
    <2>2. \A v \in InitBits..maxbits - 1 : v \in S => v + 1 \in S
      <3> SUFFICES ASSUME NEW v \in InitBits..maxbits - 1, v \in S, v + 1 < w
                   PROVE  f[v + 1] = b[v + 2]
        BY <1>1
      <3>1. /\ v + 1 \in D /\ v + 1 # InitBits /\ (v + 1) - 1 = v /\ v < w
            /\ v + 1 \in InitBits..w - 1 /\ v + 1 \in InitBits..MaxMaxBits - 1 /\ (v + 1) + 1 = v + 2
        BY <1>1
      <3>2. f[v + 1] = Term(v + 1) + f[v]
        BY <1>17, <3>1
      <3>3. f[v] = b[v + 1]
        BY <3>1
      <3>4. b[v + 2] = b[v + 1] + WidthBits(blockMode, v + 1)
        BY <1>4, <3>1
      <3>5. Term(v + 1) = WidthBits(blockMode, v + 1) /\ Term(v + 1) \in Nat
        BY <1>6, <1>9, <3>1
      <3>6. b[v + 1] \in Nat
        <4>1. v + 1 \in InitBits..MaxMaxBits
          BY <1>1, <3>1
        <4> QED
          BY <1>4, <4>1
      <3> QED
        BY <3>2, <3>3, <3>4, <3>5, <3>6
    <2> HIDE DEF S
    <2>3. D \subseteq S
      BY <1>1, <2>1, <2>2, InductFrom
    <2>4. ASSUME NEW v \in InitBits..w - 1 PROVE v \in S /\ v < w
      BY <1>1, <2>3
    <2> QED
      BY <2>4 DEF S
  <1>19. f[w] = b[w] + Term(w)
    <2>1. w \in D
      BY <1>1
    <2>2. CASE w = InitBits
      BY <1>4, <1>9, <1>17, <2>1, <2>2
    <2>3. CASE w # InitBits
      <3>1. w - 1 \in InitBits..w - 1 /\ (w - 1) + 1 = w
        BY <1>1, <2>3
      <3>2. f[w - 1] = b[w]
        BY <1>18, <3>1
      <3> QED
        BY <1>2, <1>4, <1>9, <1>17, <2>1, <2>3, <3>2
    <2> QED
      BY <2>2, <2>3
  <1>20. f[maxbits] = f[w]
    <2> DEFINE S == {v \in D : v >= w /\ f[v] = f[w]}
    <2>1. w \in S
      BY <1>1
    <2>2. \A v \in w..maxbits - 1 : v \in S => v + 1 \in S
      <3> SUFFICES ASSUME NEW v \in w..maxbits - 1, v \in S PROVE v + 1 \in S
        OBVIOUS
      <3>1. /\ v + 1 \in D /\ v + 1 \in w + 1..maxbits /\ v + 1 # InitBits
            /\ (v + 1) - 1 = v /\ v + 1 >= w
        BY <1>1
      <3>2. f[v + 1] = Term(v + 1) + f[v]
        BY <1>17, <3>1
      <3>3. Term(v + 1) = 0 /\ f[v] = f[w]
        BY <1>8, <3>1
      <3>4. f[w] \in Nat
        BY <1>2, <1>4, <1>9, <1>19, <2>1
      <3> QED
        BY <3>1, <3>2, <3>3, <3>4
    <2> HIDE DEF S
    <2>3. w..maxbits \subseteq S
      BY <1>1, <2>1, <2>2, InductFrom
    <2>4. maxbits \in w..maxbits
      BY <1>1
    <2> QED
      BY <2>3, <2>4 DEF S
  <1> QED
    BY <1>7, <1>15, <1>19, <1>20 DEF k, b

\* The end of a run counts the last group as a whole, which may be the last one
\* of its width.
LEMMA RunBitsAtEnd ==
  ASSUME blockMode \in BOOLEAN, maxbits \in InitBits..MaxMaxBits,
         NEW w \in InitBits..maxbits, NEW n \in Nat,
         CodesBefore(blockMode, w) <= n,
         w = maxbits \/ n <= LastCode(blockMode, w)
  PROVE  RunBits(n, TRUE) = BitsBefore(blockMode)[w]
                            + GroupsOf(n - CodesBefore(blockMode, w)) * ByteBits * w
  <1>1. TRUE \in BOOLEAN
    OBVIOUS
  <1> QED
    BY <1>1, RunBitsAt

\* In block mode a width that is followed by a wider one has whole groups of codes.
LEMMA BlocksHaveWholeGroups ==
  ASSUME NEW w \in InitBits..MaxMaxBits
  PROVE  LET k == LastCode(TRUE, w) - CodesBefore(TRUE, w)
         IN  GroupsOf(k) * ByteBits = k
  <1> DEFINE D == InitBits - 1..MaxMaxBits
             S == {v \in D : \E q \in Nat : 2^v = q * ByteBits}
             k == LastCode(TRUE, w) - CodesBefore(TRUE, w)
  <1>1. /\ InitBits \in Nat /\ InitBits > 2 /\ MaxMaxBits \in Nat /\ ByteBits \in Nat
        /\ ByteBits > 1 /\ CLEAR \in Nat
    BY Widths
  <1>2. InitBits - 1 \in S
    <2>1. CLEAR % ByteBits = 0
      BY CompressAssumption DEF CLEAR
    <2>2. ASSUME NEW n \in Nat, n % ByteBits = 0
          PROVE  \E q \in Nat : n = q * ByteBits
      <3> DEFINE q == n \div ByteBits
                 r == n % ByteBits
      <3>1. q \in Nat /\ r = 0 /\ n = (ByteBits * q) + r
        BY <1>1, <2>2
      <3> HIDE DEF q, r
      <3>2. n = q * ByteBits
        BY <1>1, <3>1
      <3> QED
        BY <3>1, <3>2
    <2>3. \E q \in Nat : CLEAR = q * ByteBits
      BY <1>1, <2>1, <2>2
    <2>4. InitBits - 1 \in D
      BY <1>1, CompressAssumption
    <2> QED
      BY <2>3, <2>4 DEF CLEAR
  <1>3. \A v \in InitBits - 1..MaxMaxBits - 1 : v \in S => v + 1 \in S
    <2> SUFFICES ASSUME NEW v \in InitBits - 1..MaxMaxBits - 1, v \in S PROVE v + 1 \in S
      OBVIOUS
    <2>1. PICK q \in Nat : 2^v = q * ByteBits
      OBVIOUS
    <2>2. v \in Nat /\ v + 1 \in D
      BY <1>1
    <2>3. 2^(v + 1) = 2 * 2^v
      BY <2>2, Powers
    <2>4. 2^(v + 1) = (2 * q) * ByteBits /\ 2 * q \in Nat
      BY <1>1, <2>1, <2>3
    <2> QED
      BY <2>2, <2>4
  <1>4. D \subseteq S
    <2>1. InitBits - 1 \in Int /\ MaxMaxBits \in Int
      BY <1>1
    <2> HIDE DEF S
    <2> QED
      BY <1>2, <1>3, <2>1, InductFrom
  <1>5. w - 1 \in D /\ w \in Nat /\ w >= InitBits
    BY <1>1
  <1>6. PICK q \in Nat : 2^(w - 1) = q * ByteBits
    BY <1>4, <1>5
  <1>7. k = 2^(w - 1)
    <2>1. 2^w \in Nat /\ 2^(w - 1) \in Nat /\ 2^((w - 1) + 1) = 2 * 2^(w - 1) /\ (w - 1) + 1 = w
      BY <1>1, <1>5, Powers
    <2>2. EntriesFrom(TRUE) = CLEAR + 1
      BY DEF EntriesFrom
    <2>3. CASE w = InitBits
      <3>1. 2^w = 2 * CLEAR /\ 2^(w - 1) = CLEAR
        BY <2>3, Widths DEF CLEAR
      <3>2. k = (2^w - (CLEAR + 1) + 1) - 0
        BY <2>2, <2>3 DEF LastCode, CodesBefore
      <3> HIDE DEF k
      <3> QED
        BY <1>1, <3>1, <3>2
    <2>4. CASE w # InitBits
      <3>1. k = (2^w - (CLEAR + 1) + 1) - (2^(w - 1) - (CLEAR + 1) + 1)
        BY <2>2, <2>4 DEF LastCode, CodesBefore
      <3> HIDE DEF k
      <3> QED
        BY <1>1, <2>1, <3>1
    <2> QED
      BY <2>3, <2>4
  <1>8. k = q * ByteBits
    BY <1>6, <1>7
  <1>9. GroupsOf(q * ByteBits) = q
    <2>1. (q * ByteBits + ByteBits - 1) \div ByteBits = q
      <3>1. q * ByteBits \in Nat
        BY <1>1
      <3>2. q * ByteBits + ByteBits - 1 = q * ByteBits + (ByteBits - 1) /\ ByteBits - 1 \in Nat
        BY <1>1, <3>1
      <3> QED
        BY <1>1, <3>1, <3>2
    <2> QED
      BY <2>1 DEF GroupsOf
  <1> HIDE DEF k
  <1>10. GroupsOf(k) * ByteBits = k
    BY <1>8, <1>9
  <1> QED
    BY <1>10 DEF k

\* The scanner is between two codes where the reference is: in the last width the
\* run has reached, behind whole groups of the widths before.
Archive == header = "complete" /\ maxbits \in InitBits..MaxMaxBits

AtStart ==
    /\ bitpos = 0 /\ boundary = 0 /\ start = 0 /\ count = 0 /\ sound
    /\ width = InitBits /\ free = FirstFree

Placed ==
    /\ width \in InitBits..maxbits /\ count > 0
    /\ CodesBefore(blockMode, width) <= count
    /\ width = maxbits \/ count < LastCode(blockMode, width)
    /\ boundary = start + BitsBefore(blockMode)[width]
    /\ bitpos = boundary + (count - CodesBefore(blockMode, width)) * width

ScanInv ==
    /\ CompressTypeOK
    /\ header \in {"empty", "short", "bad magic", "no flags", "complete"}
    /\ stage = "header" => AtStart
    /\ stage = "first" => AtStart /\ Archive /\ total > 0
    /\ stage = "codes" => Archive /\ total > 0 /\ sound /\ Placed /\ free = Entries(count)
    /\ stage = "accepted" =>
           \/ AtStart /\ (header = "empty" \/ (Archive /\ total = 0))
           \/ Archive /\ sound /\ Placed /\ bitpos <= total /\ total - bitpos < ByteBits
    /\ stage = "refused" =>
           /\ header # "empty"
           /\ Archive => /\ total # 0
                         /\ \/ ~sound \/ count = 0
                            \/ Placed /\ (bitpos > total \/ total - bitpos >= ByteBits)

\* The initial states satisfy the invariant, and every kind of step keeps it.
LEMMA ScanInvInit == CompressInit => ScanInv
  <1> SUFFICES ASSUME CompressInit PROVE ScanInv
    OBVIOUS
  <1>1. /\ InitBits \in Nat /\ InitBits > 2 /\ MaxMaxBits \in Nat /\ ByteBits \in Nat
        /\ CLEAR \in Nat /\ InitBits <= MaxMaxBits /\ MaxBytes \in Nat
    BY Widths, CompressAssumption
  <1>2. maxbits \in Nat /\ header \in {"empty", "short", "bad magic", "no flags", "complete"}
    <2>1. /\ maxbits \in InitBits - 1..MaxMaxBits + 1
          /\ header \in {"empty", "short", "bad magic", "no flags", "complete"}
      BY DEF CompressInit
    <2>2. InitBits - 1 \in Nat /\ MaxMaxBits + 1 \in Nat
      BY <1>1
    <2>3. \A a, b \in Nat : a..b \subseteq Nat
      OBVIOUS
    <2> QED
      BY <2>1, <2>2, <2>3, Zenon
  <1>3. total \in Nat
    <2>1. PICK n \in 0..MaxBytes : total = n * ByteBits
      BY DEF CompressInit
    <2> QED
      BY <1>1, <2>1
  <1>4. FirstFree \in Nat
    BY <1>1 DEF FirstFree
  <1>5. /\ bitpos = 0 /\ width = InitBits /\ boundary = 0 /\ free = FirstFree /\ stage = "header"
        /\ count = 0 /\ start = 0 /\ sound = TRUE /\ cut = FALSE /\ blockMode \in BOOLEAN
    BY DEF CompressInit
  <1>6. CompressTypeOK
    <2>1. {maxbits, total, bitpos, width, boundary, free, count, start} \subseteq Nat
      <3>1. /\ bitpos \in Nat /\ width \in Nat /\ boundary \in Nat /\ free \in Nat
            /\ count \in Nat /\ start \in Nat
        BY <1>1, <1>4, <1>5
      <3> QED
        BY <1>2, <1>3, <3>1
    <2>2. sound \in BOOLEAN /\ cut \in BOOLEAN /\ blockMode \in BOOLEAN
      BY <1>5
    <2> QED
      BY <1>1, <1>5, <2>1, <2>2 DEF CompressTypeOK
  <1> QED
    BY <1>2, <1>5, <1>6 DEF ScanInv, AtStart

\* What is known of an archive while its codes are read.
LEMMA WhileReading ==
  ASSUME ScanInv, stage = "codes"
  PROVE  /\ Archive /\ total > 0 /\ sound = TRUE /\ Placed /\ free = Entries(count)
         /\ blockMode \in BOOLEAN
         /\ maxbits \in Nat /\ total \in Nat /\ bitpos \in Nat /\ width \in Nat
         /\ boundary \in Nat /\ free \in Nat /\ count \in Nat /\ start \in Nat
         /\ width \in InitBits..MaxMaxBits /\ width > 0
         /\ count - CodesBefore(blockMode, width) \in Nat
         /\ CodesBefore(blockMode, width) \in Nat /\ LastCode(blockMode, width) \in Nat
         /\ BitsBefore(blockMode)[width] \in Nat
  <1>1. Archive /\ total > 0 /\ sound /\ Placed /\ free = Entries(count)
    BY DEF ScanInv
  <1>2. /\ blockMode \in BOOLEAN /\ sound \in BOOLEAN
        /\ maxbits \in Nat /\ total \in Nat /\ bitpos \in Nat /\ width \in Nat
        /\ boundary \in Nat /\ free \in Nat /\ count \in Nat /\ start \in Nat
        /\ width \in InitBits..MaxMaxBits
    BY DEF ScanInv, CompressTypeOK
  <1>3. width > 0
    BY <1>2, Widths
  <1>4. CodesBefore(blockMode, width) \in Nat /\ LastCode(blockMode, width) \in Nat
    BY <1>2, CodesOfWidths
  <1>5. count - CodesBefore(blockMode, width) \in Nat
    BY <1>1, <1>2, <1>4 DEF Placed
  <1>6. BitsBefore(blockMode)[width] \in Nat
    BY <1>2, BitsBeforeWidth
  <1> QED
    BY <1>1, <1>2, <1>3, <1>4, <1>5, <1>6

LEMMA ScanInvHeader ==
  ASSUME ScanInv, ReadHeader
  PROVE  ScanInv'
  <1>1. /\ AtStart /\ CompressTypeOK /\ stage = "header" /\ total \in Nat
        /\ header \in {"empty", "short", "bad magic", "no flags", "complete"}
    BY DEF ScanInv, ReadHeader, CompressTypeOK
  <1>2. /\ UNCHANGED <<header, blockMode, maxbits, total, bitpos, width, boundary, free,
                       count, start, sound, cut>>
        /\ \/ header = "empty" /\ stage' = "accepted"
           \/ header \in {"short", "bad magic", "no flags"} /\ stage' = "refused"
           \/ header # "empty" /\ maxbits \notin InitBits..MaxMaxBits /\ stage' = "refused"
           \/ /\ header # "empty" /\ header \notin {"short", "bad magic", "no flags"}
              /\ maxbits \in InitBits..MaxMaxBits
              /\ stage' = IF total = 0 THEN "accepted" ELSE "first"
    BY DEF ReadHeader, Verdict, SawNothing, archiveVars
  <1>3. CompressTypeOK' /\ (AtStart)' /\ header' = header /\ total' = total
        /\ (Archive' <=> Archive)
    BY <1>1, <1>2 DEF CompressTypeOK, AtStart, Archive, FirstFree
  <1>4. CASE stage' = "accepted"
    BY <1>1, <1>2, <1>3, <1>4 DEF ScanInv, Archive
  <1>5. CASE stage' = "refused"
    BY <1>1, <1>2, <1>3, <1>5 DEF ScanInv, Archive
  <1>6. CASE stage' = "first"
    <2>1. total > 0 /\ Archive
      <3>1. /\ header # "empty" /\ header \notin {"short", "bad magic", "no flags"}
            /\ maxbits \in InitBits..MaxMaxBits /\ total # 0
        BY <1>2, <1>6
      <3> QED
        <4>1. total > 0
          <5>1. total \in Nat /\ total # 0
            BY <1>1, <3>1, Zenon
          <5> QED
            BY <5>1
        <4>2. header = "complete"
          BY <1>1, <3>1, Zenon
        <4> QED
          BY <3>1, <4>1, <4>2 DEF Archive
    <2> QED
      BY <1>1, <1>3, <1>6, <2>1 DEF ScanInv
  <1> QED
    BY <1>2, <1>4, <1>5, <1>6

\* The first code of an archive is a literal.
LEMMA ScanInvFirst ==
  ASSUME ScanInv, ReadFirst
  PROVE  ScanInv'
  <1>1. /\ AtStart /\ CompressTypeOK /\ stage = "first" /\ total \in Nat /\ total > 0 /\ Archive
        /\ header \in {"empty", "short", "bad magic", "no flags", "complete"}
        /\ maxbits \in Nat /\ blockMode \in BOOLEAN
    BY DEF ScanInv, ReadFirst, CompressTypeOK
  <1>2. /\ InitBits \in Nat /\ InitBits > 2 /\ MaxMaxBits \in Nat /\ CLEAR \in Nat /\ CLEAR > 1
    BY Widths
  <1>3. CASE /\ stage' = "refused"
             /\ UNCHANGED <<header, blockMode, maxbits, total, bitpos, width, boundary, free,
                            count, start, sound, cut>>
    <2>1. CompressTypeOK'
      BY <1>1, <1>3 DEF CompressTypeOK
    <2> QED
      BY <1>1, <1>3, <2>1 DEF ScanInv, AtStart, Archive
  <1>4. ASSUME NEW code \in 0..2^width - 1,
               stage' = (IF code >= CLEAR THEN "refused" ELSE "codes"), bitpos' = width,
               Saw(code, CLEAR - 1),
               UNCHANGED <<header, blockMode, maxbits, total, width, boundary, free>>
        PROVE  ScanInv'
    <2>1. /\ count' = 1 /\ start' = 0 /\ boundary' = 0 /\ bitpos' = InitBits /\ width' = InitBits
          /\ free' = FirstFree /\ (sound' <=> code <= CLEAR - 1) /\ sound' \in BOOLEAN
          /\ cut' \in BOOLEAN
      <3>0. cut' \in BOOLEAN
        BY <1>1, <1>4 DEF Saw, CompressTypeOK
      <3>1. count' = 1 /\ start' = 0
        <4>1. count = 0 /\ start = 0
          BY <1>1 DEF AtStart
        <4>2. count' = count + 1 /\ start' = start
          BY <1>4 DEF Saw
        <4> QED
          BY <4>1, <4>2
      <3>2. (sound' <=> code <= CLEAR - 1) /\ sound' \in BOOLEAN
        <4>1. sound /\ sound' = (sound /\ code <= CLEAR - 1)
          BY <1>1, <1>4 DEF Saw, AtStart
        <4> QED
          BY <4>1
      <3> QED
        BY <1>1, <1>4, <3>0, <3>1, <3>2 DEF AtStart
    <2>2. code \in Nat
      <3>1. width \in Nat
        BY <1>1 DEF CompressTypeOK
      <3>2. 2^width \in Nat
        BY <3>1, Powers
      <3> QED
        BY <1>4, <3>2
    <2>3. sound' <=> ~(code >= CLEAR)
      <3>1. code <= CLEAR - 1 <=> ~(code >= CLEAR)
        BY <1>2, <2>2
      <3> QED
        BY <2>1, <3>1, Zenon
    <2>4. FirstFree \in Nat
      BY <1>2 DEF FirstFree
    <2>5. CompressTypeOK'
      <3>1. stage' \in {"refused", "codes"}
        BY <1>4
      <3>2. {maxbits, total, bitpos, width, boundary, free, count, start}' \subseteq Nat
        <4>1. /\ maxbits' \in Nat /\ total' \in Nat /\ bitpos' \in Nat /\ width' \in Nat
              /\ boundary' \in Nat /\ free' \in Nat /\ count' \in Nat /\ start' \in Nat
          <5>1. InitBits \in Nat /\ 0 \in Nat /\ 1 \in Nat
            BY <1>2
          <5>2. maxbits' \in Nat /\ total' \in Nat
            BY <1>1, <1>4
          <5> QED
            BY <2>1, <2>4, <5>1, <5>2, Zenon
        <4> QED
          BY <4>1
      <3>3. width' \in InitBits..MaxMaxBits
        BY <1>1, <1>4 DEF CompressTypeOK
      <3> QED
        BY <1>1, <1>4, <2>1, <3>1, <3>2, <3>3 DEF CompressTypeOK
    <2>6. CASE code >= CLEAR
      <3>1. stage' = "refused" /\ ~sound' /\ total' # 0 /\ header' # "empty"
        BY <1>1, <1>4, <2>3, <2>6 DEF Archive
      <3> QED
        BY <1>1, <1>4, <2>5, <3>1 DEF ScanInv
    <2>7. CASE ~(code >= CLEAR)
      <3>1. stage' = "codes" /\ sound'
        BY <1>4, <2>3, <2>7
      <3>2. InitBits \in InitBits..MaxMaxBits /\ InitBits \in InitBits..maxbits
        BY <1>1, <1>2 DEF Archive
      <3>3. BitsBefore(blockMode)[InitBits] = 0 /\ CodesBefore(blockMode, InitBits) = 0
        BY <1>1, BitsBeforeWidth DEF CodesBefore
      <3>4. 1 < LastCode(blockMode, InitBits) /\ LastCode(blockMode, InitBits) \in Nat
        BY <1>1, <3>2, CodesOfWidths
      <3>5. Placed'
        <4>2. InitBits = 0 + (1 - 0) * InitBits
          BY <1>2
        <4> QED
          BY <1>4, <2>1, <3>2, <3>3, <3>4, <4>2 DEF Placed
      <3>6. FirstFree = Entries(1)
        <4>1. 2^maxbits >= 2 * CLEAR /\ 2^maxbits \in Nat
          BY <1>1, Widths DEF Archive
        <4>2. FirstFree < 2^maxbits
          BY <1>2, <4>1 DEF FirstFree
        <4>3. FirstFree + 1 - 1 = FirstFree
          BY <2>4
        <4> QED
          BY <4>2, <4>3 DEF Entries
      <3>7. Entries(count)' = Entries(1)
        BY <1>4, <2>1 DEF Entries, FirstFree
      <3> QED
        BY <1>1, <1>4, <2>1, <2>5, <3>1, <3>5, <3>6, <3>7 DEF ScanInv, Archive
    <2> QED
      BY <2>6, <2>7
  <1> QED
    BY <1>3, <1>4 DEF ReadFirst, Verdict, SawNothing, archiveVars

\* The variables of an archive do not change, and what is counted by them.
LEMMA ArchiveStays ==
  ASSUME UNCHANGED archiveVars
  PROVE  /\ header' = header /\ blockMode' = blockMode /\ maxbits' = maxbits /\ total' = total
         /\ Archive' <=> Archive
         /\ FirstFree' = FirstFree
         /\ \A n : Entries(n)' = Entries(n)
         /\ \A w : CodesBefore(blockMode, w)' = CodesBefore(blockMode, w)
         /\ \A w : LastCode(blockMode, w)' = LastCode(blockMode, w)
         /\ BitsBefore(blockMode)' = BitsBefore(blockMode)
  BY DEF archiveVars, Archive, FirstFree, Entries, CodesBefore, LastCode

\* A code is written behind the ones of its width.
LEMMA NextPosition ==
  ASSUME ScanInv, stage = "codes"
  PROVE  LET k == count + 1 - CodesBefore(blockMode, width)
         IN  /\ k \in Nat \ {0}
             /\ bitpos + width = boundary + k * width
             /\ AlignToGroup(bitpos + width, width, boundary)
                    = boundary + GroupsOf(k) * ByteBits * width
             /\ GroupsOf(k) * ByteBits * width \in Nat
  <1> DEFINE c == CodesBefore(blockMode, width)
             k == count + 1 - c
  <1>1. /\ bitpos \in Nat /\ width \in Nat /\ width > 0 /\ boundary \in Nat /\ count \in Nat
        /\ c \in Nat /\ count - c \in Nat /\ Placed
    BY WhileReading
  <1>2. k \in Nat /\ k # 0 /\ k = (count - c) + 1
    <2> HIDE DEF c
    <2> QED
      BY <1>1
  <1>3. bitpos = boundary + (count - c) * width
    BY <1>1 DEF Placed
  <1>4. bitpos + width = boundary + k * width
    <2> HIDE DEF c, k
    <2>1. k * width = (count - c) * width + width
      BY <1>1, <1>2
    <2>2. (count - c) * width \in Nat
      BY <1>1
    <2> QED
      BY <1>1, <1>3, <2>1, <2>2
  <1>5. AlignToGroup(boundary + k * width, width, boundary)
            = boundary + GroupsOf(k) * ByteBits * width
    <2> HIDE DEF k
    <2>1. k \in Nat \ {0} /\ width \in Nat \ {0}
      BY <1>1, <1>2
    <2> QED
      BY <1>1, <2>1, AlignsToGroup
  <1>6. GroupsOf(k) * ByteBits * width \in Nat
    <2>1. GroupsOf(k) \in Nat
      BY <1>2, Groups
    <2>2. ByteBits \in Nat
      BY Widths
    <2> HIDE DEF k
    <2> QED
      BY <1>1, <2>1, <2>2
  <1> QED
    BY <1>2, <1>4, <1>5, <1>6

\* A code beyond the entry being added is refused: it names nothing.
LEMMA ScanInvRefusedCode ==
  ASSUME ScanInv, stage = "codes", NEW code \in Nat, code > free, Saw(code, Entries(count)),
         stage' = "refused", bitpos' = bitpos + width,
         UNCHANGED <<width, boundary, free>>, UNCHANGED archiveVars
  PROVE  ScanInv'
  <1>1. /\ free = Entries(count) /\ free \in Nat /\ bitpos \in Nat /\ width \in Nat
        /\ count \in Nat /\ total \in Nat /\ total > 0 /\ Archive
    BY WhileReading
  <1>2. ~(code <= Entries(count))
    BY <1>1
  <1>3. sound' = FALSE /\ count' = count + 1 /\ start' = start /\ cut' = cut
    <2>1. /\ sound' = (sound /\ code <= Entries(count)) /\ count' = count + 1
          /\ start' = start /\ cut' = cut
      BY DEF Saw
    <2> QED
      BY <1>2, <2>1
  <1>4. bitpos' \in Nat /\ count' \in Nat
    BY <1>1, <1>3
  <1>5. /\ header' = header /\ blockMode' = blockMode /\ maxbits' = maxbits /\ total' = total
    BY ArchiveStays
  <1>6. CompressTypeOK'
    <2>1. /\ maxbits' \in Nat /\ total' \in Nat /\ width' \in Nat /\ boundary' \in Nat
          /\ free' \in Nat /\ start' \in Nat /\ width' \in InitBits..MaxMaxBits
          /\ blockMode' \in BOOLEAN /\ cut' \in BOOLEAN
      BY <1>3, <1>5 DEF ScanInv, CompressTypeOK
    <2> QED
      BY <1>3, <1>4, <2>1 DEF CompressTypeOK
  <1>7. header' = "complete" /\ total' # 0
    BY <1>1, <1>5 DEF Archive
  <1> QED
    BY <1>3, <1>6, <1>7 DEF ScanInv

\* A code that names something: the place of the next one, and its width.
LEMMA ScanInvGoodCode ==
  ASSUME ScanInv, stage = "codes", NEW code \in Nat, ~(code > free),
         Saw(code, Entries(count)), stage' = stage, UNCHANGED archiveVars,
         free' = (IF free < 2^maxbits THEN free + 1 ELSE free),
         IF free < 2^maxbits /\ free' > 2^width - 1 /\ width < maxbits
         THEN /\ boundary' = AlignToGroup(bitpos + width, width, boundary)
              /\ bitpos' = boundary'
              /\ width' = width + 1
         ELSE bitpos' = bitpos + width /\ UNCHANGED <<width, boundary>>
  PROVE  ScanInv'
  <1> DEFINE c == CodesBefore(blockMode, width)
             k == count + 1 - c
             last == LastCode(blockMode, width)
             b == BitsBefore(blockMode)
             F == FirstFree
             top == 2^maxbits
  <1>1. /\ free = Entries(count) /\ free \in Nat /\ bitpos \in Nat /\ width \in Nat /\ width > 0
        /\ count \in Nat /\ total \in Nat /\ total > 0 /\ boundary \in Nat /\ start \in Nat
        /\ c \in Nat /\ last \in Nat /\ b[width] \in Nat
        /\ width \in InitBits..MaxMaxBits /\ maxbits \in Nat /\ blockMode \in BOOLEAN
    BY WhileReading
  <1>2. Archive /\ Placed /\ sound
    BY WhileReading
  <1>3. /\ header' = header /\ blockMode' = blockMode /\ maxbits' = maxbits /\ total' = total
        /\ Archive' /\ FirstFree' = F /\ BitsBefore(blockMode)' = b
    BY <1>2, ArchiveStays
  <1>4. sound' = TRUE /\ count' = count + 1 /\ start' = start /\ cut' \in BOOLEAN
    <2>0. cut' \in BOOLEAN
      BY DEF Saw, ScanInv, CompressTypeOK
    <2>1. sound' = (sound /\ code <= Entries(count)) /\ count' = count + 1 /\ start' = start
      BY DEF Saw
    <2>2. code <= Entries(count)
      BY <1>1
    <2> QED
      BY <1>2, <2>0, <2>1, <2>2
  <1>5. /\ k \in Nat \ {0} /\ bitpos + width = boundary + k * width
        /\ AlignToGroup(bitpos + width, width, boundary)
               = boundary + GroupsOf(k) * ByteBits * width
        /\ GroupsOf(k) * ByteBits * width \in Nat
    BY <1>2, NextPosition
  <1>6. /\ width \in InitBits..maxbits /\ count > 0 /\ c <= count
        /\ width = maxbits \/ count < last
        /\ boundary = start + b[width]
    BY <1>2 DEF Placed
  <1>7. /\ InitBits \in Nat /\ MaxMaxBits \in Nat /\ maxbits \in InitBits..MaxMaxBits
        /\ F \in Nat /\ top \in Nat /\ 2^width \in Nat
        /\ width < maxbits => 2^width < top
    <2>1. /\ InitBits \in Nat /\ MaxMaxBits \in Nat /\ CLEAR \in Nat
          /\ \A w \in InitBits..MaxMaxBits : 2^w \in Nat
          /\ \A v, w \in InitBits..MaxMaxBits : v < w => 2^v < 2^w
      BY Widths
    <2>2. maxbits \in InitBits..MaxMaxBits
      BY <1>2 DEF Archive
    <2>3. F \in Nat
      BY <2>1 DEF FirstFree
    <2> QED
      BY <1>1, <2>1, <2>2, <2>3
  <1>8. last = 2^width - F + 1
    BY DEF LastCode, EntriesFrom, FirstFree
  <1>9. /\ free = IF F + count - 1 < top THEN F + count - 1 ELSE top
        /\ Entries(count + 1) = IF F + (count + 1) - 1 < top THEN F + (count + 1) - 1 ELSE top
    BY <1>1 DEF Entries
  <1> HIDE DEF c, last, b, F, top
  <1>10. free' = Entries(count + 1)
    <2>1. free' = IF free < top THEN free + 1 ELSE free
      BY DEF top
    <2>2. CASE F + count - 1 < top
      <3>1. free = F + count - 1 /\ free' = free + 1
        BY <1>9, <2>1, <2>2
      <3>2. F + count - 1 \in Nat /\ F + (count + 1) - 1 = (F + count - 1) + 1
        BY <1>1, <1>6, <1>7
      <3> QED
        BY <1>7, <1>9, <2>2, <3>1, <3>2
    <2>3. CASE ~(F + count - 1 < top)
      <3>1. free = top /\ free' = top
        BY <1>7, <1>9, <2>1, <2>3
      <3>2. ~(F + (count + 1) - 1 < top)
        BY <1>1, <1>7, <2>3
      <3> QED
        BY <1>9, <3>1, <3>2
    <2> QED
      BY <2>2, <2>3
  <1>11. free' \in Nat
    BY <1>1
  <1>12. free' = Entries(count)'
    <2>1. Entries(count)' = IF F + (count + 1) - 1 < top THEN F + (count + 1) - 1 ELSE top
      BY <1>3, <1>4 DEF Entries, top
    <2> QED
      BY <1>9, <1>10, <2>1
  <1>13. CASE free < top /\ free' > 2^width - 1 /\ width < maxbits
    <2>1. free = F + count - 1 /\ free' = F + count
      <3>1. free' = free + 1
        BY <1>13 DEF top
      <3> QED
        BY <1>1, <1>7, <1>9, <1>13, <3>1
    <2>2. count + 1 = last
      BY <1>1, <1>6, <1>7, <1>8, <1>13, <2>1
    <2>3. /\ width + 1 \in InitBits..maxbits /\ width + 1 \in InitBits..MaxMaxBits
          /\ width \in InitBits..MaxMaxBits - 1 /\ width < MaxMaxBits
      BY <1>1, <1>7, <1>13
    <2>4. CodesBefore(blockMode, width + 1) = count + 1
      BY <1>1, <2>2, <2>3, CodesOfWidths DEF last
    <2>5. count + 1 < LastCode(blockMode, width + 1)
      BY <1>1, <2>3, <2>4, CodesOfWidths
    <2>6. b[width + 1] = b[width] + GroupsOf(k) * ByteBits * width
      <3>1. b[width + 1] = b[width] + WidthBits(blockMode, width)
        BY <1>1, <2>3, BitsBeforeWidth DEF b
      <3>2. WidthBits(blockMode, width) = GroupsOf(k) * ByteBits * width
        <4>1. LastCode(blockMode, width) - CodesBefore(blockMode, width) = k
          BY <1>1, <2>2 DEF c, last
        <4> HIDE DEF k
        <4> QED
          BY <4>1 DEF WidthBits
      <3> QED
        BY <3>1, <3>2
    <2>7. /\ boundary' = boundary + GroupsOf(k) * ByteBits * width
          /\ bitpos' = boundary' /\ width' = width + 1
      BY <1>5, <1>13 DEF top
    <2> HIDE DEF k
    <2>8. boundary' = start + b[width + 1] /\ boundary' \in Nat
      <3> DEFINE g == GroupsOf(k) * ByteBits * width
      <3>1. g \in Nat /\ boundary' = boundary + g /\ b[width + 1] = b[width] + g
        BY <1>5, <2>6, <2>7
      <3> HIDE DEF g
      <3> QED
        BY <1>1, <1>6, <3>1
    <2>9. bitpos' = boundary' + ((count + 1) - CodesBefore(blockMode, width + 1)) * (width + 1)
      <3>1. ((count + 1) - CodesBefore(blockMode, width + 1)) * (width + 1) = 0
        <4>1. (count + 1) - (count + 1) = 0 /\ 0 * (width + 1) = 0
          BY <1>1
        <4> QED
          BY <2>4, <4>1
      <3>2. boundary' + 0 = boundary'
        BY <2>8
      <3> QED
        BY <2>7, <3>1, <3>2
    <2>10. Placed'
      <3>1. /\ width' = width + 1 /\ count' = count + 1 /\ blockMode' = blockMode
            /\ maxbits' = maxbits /\ start' = start
        BY <1>3, <1>4, <2>7
      <3>2. count + 1 > 0 /\ count + 1 <= count + 1
        BY <1>1
      <3>3. boundary' = start' + BitsBefore(blockMode)'[width']
        BY <1>3, <2>8, <3>1
      <3>4. bitpos' = boundary' + (count' - CodesBefore(blockMode', width')) * width'
        BY <2>9, <3>1
      <3>5. CodesBefore(blockMode', width') <= count' /\ count' < LastCode(blockMode', width')
        BY <2>4, <2>5, <3>1, <3>2
      <3> QED
        BY <2>3, <3>1, <3>2, <3>3, <3>4, <3>5 DEF Placed
    <2>11. CompressTypeOK'
      <3>1. bitpos' \in Nat /\ width' \in Nat /\ width' \in InitBits..MaxMaxBits /\ count' \in Nat
        BY <1>1, <1>4, <2>3, <2>7, <2>8
      <3> QED
        BY <1>1, <1>3, <1>4, <1>11, <2>8, <3>1 DEF CompressTypeOK
    <2>12. stage' = "codes" /\ sound' /\ total' > 0 /\ header' = "complete"
      BY <1>1, <1>2, <1>3, <1>4 DEF Archive
    <2> QED
      BY <1>3, <1>12, <2>10, <2>11, <2>12 DEF ScanInv
  <1>14. CASE ~(free < top /\ free' > 2^width - 1 /\ width < maxbits)
    <2>1. bitpos' = bitpos + width /\ width' = width /\ boundary' = boundary
      BY <1>14 DEF top
    <2>2. width = maxbits \/ count + 1 < last
      <3> SUFFICES ASSUME width < maxbits PROVE count + 1 < last
        BY <1>1, <1>6, <1>7
      <3>1. count < last /\ F + count <= 2^width /\ F + count - 1 < top
        BY <1>1, <1>6, <1>7, <1>8
      <3>2. free = F + count - 1 /\ free < top
        BY <1>9, <3>1
      <3>3. free' = F + count
        <4>1. free' = free + 1
          BY <3>2 DEF top
        <4> QED
          BY <1>1, <1>7, <3>2, <4>1
      <3>4. F + count <= 2^width - 1
        BY <1>1, <1>7, <1>14, <3>2, <3>3
      <3> QED
        BY <1>1, <1>7, <1>8, <3>4
    <2>3. bitpos' = boundary + k * width
      BY <1>5, <2>1
    <2>4. bitpos' \in Nat
      BY <1>1, <2>1
    <2>5. Placed'
      <3>1. /\ width' = width /\ count' = count + 1 /\ blockMode' = blockMode
            /\ maxbits' = maxbits /\ start' = start /\ boundary' = boundary
        BY <1>3, <1>4, <2>1
      <3>2. count + 1 > 0 /\ c <= count + 1
        BY <1>1, <1>6
      <3>3. boundary' = start' + BitsBefore(blockMode)'[width']
        BY <1>3, <1>6, <3>1
      <3>4. bitpos' = boundary' + (count' - CodesBefore(blockMode', width')) * width'
        <4>1. count' - CodesBefore(blockMode', width') = k
          BY <1>1, <3>1 DEF c
        <4> HIDE DEF k
        <4> QED
          BY <2>3, <3>1, <4>1
      <3>5. /\ CodesBefore(blockMode', width') <= count'
            /\ width' = maxbits' \/ count' < LastCode(blockMode', width')
        BY <2>2, <3>1, <3>2 DEF c, last
      <3> QED
        BY <1>6, <3>1, <3>2, <3>3, <3>4, <3>5 DEF Placed
    <2>6. CompressTypeOK'
      <3>1. width' \in InitBits..MaxMaxBits /\ count' \in Nat /\ boundary' \in Nat /\ width' \in Nat
        BY <1>1, <1>4, <2>1
      <3> QED
        BY <1>1, <1>3, <1>4, <1>11, <2>4, <3>1 DEF CompressTypeOK
    <2>7. stage' = "codes" /\ sound' /\ total' > 0 /\ header' = "complete"
      BY <1>1, <1>2, <1>3, <1>4 DEF Archive
    <2> QED
      BY <1>3, <1>12, <2>5, <2>6, <2>7 DEF ScanInv
  <1> QED
    BY <1>13, <1>14

LEMMA ScanInvCode ==
  ASSUME ScanInv, ReadCode
  PROVE  ScanInv'
  <1>1. stage = "codes" /\ UNCHANGED archiveVars
    BY DEF ReadCode
  <1>2. PICK code \in 0..2^width - 1 :
            /\ Saw(code, Entries(count))
            /\ IF code > free
               THEN stage' = "refused" /\ bitpos' = bitpos + width /\ UNCHANGED <<width, boundary, free>>
               ELSE /\ free' = IF free < 2^maxbits THEN free + 1 ELSE free
                    /\ IF free < 2^maxbits /\ free' > 2^width - 1 /\ width < maxbits
                       THEN /\ boundary' = AlignToGroup(bitpos + width, width, boundary)
                            /\ bitpos' = boundary'
                            /\ width' = width + 1
                       ELSE bitpos' = bitpos + width /\ UNCHANGED <<width, boundary>>
                    /\ UNCHANGED stage
    BY DEF ReadCode
  <1>3. code \in Nat
    <2>1. width \in Nat
      BY <1>1, WhileReading
    <2>2. 2^width \in Nat
      BY <2>1, Powers
    <2> QED
      BY <2>2
  <1>4. CASE code > free
    BY <1>1, <1>2, <1>3, <1>4, ScanInvRefusedCode
  <1>5. CASE ~(code > free)
    <2>1. stage' = stage
      BY <1>2, <1>5
    <2> QED
      BY <1>1, <1>2, <1>3, <1>5, <2>1, ScanInvGoodCode
  <1> QED
    BY <1>4, <1>5

\* After a CLEAR the next run begins where the reference says it does.
LEMMA ScanInvClear ==
  ASSUME ScanInv, ReadClear
  PROVE  ScanInv'
  <1> DEFINE c == CodesBefore(blockMode, width)
             k == count + 1 - c
             last == LastCode(blockMode, width)
             b == BitsBefore(blockMode)
             g == GroupsOf(k) * ByteBits * width
  <1>1. stage = "codes" /\ blockMode = TRUE /\ UNCHANGED archiveVars
    <2>1. stage = "codes" /\ blockMode /\ UNCHANGED archiveVars
      BY DEF ReadClear
    <2>2. blockMode \in BOOLEAN
      BY <2>1, WhileReading
    <2> QED
      BY <2>1, <2>2
  <1>2. /\ width \in Nat /\ count \in Nat /\ total \in Nat /\ total > 0
        /\ boundary \in Nat /\ start \in Nat /\ maxbits \in Nat
        /\ c \in Nat /\ last \in Nat /\ b[width] \in Nat
    BY <1>1, WhileReading
  <1>3. Archive /\ Placed /\ sound = TRUE
    BY <1>1, WhileReading
  <1>4. /\ width \in InitBits..maxbits /\ c <= count /\ boundary = start + b[width]
        /\ width = maxbits \/ count < last
    BY <1>3 DEF Placed
  <1>5. maxbits \in InitBits..MaxMaxBits /\ header = "complete"
    BY <1>3 DEF Archive
  <1>6. boundary' = boundary + g /\ g \in Nat
    <2>1. boundary' = AlignToGroup(bitpos + width, width, boundary)
      BY DEF ReadClear
    <2> QED
      BY <1>1, <2>1, NextPosition
  <1>7. RunBits(count + 1, TRUE) = b[width] + g
    <2>1. c <= count + 1 /\ (width = maxbits \/ count + 1 <= last) /\ count + 1 \in Nat
      BY <1>2, <1>4
    <2>2. blockMode \in BOOLEAN
      BY <1>1
    <2>3. ASSUME NEW n \in Nat, c <= n, width = maxbits \/ n <= last
          PROVE  RunBits(n, TRUE) = b[width] + GroupsOf(n - c) * ByteBits * width
      BY <1>4, <1>5, <2>2, <2>3, RunBitsAtEnd
    <2>4. count + 1 \in Nat /\ c <= count + 1 /\ (width = maxbits \/ count + 1 <= last)
      BY <2>1
    <2> HIDE DEF b, c, last
    <2>5. PICK n \in Nat : n = count + 1
      BY <2>4
    <2>6. n - c = k
      BY <1>2, <2>5
    <2>7. RunBits(n, TRUE) = b[width] + GroupsOf(n - c) * ByteBits * width
      <3> HIDE DEF k, g
      <3> QED
        BY <2>3, <2>4, <2>5
    <2> HIDE DEF k
    <2>8. RunBits(n, TRUE) = b[width] + g
      BY <2>6, <2>7
    <2> QED
      BY <2>5, <2>8
  <1>8. start' = start + RunBits(count + 1, TRUE)
    BY DEF ReadClear
  <1> HIDE DEF g, b, c, last
  <1>9. start' \in Nat /\ boundary' = start' /\ boundary' \in Nat
    <2>1. /\ start \in Nat /\ b[width] \in Nat /\ g \in Nat
          /\ boundary' = (start + b[width]) + g /\ start' = start + (b[width] + g)
      BY <1>2, <1>4, <1>6, <1>7, <1>8, Zenon
    <2> QED
      BY <2>1
  <1>10. free' = CLEAR + 1 /\ width' = InitBits /\ cut' \in BOOLEAN
    BY DEF ReadClear, ScanInv, CompressTypeOK
  <1>11. /\ InitBits \in Nat /\ InitBits > 2 /\ CLEAR \in Nat /\ CLEAR > 1
         /\ InitBits \in InitBits..MaxMaxBits /\ InitBits \in InitBits..maxbits
    <2>1. InitBits \in Nat /\ InitBits > 2 /\ CLEAR \in Nat /\ CLEAR > 1 /\ MaxMaxBits \in Nat
      BY Widths
    <2> QED
      BY <1>2, <1>5, <2>1
  <1>12. /\ header' = header /\ blockMode' = blockMode /\ maxbits' = maxbits /\ total' = total
         /\ BitsBefore(blockMode)' = b
    BY <1>1, ArchiveStays DEF b
  <1>13. CASE stage' = "refused" /\ bitpos' = boundary' /\ count' = 0 /\ UNCHANGED sound
    <2>1. sound' = TRUE /\ free' \in Nat /\ bitpos' \in Nat /\ count' \in Nat
      BY <1>3, <1>9, <1>10, <1>11, <1>13
    <2>2. CompressTypeOK'
      BY <1>1, <1>2, <1>9, <1>10, <1>11, <1>12, <1>13, <2>1 DEF CompressTypeOK
    <2>3. total' # 0 /\ header' = "complete"
      BY <1>2, <1>5, <1>12
    <2> QED
      BY <1>13, <2>2, <2>3 DEF ScanInv
  <1>14. ASSUME NEW literal \in 0..2^InitBits - 1,
                bitpos' = boundary' + InitBits,
                stage' = (IF literal >= CLEAR THEN "refused" ELSE "codes"),
                count' = 1, sound' = (sound /\ literal < CLEAR)
         PROVE  ScanInv'
    <2>1. literal \in Nat
      <3>1. 2^InitBits \in Nat
        BY <1>11, Powers
      <3> QED
        BY <3>1
    <2>2. sound' \in BOOLEAN /\ (sound' <=> ~(literal >= CLEAR))
      <3>1. literal < CLEAR <=> ~(literal >= CLEAR)
        BY <1>11, <2>1
      <3> QED
        BY <1>3, <1>14, <3>1
    <2>3. free' \in Nat /\ bitpos' \in Nat /\ count' \in Nat
      <3>1. \A x, y \in Nat : x + y \in Nat
        OBVIOUS
      <3>2. 1 \in Nat
        OBVIOUS
      <3> QED
        BY <1>9, <1>10, <1>11, <1>14, <3>1, <3>2, Zenon
    <2>4. stage' \in {"refused", "codes"}
      BY <1>14
    <2>5. CompressTypeOK'
      BY <1>1, <1>2, <1>9, <1>10, <1>11, <1>12, <2>2, <2>3, <2>4 DEF CompressTypeOK
    <2>6. total' # 0 /\ total' > 0 /\ header' = "complete"
      BY <1>2, <1>5, <1>12
    <2>7. CASE literal >= CLEAR
      <3>1. stage' = "refused" /\ ~sound'
        BY <1>14, <2>2, <2>7
      <3> QED
        BY <2>5, <2>6, <3>1 DEF ScanInv
    <2>8. CASE ~(literal >= CLEAR)
      <3>1. stage' = "codes" /\ sound'
        BY <1>14, <2>2, <2>8
      <3>2. BitsBefore(blockMode)[InitBits] = 0 /\ CodesBefore(blockMode, InitBits) = 0
        BY <1>1, BitsBeforeWidth DEF CodesBefore
      <3>3. 1 < LastCode(blockMode, InitBits)
        BY <1>1, <1>11, CodesOfWidths
      <3>4. Placed'
        <4>1. (1 - 0) * InitBits = InitBits /\ start' + 0 = start'
          <5>1. \A x \in Nat : (1 - 0) * x = x /\ x + 0 = x
            OBVIOUS
          <5> QED
            BY <1>9, <1>11, <5>1, Zenon
        <4>2. bitpos' = boundary' + (1 - 0) * InitBits /\ boundary' = start' + 0
          BY <1>9, <1>14, <4>1
        <4>3. BitsBefore(blockMode)'[InitBits] = 0
          BY <1>12, <3>2 DEF b
        <4> QED
          BY <1>10, <1>11, <1>12, <1>14, <3>2, <3>3, <4>2, <4>3 DEF Placed
      <3>5. Entries(count)' = CLEAR + 1
        <4>1. 2^maxbits >= 2 * CLEAR /\ 2^maxbits \in Nat
          BY <1>5, Widths
        <4>2. FirstFree' = CLEAR + 1
          BY <1>1, <1>12 DEF FirstFree
        <4>3. Entries(count)' = IF (CLEAR + 1) + 1 - 1 < 2^maxbits
                                THEN (CLEAR + 1) + 1 - 1 ELSE 2^maxbits
          BY <1>12, <1>14, <4>2 DEF Entries
        <4>4. (CLEAR + 1) + 1 - 1 = CLEAR + 1 /\ CLEAR + 1 < 2^maxbits
          BY <1>11, <4>1
        <4> QED
          BY <4>3, <4>4
      <3>6. Archive'
        BY <1>5, <1>12 DEF Archive
      <3> QED
        BY <1>10, <2>5, <2>6, <3>1, <3>4, <3>5, <3>6 DEF ScanInv
    <2> QED
      BY <2>7, <2>8
  <1> QED
    BY <1>13, <1>14 DEF ReadClear

\* The end of the codes is where the reference says it is, behind the padding if
\* the last code fills its width.
LEMMA EndOfRun ==
  ASSUME Placed, CompressTypeOK, Archive
  PROVE  LET unpadded == start + RunBits(count, FALSE)
             padded   == start + RunBits(count, TRUE)
         IN  /\ unpadded \in Nat /\ unpadded <= bitpos /\ bitpos \in Nat
             /\ ~FillsWidth(count) => unpadded = bitpos
             /\ FillsWidth(count) => padded = bitpos
             /\ blockMode => unpadded = bitpos
  <1> DEFINE c == CodesBefore(blockMode, width)
             b == BitsBefore(blockMode)
  <1>1. /\ blockMode \in BOOLEAN /\ maxbits \in InitBits..MaxMaxBits /\ width \in InitBits..maxbits
        /\ count \in Nat /\ start \in Nat /\ width \in Nat /\ width \in InitBits..MaxMaxBits
        /\ c <= count /\ bitpos \in Nat
        /\ width = maxbits \/ count < LastCode(blockMode, width)
        /\ boundary = start + b[width] /\ bitpos = boundary + (count - c) * width
    BY DEF CompressTypeOK, Archive, Placed
  <1>2. b[width] \in Nat /\ c \in Nat /\ LastCode(blockMode, width) \in Nat
    BY <1>1, BitsBeforeWidth, CodesOfWidths
  <1>3. InitBits \in Nat /\ MaxMaxBits \in Nat /\ ByteBits \in Nat
    BY Widths
  <1>4. \A v : UpTo(v) = LastCode(blockMode, v)
    BY DEF UpTo, LastCode, FirstFree, EntriesFrom
  <1>5. CASE c < count \/ width = InitBits
    <2>1. RunBits(count, FALSE) = b[width] + (count - c) * width
      <3>1. FALSE \in BOOLEAN /\ (width = maxbits \/ count <= LastCode(blockMode, width))
        BY <1>1, <1>2
      <3> QED
        BY <1>1, <1>5, <3>1, RunBitsAt
    <2>2. (count - c) * width \in Nat
      <3> HIDE DEF c
      <3> QED
        BY <1>1, <1>2
    <2>3. start + RunBits(count, FALSE) = bitpos
      <3> DEFINE x == (count - c) * width
      <3>1. x \in Nat /\ bitpos = boundary + x /\ RunBits(count, FALSE) = b[width] + x
        BY <1>1, <2>1, <2>2
      <3>2. boundary = start + b[width] /\ start \in Nat /\ b[width] \in Nat
        BY <1>1, <1>2
      <3> HIDE DEF x, b
      <3>3. \A a, y, z \in Nat : a + (y + z) = (a + y) + z
        OBVIOUS
      <3>4. start + (b[width] + x) = (start + b[width]) + x
        BY <3>1, <3>2, <3>3, Zenon
      <3> QED
        BY <3>1, <3>2, <3>4, Zenon
    <2>4. ~FillsWidth(count)
      <3> SUFFICES ASSUME NEW v \in InitBits..maxbits - 1, count = UpTo(v) PROVE FALSE
        BY DEF FillsWidth
      <3>1. v \in InitBits..MaxMaxBits /\ v \in Nat /\ count = LastCode(blockMode, v)
        BY <1>1, <1>3, <1>4
      <3>2. CASE v < width
        <4>1. LastCode(blockMode, v) <= c
          BY <1>1, <3>1, <3>2, CodesOfWidths
        <4>2. width # InitBits
          BY <1>3, <3>1, <3>2
        <4> HIDE DEF c
        <4> QED
          BY <1>1, <1>2, <1>5, <3>1, <4>1, <4>2
      <3>3. CASE v = width
        BY <1>1, <1>2, <3>1, <3>3
      <3>4. CASE width < v
        <4>1. LastCode(blockMode, width) <= CodesBefore(blockMode, v)
          BY <1>1, <3>1, <3>4, CodesOfWidths
        <4>2. CodesBefore(blockMode, v) < LastCode(blockMode, v) /\ CodesBefore(blockMode, v) \in Nat
          BY <1>1, <3>1, CodesOfWidths
        <4> QED
          BY <1>1, <1>2, <3>1, <3>4, <4>1, <4>2
      <3> QED
        BY <1>1, <3>1, <3>2, <3>3, <3>4
    <2>5. bitpos \in Nat /\ bitpos <= bitpos
      BY <1>1
    <2> HIDE DEF b, c
    <2> QED
      BY <2>3, <2>4, <2>5, Zenon
  <1>6. CASE ~(c < count \/ width = InitBits)
    <2> DEFINE v == width - 1
               d == CodesBefore(blockMode, v)
               k == LastCode(blockMode, v) - d
    <2>1. /\ v \in InitBits..MaxMaxBits - 1 /\ v \in InitBits..maxbits - 1 /\ v + 1 = width
          /\ v \in InitBits..maxbits /\ v \in InitBits..MaxMaxBits /\ v \in Nat /\ v < maxbits
      BY <1>1, <1>3, <1>6
    <2>2. c = LastCode(blockMode, v) /\ count = c
      <3>1. c = LastCode(blockMode, v)
        BY <1>6 DEF CodesBefore
      <3>2. c <= count /\ count \in Nat /\ c \in Nat /\ ~(c < count)
        BY <1>1, <1>2, <1>6
      <3> HIDE DEF c, v
      <3>3. count = c
        BY <3>2
      <3> QED
        BY <3>1, <3>3
    <2>3. d \in Nat /\ LastCode(blockMode, v) \in Nat /\ d < LastCode(blockMode, v)
      BY <1>1, <2>1, CodesOfWidths
    <2>4. k \in Nat \ {0} /\ GroupsOf(k) \in Nat /\ GroupsOf(k) * ByteBits >= k
      <3>1. k \in Nat \ {0}
        <4> HIDE DEF d, v
        <4> QED
          BY <2>3
      <3> HIDE DEF k
      <3> QED
        BY <3>1, Groups
    <2>5. b[width] = b[v] + GroupsOf(k) * ByteBits * v /\ b[v] \in Nat
      <3>1. b[v + 1] = b[v] + WidthBits(blockMode, v) /\ b[v] \in Nat
        BY <1>1, <2>1, BitsBeforeWidth
      <3>2. b[v + 1] = b[width]
        BY <2>1
      <3> QED
        BY <3>1, <3>2 DEF WidthBits
    <2>6. RunBits(count, FALSE) = b[v] + k * v
      <3>1. /\ FALSE \in BOOLEAN /\ d <= count /\ count <= LastCode(blockMode, v) /\ d < count
        <4> HIDE DEF c, d, v
        <4> QED
          BY <1>1, <2>2, <2>3
      <3>2. RunBits(count, FALSE) = b[v] + (count - d) * v
        <4> HIDE DEF v
        <4> QED
          BY <1>1, <2>1, <3>1, RunBitsAt
      <3>3. count - d = k
        BY <2>2
      <3> HIDE DEF k, d, b
      <3> QED
        BY <3>2, <3>3
    <2>7. RunBits(count, TRUE) = b[width] + GroupsOf(count - c) * ByteBits * width
      <3>1. TRUE \in BOOLEAN /\ (width = maxbits \/ count <= LastCode(blockMode, width))
        BY <1>1, <1>2
      <3> QED
        BY <1>1, <3>1, RunBitsAtEnd
    <2>8. FillsWidth(count)
      <3>1. count = UpTo(v)
        BY <1>4, <2>2
      <3> HIDE DEF v
      <3> QED
        BY <2>1, <3>1 DEF FillsWidth
    <2>9. bitpos = start + b[width]
      <3>1. count - c = 0
        <4> HIDE DEF c
        <4> QED
          BY <1>2, <2>2
      <3>2. (count - c) * width = 0
        <4>1. 0 * width = 0
          BY <1>1
        <4> HIDE DEF c
        <4> QED
          BY <3>1, <4>1
      <3>3. bitpos = (start + b[width]) + 0
        <4> HIDE DEF c, b
        <4> QED
          BY <1>1, <3>2, Zenon
      <3> HIDE DEF b
      <3> QED
        BY <1>1, <1>2, <3>3
    <2>10. start + RunBits(count, TRUE) = bitpos
      <3>1. GroupsOf(count - c) * ByteBits * width = 0
        <4>1. count - c = 0
          <5> HIDE DEF c
          <5> QED
            BY <1>2, <2>2
        <4>2. GroupsOf(0) = 0 /\ 0 * ByteBits * width = 0
          BY <1>1, <1>3, Groups
        <4> HIDE DEF c
        <4> QED
          BY <4>1, <4>2
      <3>2. RunBits(count, TRUE) = b[width] + 0
        <4> HIDE DEF b, c
        <4> QED
          BY <2>7, <3>1, Zenon
      <3>3. \A x \in Nat : x + 0 = x
        OBVIOUS
      <3> HIDE DEF b
      <3>4. RunBits(count, TRUE) = b[width]
        BY <1>2, <3>2, <3>3, Zenon
      <3> QED
        BY <2>9, <3>4, Zenon
    <2>11. blockMode => GroupsOf(k) * ByteBits = k
      <3> SUFFICES ASSUME blockMode PROVE GroupsOf(k) * ByteBits = k
        OBVIOUS
      <3>1. blockMode = TRUE
        BY <1>1
      <3>2. GroupsOf(LastCode(TRUE, v) - CodesBefore(TRUE, v)) * ByteBits
                = LastCode(TRUE, v) - CodesBefore(TRUE, v)
        <4> HIDE DEF v
        <4> QED
          BY <2>1, BlocksHaveWholeGroups
      <3>3. k = LastCode(TRUE, v) - CodesBefore(TRUE, v)
        BY <3>1
      <3> HIDE DEF k
      <3> QED
        BY <3>2, <3>3
    <2> DEFINE g == GroupsOf(k) * ByteBits
    <2>12. g \in Nat /\ k \in Nat /\ k <= g /\ (blockMode => g = k) /\ b[width] = b[v] + g * v
      <3> HIDE DEF b, k, v
      <3> QED
        BY <1>3, <2>4, <2>5, <2>11
    <2> HIDE DEF b, c, d, g, k, v
    <2>13. k * v \in Nat /\ g * v \in Nat /\ k * v <= g * v
      <3>1. (g - k) * v \in Nat /\ g - k \in Nat
        BY <2>1, <2>12
      <3>2. g * v = k * v + (g - k) * v /\ k * v \in Nat
        BY <2>1, <2>12, <3>1
      <3> QED
        BY <3>1, <3>2
    <2>14. PICK run \in Nat : run = RunBits(count, FALSE) /\ run <= b[width]
                              /\ (blockMode => run = b[width])
      <3> DEFINE x == k * v
                 y == g * v
                 z == b[v]
      <3>1. /\ x \in Nat /\ y \in Nat /\ x <= y /\ z \in Nat /\ b[width] = z + y
            /\ RunBits(count, FALSE) = z + x /\ (blockMode => x = y)
        BY <2>5, <2>6, <2>12, <2>13
      <3> HIDE DEF x, y, z
      <3>2. z + x \in Nat /\ z + x <= z + y
        BY <3>1
      <3> QED
        BY <3>1, <3>2, Zenon
    <2>15. /\ start + run \in Nat /\ start + run <= bitpos
           /\ blockMode => start + run = bitpos
      <3> DEFINE y == b[width]
      <3>1. y \in Nat /\ bitpos = start + y /\ start \in Nat /\ run <= y /\ (blockMode => run = y)
        BY <1>1, <1>2, <2>9, <2>14
      <3> HIDE DEF y
      <3> QED
        BY <3>1
    <2>16. bitpos \in Nat
      BY <1>1
    <2> QED
      BY <2>8, <2>10, <2>14, <2>15, <2>16, Zenon
  <1> QED
    BY <1>5, <1>6

\* A width has codes: none of them fill none.
LEMMA NoneFillNoWidth ==
  ASSUME blockMode \in BOOLEAN, maxbits \in Nat
  PROVE  ~FillsWidth(0)
  <1> SUFFICES ASSUME NEW v \in InitBits..maxbits - 1, 0 = UpTo(v)
               PROVE  FALSE
    BY DEF FillsWidth
  <1>1. InitBits \in Nat /\ CLEAR \in Nat /\ CLEAR > 1 /\ 2^InitBits = 2 * CLEAR
    BY Widths
  <1>2. v \in Nat /\ v >= InitBits
    BY <1>1
  <1>3. 2^v \in Nat /\ 2^v >= 2 * CLEAR
    <2>1. 2^v \in Nat
      BY <1>2, Powers
    <2>2. CASE v = InitBits
      BY <1>1, <2>1, <2>2
    <2>3. CASE v # InitBits
      <3>1. 2^InitBits < 2^v
        BY <1>1, <1>2, <2>3, PowersGrow
      <3> QED
        BY <1>1, <2>1, <3>1
    <2> QED
      BY <2>2, <2>3
  <1>4. FirstFree \in Nat /\ FirstFree <= CLEAR + 1
    BY <1>1 DEF FirstFree
  <1> QED
    BY <1>1, <1>3, <1>4 DEF UpTo

\* The verdict looks at what the end of the codes leaves over.
LEMMA ScanInvFinish ==
  ASSUME ScanInv, FinishScan
  PROVE  ScanInv'
  <1>1. stage = "codes"
    BY DEF FinishScan
  <1>2. /\ Archive /\ Placed /\ sound = TRUE /\ total \in Nat /\ total > 0 /\ bitpos \in Nat
        /\ ByteBits \in Nat /\ CompressTypeOK
    BY <1>1, WhileReading, Widths DEF ScanInv
  <1>3. PICK zeros, inCode \in BOOLEAN :
            /\ stage' = (IF total < bitpos \/ total - bitpos > ByteBits - 1 \/ ~zeros
                         THEN "refused" ELSE "accepted")
            /\ UNCHANGED <<header, blockMode, maxbits, total, bitpos, width, boundary, free>>
            /\ sound' = (sound /\ zeros)
            /\ UNCHANGED <<count, start>> /\ cut' = inCode
    BY DEF FinishScan, Verdict, archiveVars
  <1>4. sound' = zeros
    BY <1>2, <1>3
  <1>5. CompressTypeOK' /\ Archive' /\ total' = total /\ bitpos' = bitpos /\ header' = "complete"
    BY <1>2, <1>3, <1>4 DEF CompressTypeOK, Archive
  <1>6. Placed'
    <2>1. BitsBefore(blockMode)' = BitsBefore(blockMode)
      BY <1>3
    <2> QED
      BY <1>2, <1>3, <2>1 DEF Placed, CodesBefore, LastCode
  <1>7. (total - bitpos > ByteBits - 1 <=> total - bitpos >= ByteBits)
        /\ (~(total < bitpos) /\ ~(total - bitpos > ByteBits - 1)
            => bitpos <= total /\ total - bitpos < ByteBits)
        /\ (total < bitpos <=> bitpos > total) /\ total # 0
    BY <1>2
  <1>8. CASE total < bitpos \/ total - bitpos > ByteBits - 1 \/ ~zeros
    <2>1. stage' = "refused"
      BY <1>3, <1>8
    <2> QED
      BY <1>4, <1>5, <1>6, <1>7, <1>8, <2>1 DEF ScanInv
  <1>9. CASE ~(total < bitpos \/ total - bitpos > ByteBits - 1 \/ ~zeros)
    <2>1. stage' = "accepted"
      BY <1>3, <1>9
    <2> QED
      BY <1>4, <1>5, <1>6, <1>7, <1>9, <2>1 DEF ScanInv
  <1> QED
    BY <1>8, <1>9

LEMMA ScanInvStep == ScanInv /\ [CompressNext]_scanVars => ScanInv'
  <1> SUFFICES ASSUME ScanInv, [CompressNext]_scanVars PROVE ScanInv'
    OBVIOUS
  <1>1. CASE UNCHANGED scanVars
    <2>1. UNCHANGED archiveVars
      BY <1>1 DEF scanVars, archiveVars
    <2>2. BitsBefore(blockMode)' = BitsBefore(blockMode)
      BY <2>1, ArchiveStays
    <2>3. (Placed' <=> Placed) /\ (Entries(count)' = Entries(count))
          /\ (AtStart' <=> AtStart) /\ (Archive' <=> Archive) /\ (CompressTypeOK' <=> CompressTypeOK)
      BY <1>1, <2>2 DEF scanVars, Placed, CodesBefore, LastCode, Entries, FirstFree, AtStart,
                        Archive, CompressTypeOK
    <2> QED
      BY <1>1, <2>3 DEF scanVars, ScanInv
  <1> QED
    BY <1>1, ScanInvHeader, ScanInvFirst, ScanInvCode, ScanInvClear, ScanInvFinish
       DEF CompressNext

\* Between two codes the scanner is where the reference is.
THEOREM ScanInvariant == CompressSpec => []ScanInv
  BY ScanInvInit, ScanInvStep, PTL DEF CompressSpec

THEOREM ScanTypeCorrect == CompressSpec => []CompressTypeOK
  BY ScanInvariant, PTL DEF ScanInv

\* Whichever widths, resets and group boundaries came before its end, an archive is
\* accepted exactly if it is complete, unless it ends unpadded at a change of width
\* without block mode: then it is refused.
THEOREM ArchivesAreJudged == CompressSpec => []ScanJudgesArchives
  <1>1. ScanInv => ScanJudgesArchives
    <2> SUFFICES ASSUME ScanInv, stage \in {"accepted", "refused"}
                 PROVE  stage = "accepted" <=> Complete /\ ~Unpadded
      BY DEF ScanJudgesArchives
    <2> DEFINE unpadded == start + RunBits(count, FALSE)
               padded == start + RunBits(count, TRUE)
    <2>1. /\ CompressTypeOK /\ total \in Nat /\ count \in Nat /\ ByteBits \in Nat
          /\ blockMode \in BOOLEAN
      BY Widths DEF ScanInv, CompressTypeOK
    <2>2. Archive /\ Placed => /\ unpadded \in Nat /\ unpadded <= bitpos /\ bitpos \in Nat
                               /\ ~FillsWidth(count) => unpadded = bitpos
                               /\ FillsWidth(count) => padded = bitpos
                               /\ blockMode => unpadded = bitpos
                               /\ count > 0
      BY <2>1, EndOfRun DEF Placed
    <2>3. Complete <=> \/ header = "empty"
                       \/ /\ Archive
                          /\ \/ total = 0
                             \/ /\ sound /\ count > 0
                                /\ \/ unpadded <= total /\ total - unpadded < ByteBits
                                   \/ /\ FillsWidth(count)
                                      /\ padded <= total /\ total - padded < ByteBits
      BY DEF Complete, Archive, Ends
    <2>4. Unpadded <=> ~blockMode /\ FillsWidth(count) /\ total < padded
      BY DEF Unpadded
    <2>5. count = 0 => ~FillsWidth(count)
      <3>1. maxbits \in Nat
        BY <2>1 DEF CompressTypeOK
      <3> QED
        BY <2>1, <3>1, NoneFillNoWidth, Zenon
    <2> HIDE DEF unpadded, padded
    <2>6. CASE stage = "accepted"
      <3>1. CASE AtStart /\ (header = "empty" \/ (Archive /\ total = 0))
        BY <2>3, <2>4, <2>5, <2>6, <3>1 DEF AtStart
      <3>2. CASE Archive /\ sound /\ Placed /\ bitpos <= total /\ total - bitpos < ByteBits
        BY <2>1, <2>2, <2>3, <2>4, <2>6, <3>2
      <3> QED
        BY <2>6, <3>1, <3>2 DEF ScanInv
    <2>7. CASE stage = "refused"
      <3> SUFFICES ASSUME Complete, ~Unpadded PROVE FALSE
        BY <2>7
      <3>1. header # "empty"
        BY <2>7 DEF ScanInv
      <3>2. Archive
        BY <2>3, <3>1
      <3>3. total # 0 /\ (~sound \/ count = 0 \/ (Placed /\ (bitpos > total \/ total - bitpos >= ByteBits)))
        BY <2>7, <3>2 DEF ScanInv
      <3>4. /\ sound /\ count > 0
            /\ \/ unpadded <= total /\ total - unpadded < ByteBits
               \/ FillsWidth(count) /\ padded <= total /\ total - padded < ByteBits
        BY <2>3, <3>1, <3>3
      <3>5. Placed /\ (bitpos > total \/ total - bitpos >= ByteBits)
        BY <2>1, <3>3, <3>4
      <3>6. ~(unpadded = bitpos)
        <4> SUFFICES ASSUME unpadded = bitpos PROVE FALSE
          OBVIOUS
        <4>1. FillsWidth(count) => padded = bitpos
          BY <2>2, <3>2, <3>5
        <4>2. bitpos <= total /\ total - bitpos < ByteBits
          BY <3>4, <4>1
        <4>3. bitpos \in Nat
          BY <2>2, <3>2, <3>5
        <4> QED
          BY <2>1, <3>5, <4>2, <4>3
      <3>7. FillsWidth(count) /\ padded = bitpos /\ ~blockMode
        BY <2>2, <3>2, <3>5, <3>6
      <3>8. padded <= total
        BY <2>4, <2>1, <2>2, <3>2, <3>5, <3>7
      <3> QED
        BY <2>1, <2>2, <3>2, <3>4, <3>5, <3>7, <3>8
    <2> QED
      BY <2>6, <2>7
  <1> QED
    BY <1>1, ScanInvariant, PTL

-----------------------------------------------------------------------------
\* Sections.  A section is well formed; the edits keep it so.
Block == [records : Seq(Record), comments : Seq(Comment)]

\* The two lists of a section, and what they are made of.
LEMMA BlockParts ==
  ASSUME NEW b \in Block
  PROVE  /\ b.records \in Seq(Record) /\ b.comments \in Seq(Comment)
         /\ Len(b.records) \in Nat /\ DOMAIN b.records = 1..Len(b.records)
         /\ Len(b.comments) \in Nat /\ DOMAIN b.comments = 1..Len(b.comments)
         /\ \A k \in 1..Len(b.records) : b.records[k] \in Record
         /\ \A i \in 1..Len(b.comments) : b.comments[i] \in Comment
  BY DEF Block

\* Shifting keeps the comments and their texts, and moves what is behind the index.
LEMMA Shifted ==
  ASSUME NEW comments \in Seq(Comment), NEW index \in Nat, NEW by \in {1, -1},
         by = 1 => \A k \in DOMAIN comments : comments[k].before < MaxBefore
  PROVE  /\ Shift(comments, index, by) \in Seq(Comment)
         /\ DOMAIN Shift(comments, index, by) = DOMAIN comments
         /\ Len(Shift(comments, index, by)) = Len(comments)
         /\ \A k \in DOMAIN comments :
               /\ Shift(comments, index, by)[k].text = comments[k].text
               /\ Shift(comments, index, by)[k].before =
                    IF comments[k].before > index THEN comments[k].before + by
                    ELSE comments[k].before
  <1> DEFINE s == Shift(comments, index, by)
             n == Len(comments)
  <1>1. n \in Nat /\ DOMAIN comments = 1..n /\ \A k \in 1..n : comments[k] \in Comment
    OBVIOUS
  <1>2. MaxBefore \in Nat
    BY EditingAssumption
  <1>3. s = [k \in 1..n |-> [comments[k] EXCEPT !.before = IF @ > index THEN @ + by ELSE @]]
    BY <1>1 DEF Shift
  <1>4. ASSUME NEW k \in 1..n
        PROVE  /\ s[k] \in Comment /\ s[k].text = comments[k].text
               /\ s[k].before = IF comments[k].before > index THEN comments[k].before + by
                                ELSE comments[k].before
    <2>1. /\ comments[k] \in [text : Text, before : 0..MaxBefore]
          /\ comments[k].before \in 0..MaxBefore
      BY <1>1 DEF Comment
    <2> DEFINE v == IF comments[k].before > index THEN comments[k].before + by
                    ELSE comments[k].before
    <2>2. v \in 0..MaxBefore
      <3>1. CASE by = 1
        <4>1. comments[k].before < MaxBefore
          BY <1>1, <3>1
        <4> QED
          BY <1>2, <2>1, <3>1, <4>1
      <3>2. CASE by = -1
        BY <1>2, <2>1, <3>2
      <3> QED
        BY <3>1, <3>2
    <2>3. s[k] = [comments[k] EXCEPT !.before = v]
      BY <1>3
    <2> HIDE DEF v, s
    <2>4. s[k] \in [text : Text, before : 0..MaxBefore] /\ s[k].text = comments[k].text
          /\ s[k].before = v
      BY <2>1, <2>2, <2>3
    <2> QED
      BY <2>4 DEF Comment, v
  <1>5. DOMAIN s = 1..n
    BY <1>3
  <1>6. s \in [1..n -> Comment]
    <2>1. s = [k \in 1..n |-> s[k]]
      BY <1>3
    <2> HIDE DEF s
    <2> QED
      BY <1>4, <2>1
  <1> HIDE DEF s
  <1>7. s \in Seq(Comment) /\ Len(s) = n
    BY <1>1, <1>6
  <1> QED
    BY <1>1, <1>4, <1>5, <1>7 DEF s

\* An element put in or taken out.
LEMMA Joined ==
  ASSUME NEW T, NEW a \in Seq(T), NEW b \in Seq(T)
  PROVE  a \o b \in Seq(T) /\ Len(a \o b) = Len(a) + Len(b)
  OBVIOUS

\* The front of two joined sequences.
LEMMA JoinedLeft ==
  ASSUME NEW T, NEW a \in Seq(T), NEW b \in Seq(T), NEW k \in 1..Len(a)
  PROVE  (a \o b)[k] = a[k]
  OBVIOUS

\* The back of two joined sequences.
LEMMA JoinedRight ==
  ASSUME NEW T, NEW a \in Seq(T), NEW b \in Seq(T), NEW k \in 1..Len(b)
  PROVE  (a \o b)[Len(a) + k] = b[k]
  OBVIOUS

\* InsertAt: the elements before the place stay, those behind it move up.
LEMMA Inserted ==
  ASSUME NEW T, NEW s \in Seq(T), NEW i \in 1..Len(s) + 1, NEW e \in T
  PROVE  /\ InsertAt(s, i, e) \in Seq(T) /\ Len(InsertAt(s, i, e)) = Len(s) + 1
         /\ InsertAt(s, i, e)[i] = e
         /\ \A k \in 1..Len(s) : /\ k < i => InsertAt(s, i, e)[k] = s[k]
                                 /\ k >= i => InsertAt(s, i, e)[k + 1] = s[k]
  <1> DEFINE l == SubSeq(s, 1, i - 1)
             r == SubSeq(s, i, Len(s))
  <1>1. /\ l \in Seq(T) /\ Len(l) = i - 1 /\ \A k \in 1..i - 1 : l[k] = s[k]
        /\ r \in Seq(T) /\ Len(r) = Len(s) - i + 1
        /\ \A k \in 1..Len(s) - i + 1 : r[k] = s[i + k - 1]
    OBVIOUS
  <1>2. InsertAt(s, i, e) = l \o <<e>> \o r
    BY DEF InsertAt
  <1> HIDE DEF l, r
  <1>3. /\ l \o <<e>> \in Seq(T) /\ Len(l \o <<e>>) = i
        /\ (l \o <<e>>)[i] = e /\ \A k \in 1..i - 1 : (l \o <<e>>)[k] = s[k]
    <2>1. <<e>> \in Seq(T) /\ Len(<<e>>) = 1 /\ <<e>>[1] = e /\ 1 \in 1..1
      OBVIOUS
    <2>2. /\ l \o <<e>> \in Seq(T) /\ Len(l \o <<e>>) = Len(l) + 1
          /\ \A k \in 1..Len(l) : (l \o <<e>>)[k] = l[k]
          /\ (l \o <<e>>)[Len(l) + 1] = e
      <3>1. l \in Seq(T) /\ <<e>> \in Seq(T)
        BY <1>1, <2>1
      <3> DEFINE q == <<e>>
      <3>2. Len(q) = 1 /\ q[1] = e
        OBVIOUS
      <3> HIDE DEF q
      <3>3. /\ l \o q \in Seq(T) /\ Len(l \o q) = Len(l) + Len(q)
            /\ \A k \in 1..Len(l) : (l \o q)[k] = l[k]
            /\ \A k \in 1..Len(q) : (l \o q)[Len(l) + k] = q[k]
        BY <3>1, Joined, JoinedLeft, JoinedRight DEF q
      <3>4. (l \o q)[Len(l) + 1] = e
        BY <3>2, <3>3
      <3> QED
        BY <3>2, <3>3, <3>4 DEF q
    <2> QED
      BY <1>1, <2>2
  <1> DEFINE m == l \o <<e>>
  <1> HIDE DEF m
  <1>4. /\ m \o r \in Seq(T) /\ Len(m \o r) = Len(s) + 1
        /\ \A k \in 1..i : (m \o r)[k] = m[k]
        /\ \A k \in i + 1..Len(s) + 1 : (m \o r)[k] = r[k - i]
    <2>1. /\ m \o r \in Seq(T) /\ Len(m \o r) = Len(m) + Len(r)
          /\ \A k \in 1..Len(m) : (m \o r)[k] = m[k]
          /\ \A k \in 1..Len(r) : (m \o r)[Len(m) + k] = r[k]
      <3>1. m \in Seq(T) /\ r \in Seq(T)
        BY <1>1, <1>3 DEF m
      <3> QED
        BY <3>1, Joined, JoinedLeft, JoinedRight
    <2>2. Len(m) = i /\ i \in Nat /\ Len(s) \in Nat
      BY <1>3 DEF m
    <2>3. ASSUME NEW k \in i + 1..Len(s) + 1 PROVE (m \o r)[k] = r[k - i]
      <3>1. k - i \in 1..Len(r) /\ i + (k - i) = k
        BY <1>1, <2>2
      <3> QED
        BY <2>1, <2>2, <3>1
    <2> QED
      BY <1>1, <2>1, <2>2, <2>3
  <1>5. \A k \in 1..Len(s) : /\ k < i => (m \o r)[k] = s[k]
                            /\ k >= i => (m \o r)[k + 1] = s[k]
    <2> TAKE k \in 1..Len(s)
    <2>1. CASE k < i
      BY <1>3, <1>4, <2>1 DEF m
    <2>2. CASE ~(k < i)
      <3>1. k + 1 \in i + 1..Len(s) + 1 /\ (k + 1) - i \in 1..Len(s) - i + 1
            /\ i + ((k + 1) - i) - 1 = k
        BY <2>2
      <3> QED
        BY <1>1, <1>4, <2>2, <3>1
    <2> QED
      BY <2>1, <2>2
  <1> QED
    BY <1>2, <1>3, <1>4, <1>5 DEF m

\* RemoveAt: the elements before the place stay, those behind it move down.
LEMMA Removed ==
  ASSUME NEW T, NEW s \in Seq(T), NEW i \in 1..Len(s)
  PROVE  /\ RemoveAt(s, i) \in Seq(T) /\ Len(RemoveAt(s, i)) = Len(s) - 1
         /\ \A k \in 1..Len(s) - 1 : /\ k < i => RemoveAt(s, i)[k] = s[k]
                                     /\ k >= i => RemoveAt(s, i)[k] = s[k + 1]
  <1> DEFINE l == SubSeq(s, 1, i - 1)
             r == SubSeq(s, i + 1, Len(s))
  <1>1. /\ l \in Seq(T) /\ Len(l) = i - 1 /\ \A k \in 1..i - 1 : l[k] = s[k]
        /\ r \in Seq(T) /\ Len(r) = Len(s) - i
        /\ \A k \in 1..Len(s) - i : r[k] = s[i + k]
    OBVIOUS
  <1>2. RemoveAt(s, i) = l \o r
    BY DEF RemoveAt
  <1> HIDE DEF l, r
  <1> HIDE DEF l, r
  <1>3. /\ l \o r \in Seq(T) /\ Len(l \o r) = Len(s) - 1
        /\ \A k \in 1..i - 1 : (l \o r)[k] = l[k]
        /\ \A k \in i..Len(s) - 1 : (l \o r)[k] = r[k - i + 1]
    <2>1. /\ l \o r \in Seq(T) /\ Len(l \o r) = Len(l) + Len(r)
          /\ \A k \in 1..Len(l) : (l \o r)[k] = l[k]
          /\ \A k \in 1..Len(r) : (l \o r)[Len(l) + k] = r[k]
      <3>1. l \in Seq(T) /\ r \in Seq(T)
        BY <1>1
      <3> QED
        BY <3>1, Joined, JoinedLeft, JoinedRight
    <2>2. ASSUME NEW k \in i..Len(s) - 1 PROVE (l \o r)[k] = r[k - i + 1]
      <3>1. k - i + 1 \in 1..Len(r) /\ Len(l) + (k - i + 1) = k
        BY <1>1
      <3> QED
        BY <2>1, <3>1
    <2>3. l \o r \in Seq(T) /\ \A k \in 1..i - 1 : (l \o r)[k] = l[k]
      BY <1>1, <2>1
    <2>4. Len(l \o r) = Len(s) - 1
      <3>1. Len(l) = i - 1 /\ Len(r) = Len(s) - i /\ Len(s) \in Nat /\ i \in Nat
        BY <1>1
      <3>2. Len(l \o r) = Len(l) + Len(r)
        BY <2>1
      <3> QED
        BY <3>1, <3>2
    <2> QED
      BY <2>2, <2>3, <2>4
  <1> DEFINE m == l \o r
  <1>4. /\ \A k \in 1..i - 1 : m[k] = l[k]
        /\ \A k \in i..Len(s) - 1 : m[k] = r[k - i + 1]
    BY <1>3
  <1>5. RemoveAt(s, i) = m /\ m \in Seq(T) /\ Len(m) = Len(s) - 1
    BY <1>2, <1>3
  <1> HIDE DEF m
  <1>6. \A k \in 1..Len(s) - 1 : (k < i => m[k] = s[k]) /\ (k >= i => m[k] = s[k + 1])
    <2> TAKE k \in 1..Len(s) - 1
    <2>1. CASE k < i
      BY <1>1, <1>4, <2>1
    <2>2. CASE ~(k < i)
      <3>1. k \in i..Len(s) - 1 /\ k - i + 1 \in 1..Len(s) - i /\ i + (k - i + 1) = k + 1
        BY <2>2
      <3> QED
        BY <1>1, <1>4, <2>2, <3>1
    <2> QED
      BY <2>1, <2>2
  <1> QED
    BY <1>5, <1>6

\* A record put in: the others keep their order, the comments behind it move along.
LEMMA InsertedRecord ==
  ASSUME NEW b \in Block, NEW index \in 0..Len(b.records), NEW r \in Record,
         \A i \in DOMAIN b.comments : b.comments[i].before < MaxBefore
  PROVE  /\ WithRecord(b, index, r) \in Block
         /\ WithRecord(b, index, r).comments = Shift(b.comments, index, 1)
         /\ Len(WithRecord(b, index, r).records) = Len(b.records) + 1
         /\ WithRecord(b, index, r).records[index + 1] = r
         /\ \A k \in 1..Len(b.records) :
               /\ k <= index => WithRecord(b, index, r).records[k] = b.records[k]
               /\ k > index => WithRecord(b, index, r).records[k + 1] = b.records[k]
  <1>1. /\ b.records \in Seq(Record) /\ b.comments \in Seq(Comment)
        /\ index + 1 \in 1..Len(b.records) + 1 /\ index \in Nat
    BY BlockParts
  <1> DEFINE i == index + 1
             rs == InsertAt(b.records, i, r)
             cs == Shift(b.comments, index, 1)
  <1>2. /\ rs \in Seq(Record) /\ Len(rs) = Len(b.records) + 1 /\ rs[i] = r
        /\ \A k \in 1..Len(b.records) : /\ k < i => rs[k] = b.records[k]
                                        /\ k >= i => rs[k + 1] = b.records[k]
    <2>1. i \in 1..Len(b.records) + 1 /\ b.records \in Seq(Record)
      BY <1>1
    <2> HIDE DEF i
    <2>2. /\ InsertAt(b.records, i, r) \in Seq(Record)
          /\ Len(InsertAt(b.records, i, r)) = Len(b.records) + 1
          /\ InsertAt(b.records, i, r)[i] = r
      BY <2>1, Inserted
    <2>3. \A k \in 1..Len(b.records) :
             /\ k < i => InsertAt(b.records, i, r)[k] = b.records[k]
             /\ k >= i => InsertAt(b.records, i, r)[k + 1] = b.records[k]
      BY <2>1, Inserted
    <2> QED
      BY <2>2, <2>3
  <1>3. cs \in Seq(Comment)
    BY <1>1, Shifted
  <1>4. WithRecord(b, index, r) = [records |-> rs, comments |-> cs]
    BY DEF WithRecord
  <1> HIDE DEF rs, cs
  <1>5. WithRecord(b, index, r).records = rs /\ WithRecord(b, index, r).comments = cs
    BY <1>4
  <1>6. WithRecord(b, index, r) \in Block
    BY <1>2, <1>3, <1>4 DEF Block
  <1> QED
    BY <1>2, <1>5, <1>6 DEF cs

\* A record taken out: the others keep their order, the comments behind it move along.
LEMMA RemovedRecord ==
  ASSUME NEW b \in Block, NEW index \in 0..Len(b.records) - 1
  PROVE  /\ WithoutRecord(b, index) \in Block
         /\ WithoutRecord(b, index).comments = Shift(b.comments, index, -1)
         /\ Len(WithoutRecord(b, index).records) = Len(b.records) - 1
         /\ \A k \in 1..Len(b.records) - 1 :
               /\ k <= index => WithoutRecord(b, index).records[k] = b.records[k]
               /\ k > index => WithoutRecord(b, index).records[k] = b.records[k + 1]
  <1>1. /\ b.records \in Seq(Record) /\ b.comments \in Seq(Comment)
        /\ index + 1 \in 1..Len(b.records) /\ index \in Nat
    BY BlockParts
  <1> DEFINE i == index + 1
             rs == RemoveAt(b.records, i)
             cs == Shift(b.comments, index, -1)
  <1>2. /\ rs \in Seq(Record) /\ Len(rs) = Len(b.records) - 1
        /\ \A k \in 1..Len(b.records) - 1 : /\ k < i => rs[k] = b.records[k]
                                            /\ k >= i => rs[k] = b.records[k + 1]
    <2> HIDE DEF i
    <2> QED
      BY <1>1, Removed DEF i
  <1>3. cs \in Seq(Comment)
    <2>1. -1 \in {1, -1} /\ ~(-1 = 1)
      OBVIOUS
    <2> QED
      BY <1>1, <2>1, Shifted
  <1>4. WithoutRecord(b, index) = [records |-> rs, comments |-> cs]
    BY DEF WithoutRecord
  <1> HIDE DEF rs, cs
  <1>5. WithoutRecord(b, index).records = rs /\ WithoutRecord(b, index).comments = cs
    BY <1>4
  <1>6. WithoutRecord(b, index) \in Block
    BY <1>2, <1>3, <1>4 DEF Block
  <1> QED
    BY <1>2, <1>5, <1>6 DEF cs

\* Removing every record of a key removes one record after the other.
LEMMA RemovedOneByOne ==
  ASSUME NEW b \in Block, NEW key
  PROVE  \E left \in [0..Len(b.records) -> Block] :
            /\ left[0] = b
            /\ \A k \in 1..Len(b.records) :
                  \/ left[k] = left[k - 1]
                  \/ /\ Len(b.records) - k \in 0..Len(left[k - 1].records) - 1
                     /\ left[k] = WithoutRecord(left[k - 1], Len(b.records) - k)
            /\ WithoutScalar(b, key) = left[Len(b.records)]
  <1> DEFINE n == Len(b.records)
             Matches(k) == b.records[n - k + 1].key = key
             Law(f) == f = [k \in 0..n |->
                IF k = 0 THEN b
                ELSE IF Matches(k) THEN WithoutRecord(f[k - 1], n - k) ELSE f[k - 1]]
             Fits(k, x) == n - k \in 0..Len(x.records) - 1
             next == [p \in (0..n) \X Block |->
                IF Matches(p[1]) /\ Fits(p[1], p[2]) THEN WithoutRecord(p[2], n - p[1]) ELSE p[2]]
  <1>1. n \in Nat
    BY BlockParts
  <1>2. next \in [(0..n) \X Block -> Block]
    <2>1. \A k \in 0..n, x \in Block :
             (IF Matches(k) /\ Fits(k, x) THEN WithoutRecord(x, n - k) ELSE x) \in Block
      BY RemovedRecord
    <2> HIDE DEF Matches, Fits, n
    <2> QED
      BY <2>1
  <1>3. PICK f : Recursive(f, 0, n, Block, b, next)
    <2>1. 0 \in Int /\ n \in Int
      BY <1>1
    <2> HIDE DEF next, n
    <2> QED
      BY <1>2, <2>1, Recursion
  <1>4. /\ f \in [0..n -> Block] /\ f[0] = b
        /\ \A k \in 1..n : k - 1 \in 0..n /\ f[k - 1] \in Block
        /\ \A k \in 1..n :
              f[k] = IF Matches(k) /\ Fits(k, f[k - 1]) THEN WithoutRecord(f[k - 1], n - k)
                     ELSE f[k - 1]
    <2>1. /\ f \in [0..n -> Block]
          /\ \A k \in 0..n : f[k] = IF k = 0 THEN b ELSE next[<<k, f[k - 1]>>]
      <3> HIDE DEF next, n
      <3> QED
        BY <1>3 DEF Recursive
    <2>2. f[0] = b
      <3>1. 0 \in 0..n
        BY <1>1
      <3> HIDE DEF next, n
      <3> QED
        BY <2>1, <3>1
    <2>3. ASSUME NEW k \in 1..n PROVE k - 1 \in 0..n /\ f[k - 1] \in Block /\ k \in 0..n /\ k # 0
      <3>1. k - 1 \in 0..n /\ k \in 0..n /\ k # 0
        BY <1>1
      <3> HIDE DEF n
      <3> QED
        BY <2>1, <3>1
    <2>4. ASSUME NEW k \in 1..n
          PROVE  f[k] = IF Matches(k) /\ Fits(k, f[k - 1]) THEN WithoutRecord(f[k - 1], n - k)
                        ELSE f[k - 1]
      <3>1. f[k] = next[<<k, f[k - 1]>>]
        <4> HIDE DEF next, n
        <4> QED
          BY <2>1, <2>3
      <3> HIDE DEF Matches, Fits, n
      <3> QED
        BY <2>3, <3>1
    <2> HIDE DEF n, Matches, Fits
    <2> QED
      BY <2>1, <2>2, <2>3, <2>4
  <1> HIDE DEF n, Matches
  <1>5. \A k \in 0..n : Len(f[k].records) \in Nat /\ Len(f[k].records) >= n - k
    <2> DEFINE S == {k \in 0..n : Len(f[k].records) \in Nat /\ Len(f[k].records) >= n - k}
    <2>1. 0 \in S
      <3>1. Len(f[0].records) = n
        BY <1>4 DEF n
      <3> QED
        BY <1>1, <3>1
    <2>2. \A k \in 0..n - 1 : k \in S => k + 1 \in S
      <3> SUFFICES ASSUME NEW k \in 0..n - 1, k \in S PROVE k + 1 \in S
        OBVIOUS
      <3>1. k + 1 \in 1..n /\ k + 1 \in 0..n /\ (k + 1) - 1 = k /\ n - k \in Nat /\ n - k > 0
        BY <1>1
      <3>2. f[k] \in Block /\ Len(f[k].records) \in Nat /\ Len(f[k].records) >= n - k
        BY <1>4, <3>1
      <3>3. f[k + 1] = f[k] \/ (Fits(k + 1, f[k]) /\ f[k + 1] = WithoutRecord(f[k], n - (k + 1)))
        BY <1>4, <3>1
      <3>4. CASE f[k + 1] = f[k]
        BY <1>1, <3>1, <3>2, <3>4
      <3>5. CASE Fits(k + 1, f[k]) /\ f[k + 1] = WithoutRecord(f[k], n - (k + 1))
        <4>1. Len(f[k + 1].records) = Len(f[k].records) - 1
          BY <3>2, <3>5, RemovedRecord
        <4>2. Len(f[k].records) - 1 \in Nat /\ Len(f[k].records) - 1 >= n - (k + 1)
          BY <1>1, <3>1, <3>2
        <4>3. Len(f[k + 1].records) \in Nat /\ Len(f[k + 1].records) >= n - (k + 1)
          BY <4>1, <4>2
        <4> QED
          BY <3>1, <4>3
      <3> QED
        BY <3>3, <3>4, <3>5
    <2> HIDE DEF S
    <2>3. 0..n \subseteq S
      BY <1>1, <2>1, <2>2, InductFrom
    <2> QED
      BY <2>3 DEF S
  <1>6. \A k \in 1..n : Fits(k, f[k - 1])
    <2> TAKE k \in 1..n
    <2>1. k - 1 \in 0..n /\ k \in Nat
      BY <1>1
    <2>2. Len(f[k - 1].records) \in Nat /\ Len(f[k - 1].records) >= n - (k - 1)
      BY <1>5, <2>1
    <2> QED
      BY <1>1, <2>1, <2>2
  <1>7. Law(f)
    <2>1. \A k \in 0..n :
             f[k] = IF k = 0 THEN b
                    ELSE IF Matches(k) THEN WithoutRecord(f[k - 1], n - k) ELSE f[k - 1]
      <3> TAKE k \in 0..n
      <3>1. k # 0 => k \in 1..n
        BY <1>1
      <3> HIDE DEF Fits
      <3> QED
        BY <1>4, <1>6, <3>1
    <2> QED
      BY <1>4, <2>1
  <1> DEFINE left == CHOOSE g : Law(g)
  <1>8. WithoutScalar(b, key) = left[n]
    BY DEF WithoutScalar, Matches, n
  <1>9. Law(left)
    <2> HIDE DEF Law
    <2> QED
      BY <1>7
  <1>10. \A k \in 0..n :
            left[k] = IF k = 0 THEN b
                      ELSE IF Matches(k) THEN WithoutRecord(left[k - 1], n - k) ELSE left[k - 1]
    <2>1. \A g : Law(g) => \A k \in 0..n :
             g[k] = IF k = 0 THEN b
                    ELSE IF Matches(k) THEN WithoutRecord(g[k - 1], n - k) ELSE g[k - 1]
      OBVIOUS
    <2> HIDE DEF Law, left
    <2> QED
      BY <1>9, <2>1
  <1> HIDE DEF left
  <1>11. \A k \in 0..n : left[k] = f[k]
    <2> DEFINE S == {k \in 0..n : left[k] = f[k]}
    <2>1. 0 \in S
      BY <1>1, <1>4, <1>10
    <2>2. \A k \in 0..n - 1 : k \in S => k + 1 \in S
      <3> SUFFICES ASSUME NEW k \in 0..n - 1, left[k] = f[k] PROVE k + 1 \in 0..n /\ left[k + 1] = f[k + 1]
        OBVIOUS
      <3>1. k + 1 \in 1..n /\ k + 1 \in 0..n /\ (k + 1) - 1 = k /\ k + 1 # 0
        BY <1>1
      <3>2. left[k + 1] = IF Matches(k + 1) THEN WithoutRecord(f[k], n - (k + 1)) ELSE f[k]
        BY <1>10, <3>1
      <3>3. f[k + 1] = IF Matches(k + 1) THEN WithoutRecord(f[k], n - (k + 1)) ELSE f[k]
        <4>1. Fits(k + 1, f[k])
          BY <1>6, <3>1
        <4> HIDE DEF Fits
        <4> QED
          BY <1>4, <3>1, <4>1
      <3> QED
        BY <3>1, <3>2, <3>3
    <2> HIDE DEF S
    <2>3. 0..n \subseteq S
      BY <1>1, <2>1, <2>2, InductFrom
    <2> QED
      BY <2>3 DEF S
  <1>12. WithoutScalar(b, key) = f[n]
    <2>1. n \in 0..n
      BY <1>1
    <2> QED
      BY <1>8, <1>11, <2>1
  <1>13. ASSUME NEW k \in 1..n
         PROVE  \/ f[k] = f[k - 1]
                \/ n - k \in 0..Len(f[k - 1].records) - 1 /\ f[k] = WithoutRecord(f[k - 1], n - k)
    BY <1>4, <1>6
  <1> QED
    BY <1>4, <1>12, <1>13 DEF n

\* A comment put in: the comments are listed in the order of their positions, and
\* of two with the same position the one listed before stays before.
LEMMA AddedComment ==
  ASSUME NEW b \in Block, NEW c \in Comment
  PROVE  /\ WithComment(b, c) \in Block
         /\ WithComment(b, c).records = b.records
         /\ \E at \in [1..Len(b.comments) + 1 -> 1..Len(b.comments) + 1] :
               LET m == Len(b.comments) + 1
                   pushed == Append(b.comments, c)
               IN  /\ WithComment(b, c).comments = [k \in 1..m |-> pushed[at[k]]]
                   /\ \A j, k \in 1..m : j < k =>
                         \/ pushed[at[j]].before < pushed[at[k]].before
                         \/ pushed[at[j]].before = pushed[at[k]].before /\ at[j] < at[k]
                   /\ \A i \in 1..m : \E k \in 1..m : at[k] = i
  <1> DEFINE m == Len(b.comments) + 1
             pushed == Append(b.comments, c)
             place == [i \in 1..m |-> <<pushed[i].before, i>>]
             P == {<<pushed[i].before, i>> : i \in 1..m}
             list == Listed[P]
             at == [k \in 1..m |-> list[k][2]]
  <1>1. b.comments \in Seq(Comment) /\ b.records \in Seq(Record) /\ m \in Nat
    BY BlockParts
  <1>2. /\ pushed \in Seq(Comment) /\ DOMAIN pushed = 1..m
        /\ \A i \in 1..m : pushed[i] \in Comment
    BY <1>1
  <1> HIDE DEF m, pushed
  <1>3. \A i \in 1..m : pushed[i].before \in Nat /\ i \in Nat
    BY <1>1, <1>2, EditingAssumption DEF Comment
  <1>4. P \in SUBSET Place
    BY <1>3 DEF Place
  <1>5. place \in Bijection(1..m, P)
    <2>1. place \in [1..m -> P] /\ \A p \in P : \E i \in 1..m : place[i] = p
      OBVIOUS
    <2>2. \A i, j \in 1..m : place[i] = place[j] => i = j
      OBVIOUS
    <2> HIDE DEF place, P
    <2> QED
      BY <2>1, <2>2 DEF Bijection, Injection, Surjection, IsInjective
  <1>6. IsFiniteSet(P) /\ Cardinality(P) = m
    <2>1. IsFiniteSet(1..m) /\ Cardinality(1..m) = m
      BY <1>1, FS_Interval
    <2> HIDE DEF place, P
    <2> QED
      BY <1>5, <2>1, FS_Bijection DEF ExistsBijection
  <1>7. /\ list \in [1..m -> P]
        /\ \A j, k \in 1..m : j < k => Precedes(list[j], list[k])
        /\ \A p \in P : \E k \in 1..m : list[k] = p
    BY <1>4, <1>6, ListedInOrder
  <1>8. \A k \in 1..m : /\ list[k][2] \in 1..m
                        /\ list[k][1] = pushed[list[k][2]].before
    <2> TAKE k \in 1..m
    <2>1. list[k] \in P
      BY <1>7
    <2>2. \A p \in P : p[2] \in 1..m /\ p[1] = pushed[p[2]].before
      OBVIOUS
    <2> HIDE DEF list, P
    <2> QED
      BY <2>1, <2>2
  <1>9. at \in [1..m -> 1..m] /\ \A k \in 1..m : at[k] = list[k][2]
    BY <1>8
  <1>10. \A j, k \in 1..m : j < k =>
            \/ pushed[at[j]].before < pushed[at[k]].before
            \/ pushed[at[j]].before = pushed[at[k]].before /\ at[j] < at[k]
    <2> SUFFICES ASSUME NEW j \in 1..m, NEW k \in 1..m, j < k
                 PROVE  \/ pushed[at[j]].before < pushed[at[k]].before
                        \/ pushed[at[j]].before = pushed[at[k]].before /\ at[j] < at[k]
      OBVIOUS
    <2>1. Precedes(list[j], list[k])
      BY <1>7
    <2>2. list[j][1] < list[k][1] \/ (list[j][1] = list[k][1] /\ list[j][2] < list[k][2])
      BY <2>1 DEF Precedes
    <2> HIDE DEF list, at
    <2> QED
      BY <1>8, <1>9, <2>2
  <1>11. \A i \in 1..m : \E k \in 1..m : at[k] = i
    <2> TAKE i \in 1..m
    <2>1. <<pushed[i].before, i>> \in P /\ <<pushed[i].before, i>>[2] = i
      OBVIOUS
    <2> HIDE DEF list, at, P
    <2>2. PICK k \in 1..m : list[k] = <<pushed[i].before, i>>
      BY <1>7, <2>1
    <2>3. at[k] = i
      BY <1>9, <2>1, <2>2
    <2> QED
      BY <2>3
  <1>12. WithComment(b, c) = [b EXCEPT !.comments = [k \in 1..m |-> pushed[at[k]]]]
    <2>1. WithComment(b, c) =
             [b EXCEPT !.comments = [k \in DOMAIN list |-> pushed[list[k][2]]]]
      BY <1>2 DEF WithComment, pushed
    <2>2. DOMAIN list = 1..m
      BY <1>7
    <2>3. [k \in 1..m |-> pushed[list[k][2]]] = [k \in 1..m |-> pushed[at[k]]]
      BY <1>9
    <2> HIDE DEF list, at
    <2> QED
      BY <2>1, <2>2, <2>3
  <1>13. [k \in 1..m |-> pushed[at[k]]] \in Seq(Comment)
    <2> HIDE DEF at
    <2>1. [k \in 1..m |-> pushed[at[k]]] \in [1..m -> Comment]
      BY <1>2, <1>9
    <2> QED
      BY <1>1, <2>1
  <1> HIDE DEF at
  <1>14. /\ WithComment(b, c) \in Block /\ WithComment(b, c).records = b.records
         /\ WithComment(b, c).comments = [k \in 1..m |-> pushed[at[k]]]
    BY <1>12, <1>13 DEF Block
  <1> QED
    BY <1>9, <1>10, <1>11, <1>14 DEF m, pushed

\* A value written: the keys stay, and a key no record has is appended.
LEMMA WrittenScalar ==
  ASSUME NEW b \in Block, NEW key \in Key, NEW value \in Value
  PROVE  /\ WithScalar(b, key, value) \in Block
         /\ WithScalar(b, key, value).comments = b.comments
         /\ (\E i \in DOMAIN b.records : b.records[i].key = key) =>
               /\ Len(WithScalar(b, key, value).records) = Len(b.records)
               /\ \A i \in 1..Len(b.records) :
                     WithScalar(b, key, value).records[i].key = b.records[i].key
         /\ ~(\E i \in DOMAIN b.records : b.records[i].key = key) =>
               WithScalar(b, key, value).records
                   = Append(b.records, [key |-> key, value |-> value])
  <1> DEFINE n == Len(b.records)
             Found == \E i \in DOMAIN b.records : b.records[i].key = key
             w == [i \in 1..n |-> IF b.records[i].key = key
                                  THEN [key |-> b.records[i].key, value |-> value]
                                  ELSE b.records[i]]
             a == Append(b.records, [key |-> key, value |-> value])
  <1>1. /\ b.records \in Seq(Record) /\ DOMAIN b.records = 1..n /\ n \in Nat
        /\ \A i \in 1..n : b.records[i] \in Record
    BY BlockParts
  <1>2. WithScalar(b, key, value) = [b EXCEPT !.records = IF Found THEN w ELSE a]
    BY <1>1 DEF WithScalar
  <1>3. w \in [1..n -> Record] /\ \A i \in 1..n : w[i].key = b.records[i].key
    <2>1. ASSUME NEW i \in 1..n PROVE w[i] \in Record /\ w[i].key = b.records[i].key
      <3>1. b.records[i] \in [key : Key, value : Value]
        BY <1>1 DEF Record
      <3>2. w[i] \in [key : Key, value : Value] /\ w[i].key = b.records[i].key
        BY <3>1
      <3> QED
        BY <3>2 DEF Record
    <2>2. w = [i \in 1..n |-> w[i]]
      OBVIOUS
    <2> HIDE DEF w
    <2> QED
      BY <2>1, <2>2
  <1>4. a \in Seq(Record)
    <2>1. [key |-> key, value |-> value] \in Record
      BY DEF Record
    <2> QED
      BY <1>1, <2>1
  <1> HIDE DEF w, a, Found
  <1>5. w \in Seq(Record) /\ Len(w) = n
    BY <1>1, <1>3
  <1>6. /\ WithScalar(b, key, value) \in Block /\ WithScalar(b, key, value).comments = b.comments
        /\ WithScalar(b, key, value).records = IF Found THEN w ELSE a
    BY <1>2, <1>4, <1>5 DEF Block
  <1> QED
    BY <1>3, <1>5, <1>6 DEF a, Found

\* Taking out every record of a key leaves a section.
LEMMA WithoutScalarType ==
  ASSUME NEW b \in Block, NEW key
  PROVE  WithoutScalar(b, key) \in Block
  <1>1. Len(b.records) \in 0..Len(b.records)
    BY BlockParts
  <1> QED
    BY <1>1, RemovedOneByOne

\* What a caller passes is well formed, and Room leaves room for every shift.
LEMMA CallersLists ==
  /\ \A rs \in RecordList : rs \in Seq(Record)
  /\ \A cs \in CommentList : cs \in Seq(Comment)
  BY EditingAssumption

\* A new section is well formed.
LEMMA EditTypeInit == EditInit => EditTypeOK
  BY CallersLists DEF EditInit, EditTypeOK

\* A candidate takes the place of the object or does not.
LEMMA EditTypeAtomic ==
  ASSUME EditTypeOK, NEW name \in {"insert", "remove", "write", "comment", "records",
                                   "comments", "both"},
         NEW candidates \in SUBSET Block, EditAtomic(name, candidates)
  PROVE  EditTypeOK'
  BY DEF EditAtomic, Edited, Refused, EditTypeOK, Block

\* An edit that ends in a section.
LEMMA EditTypeEdited ==
  ASSUME EditTypeOK, NEW name \in {"insert", "remove", "write", "comment", "records",
                                   "comments", "both"},
         NEW b \in Block, Edited(name, b)
  PROVE  EditTypeOK'
  BY DEF Edited, EditTypeOK, Block

\* A refused edit.
LEMMA EditTypeRefused == EditTypeOK /\ Refused => EditTypeOK'
  BY DEF EditTypeOK, Refused

\* The blocks the methods make of a well formed one.
LEMMA Candidates ==
  ASSUME EditTypeOK
  PROVE  /\ block \in Block
         /\ \A cs \in CommentList : [block EXCEPT !.comments = cs] \in Block
         /\ \A rs \in RecordList : [block EXCEPT !.records = rs] \in Block
         /\ \A r \in Record : [block EXCEPT !.records = Append(@, r)] \in Block
         /\ \A index \in 0..Len(block.records), r \in Record :
                Room => WithRecord(block, index, r) \in Block
         /\ \A index \in 0..Len(block.records) - 1 : WithoutRecord(block, index) \in Block
         /\ \A key \in Key, value \in Value : WithScalar(block, key, value) \in Block
         /\ \A key : WithoutScalar(block, key) \in Block
         /\ \A c \in Comment : WithComment(block, c) \in Block
  <1>1. block \in Block
    BY DEF EditTypeOK, Block
  <1>2. /\ \A cs \in CommentList : [block EXCEPT !.comments = cs] \in Block
        /\ \A rs \in RecordList : [block EXCEPT !.records = rs] \in Block
    BY <1>1, CallersLists DEF Block
  <1>3. ASSUME NEW r \in Record PROVE [block EXCEPT !.records = Append(@, r)] \in Block
    <2>1. Append(block.records, r) \in Seq(Record)
      BY <1>1, BlockParts
    <2> QED
      BY <1>1, <2>1 DEF Block
  <1>4. ASSUME NEW index \in 0..Len(block.records), NEW r \in Record, Room
        PROVE  WithRecord(block, index, r) \in Block
    BY <1>1, <1>4, InsertedRecord DEF Room
  <1>5. \A index \in 0..Len(block.records) - 1 : WithoutRecord(block, index) \in Block
    BY <1>1, RemovedRecord
  <1>6. \A key \in Key, value \in Value : WithScalar(block, key, value) \in Block
    BY <1>1, WrittenScalar
  <1>7. \A key : WithoutScalar(block, key) \in Block
    BY <1>1, WithoutScalarType
  <1>8. \A c \in Comment : WithComment(block, c) \in Block
    BY <1>1, AddedComment
  <1> QED
    BY <1>1, <1>2, <1>3, <1>4, <1>5, <1>6, <1>7, <1>8

\* An index that is not refused is one of the list.
LEMMA Indices ==
  ASSUME EditTypeOK, NEW index \in 0..MaxRecords + 1
  PROVE  /\ ~(index > Len(block.records)) => index \in 0..Len(block.records)
         /\ ~(index >= Len(block.records)) => index \in 0..Len(block.records) - 1
         /\ Len(block.records) \in 0..Len(block.records)
  <1>1. Len(block.records) \in Nat /\ MaxRecords \in Nat
    BY Candidates, BlockParts, EditingAssumption
  <1> QED
    BY <1>1

\* Every step keeps a section well formed.
LEMMA EditTypeStep == EditTypeOK /\ [EditNext]_editVars => EditTypeOK'
  <1> SUFFICES ASSUME EditTypeOK, [EditNext]_editVars PROVE EditTypeOK'
    OBVIOUS
  <1>1. CASE UNCHANGED editVars
    BY <1>1 DEF editVars, EditTypeOK
  <1>2. CASE DataEdit
    <2>1. CASE DataSetComments
      BY <2>1, Candidates, EditTypeEdited DEF DataSetComments
    <2>2. CASE DataSetRecords
      BY <2>2, Candidates, EditTypeEdited DEF DataSetRecords
    <2>3. CASE AddRecord
      BY <2>3, Candidates, EditTypeEdited DEF AddRecord
    <2>4. ASSUME NEW index \in 0..MaxRecords + 1, InsertRecord(index) PROVE EditTypeOK'
      <3>1. CASE Refused
        BY <3>1, EditTypeRefused
      <3>2. CASE ~(index > Len(block.records)) /\ Room
                 /\ \E r \in Record : Edited("insert", WithRecord(block, index, r))
        <4>1. PICK r \in Record : Edited("insert", WithRecord(block, index, r))
          BY <3>2
        <4>2. WithRecord(block, index, r) \in Block
          BY <3>2, Candidates, Indices
        <4> QED
          BY <4>1, <4>2, EditTypeEdited
      <3> QED
        BY <2>4, <3>1, <3>2 DEF InsertRecord
    <2>5. ASSUME NEW index \in 0..MaxRecords + 1, RemoveRecord(index) PROVE EditTypeOK'
      <3>1. CASE Refused
        BY <3>1, EditTypeRefused
      <3>2. CASE ~(index >= Len(block.records)) /\ Edited("remove", WithoutRecord(block, index))
        <4>1. WithoutRecord(block, index) \in Block
          BY <3>2, Candidates, Indices
        <4> QED
          BY <3>2, <4>1, EditTypeEdited
      <3> QED
        BY <2>5, <3>1, <3>2 DEF RemoveRecord
    <2> QED
      BY <1>2, <2>1, <2>2, <2>3, <2>4, <2>5 DEF DataEdit
  <1>3. CASE MetadataEdit
    <2>1. CASE ReplaceRaw
      <3>1. [records : RecordList, comments : CommentList] \subseteq Block
        BY CallersLists DEF Block
      <3>2. ReplacedRecords \subseteq Block
        BY Candidates DEF ReplacedRecords
      <3> QED
        BY <2>1, <3>1, <3>2, EditTypeAtomic DEF ReplaceRaw
    <2>2. CASE SetFields
      <3>1. ReplacedRecords \subseteq Block
        BY Candidates DEF ReplacedRecords
      <3> QED
        BY <2>2, <3>1, EditTypeAtomic DEF SetFields
    <2>3. CASE SetComments
      <3>1. {[block EXCEPT !.comments = cs] : cs \in CommentList} \subseteq Block
        BY Candidates
      <3> QED
        BY <2>3, <3>1, EditTypeAtomic DEF SetComments
    <2>4. ASSUME NEW index \in 0..Len(block.records), Room,
                 EditAtomic("insert", {WithRecord(block, index, r) : r \in Record})
          PROVE  EditTypeOK'
      <3>1. {WithRecord(block, index, r) : r \in Record} \subseteq Block
        BY <2>4, Candidates
      <3> QED
        BY <2>4, <3>1, EditTypeAtomic
    <2>5. CASE AppendField
      <3>1. CASE Refused
        BY <3>1, EditTypeRefused
      <3>2. Len(block.records) \in 0..Len(block.records)
        BY Candidates, BlockParts
      <3> QED
        BY <2>4, <2>5, <3>1, <3>2 DEF AppendField, InsertField
    <2>6. ASSUME NEW key \in Key, SetScalar(key) PROVE EditTypeOK'
      <3>1. {WithScalar(block, key, value) : value \in Value} \subseteq Block
        BY Candidates
      <3>2. {WithoutScalar(block, key)} \subseteq Block
        BY Candidates
      <3>3. CASE EditAtomic("write", {WithScalar(block, key, value) : value \in Value})
        BY <3>1, <3>3, EditTypeAtomic
      <3>4. CASE EditAtomic("insert", {WithScalar(block, key, value) : value \in Value})
        BY <3>1, <3>4, EditTypeAtomic
      <3>5. CASE EditAtomic("remove", {WithoutScalar(block, key)})
        BY <3>2, <3>5, EditTypeAtomic
      <3> QED
        BY <2>6, <3>3, <3>4, <3>5 DEF SetScalar
    <2>7. ASSUME NEW key \in Key, RemoveField(key) PROVE EditTypeOK'
      <3>1. {WithoutScalar(block, key)} \subseteq Block
        BY Candidates
      <3> QED
        BY <2>7, <3>1, EditTypeAtomic DEF RemoveField
    <2>8. ASSUME NEW index \in 0..MaxRecords + 1, InsertField(index) PROVE EditTypeOK'
      <3>1. CASE Refused
        BY <3>1, EditTypeRefused
      <3>2. ~(index > Len(block.records)) => index \in 0..Len(block.records)
        BY Indices
      <3> QED
        BY <2>4, <2>8, <3>1, <3>2 DEF InsertField
    <2>9. ASSUME NEW index \in 0..MaxRecords + 1, RemoveFieldAt(index) PROVE EditTypeOK'
      <3>1. CASE Refused
        BY <3>1, EditTypeRefused
      <3>2. CASE ~(index >= Len(block.records))
                 /\ EditAtomic("remove", {WithoutRecord(block, index)})
        <4>1. {WithoutRecord(block, index)} \subseteq Block
          BY <3>2, Candidates, Indices
        <4> QED
          BY <3>2, <4>1, EditTypeAtomic
      <3> QED
        BY <2>9, <3>1, <3>2 DEF RemoveFieldAt
    <2>10. ASSUME NEW text \in Text, NEW before \in 0..MaxBefore, AddComment(text, before)
           PROVE  EditTypeOK'
      <3>1. [text |-> text, before |-> before] \in Comment
        BY DEF Comment
      <3>2. {WithComment(block, [text |-> text, before |-> before])} \subseteq Block
        BY <3>1, Candidates
      <3> QED
        BY <2>10, <3>2, EditTypeAtomic DEF AddComment
    <2> QED
      BY <1>3, <2>1, <2>2, <2>3, <2>5, <2>6, <2>7, <2>8, <2>9, <2>10 DEF MetadataEdit
  <1> QED
    BY <1>1, <1>2, <1>3 DEF EditNext

\* No sequence of edits makes a list that is none: an index beyond the records is
\* refused, and a comment's index stays a number.
THEOREM EditTypeCorrect == EditSpec => []EditTypeOK
  BY EditTypeInit, EditTypeStep, PTL DEF EditSpec

\* The four parts side by side: each moves alone.
THEOREM NativeTypeCorrect == NativeSpec => []NativeTypeOK
  <1> DEFINE Inv == FlightInv /\ EditTypeOK /\ ClockInv /\ ScanInv
  <1>1. NativeInit => Inv
    BY FlightInvInit, EditTypeInit, ClockInvInit, ScanInvInit DEF NativeInit
  <1>2. Inv /\ [NativeNext /\ UNCHANGED part]_<<part, flightVars, editVars, clockVars, scanVars>> => Inv'
    BY FlightInvStep, EditTypeStep, ClockInvStep, ScanInvStep DEF NativeNext
  <1>3. Inv => NativeTypeOK
    BY DEF NativeTypeOK, FlightInv, ClockInv, ScanInv
  <1> HIDE DEF Inv
  <1> QED
    BY <1>1, <1>2, <1>3, PTL DEF NativeSpec

-----------------------------------------------------------------------------
\* Documents.  The lists of a section and the text they stand for.

\* The document's operators are those of the listing.
LEMMA DocumentOperators ==
  /\ \A list, I : Doc!Part(list, I) = Part(list, I)
  /\ \A list, I : Doc!Without(list, I) = Without(list, I)
  /\ \A ls : Doc!Comments(ls) = Part(ls, {i \in DOMAIN ls : ls[i].comment})
  /\ \A ls : Doc!Records(ls) = Part(ls, {i \in DOMAIN ls : ~ls[i].comment})
  <1>1. \A p, q : Doc!Precedes(p, q) <=> Precedes(p, q)
    BY DEF Doc!Precedes, Precedes
  <1>2. Doc!Listed = Listed
    BY DEF Doc!Listed, Listed, Doc!Rank, Rank, Doc!Precedes, Precedes, Doc!Cardinality, Cardinality
  <1>3. \A list, I : Doc!Part(list, I) = Part(list, I)
    BY <1>2 DEF Doc!Part, Part
  <1>4. \A list, I : Doc!Without(list, I) = Without(list, I)
    BY <1>3 DEF Doc!Without, Without
  <1> QED
    BY <1>3, <1>4 DEF Doc!Comments, Doc!Records


\* The listing has no place twice, and its order is that of the numbers.
LEMMA ListedOrder ==
  ASSUME NEW S \in SUBSET Place, IsFiniteSet(S),
         NEW i \in 1..Cardinality(S), NEW j \in 1..Cardinality(S)
  PROVE  /\ Listed[S][i] = Listed[S][j] => i = j
         /\ Precedes(Listed[S][i], Listed[S][j]) => i < j
  <1>1. /\ Listed[S][i] \in S /\ Listed[S][j] \in S
        /\ i < j => Precedes(Listed[S][i], Listed[S][j])
        /\ j < i => Precedes(Listed[S][j], Listed[S][i])
    BY ListedInOrder
  <1> DEFINE p == Listed[S][i]
             q == Listed[S][j]
  <1>2. p \in Place /\ q \in Place
    BY <1>1
  <1> HIDE DEF p, q
  <1>3. ~Precedes(p, p) /\ ~(Precedes(p, q) /\ Precedes(q, p)) /\ ~Precedes(q, q)
    BY <1>2, PlacesOrdered
  <1>4. Cardinality(S) \in Nat
    BY FS_CardinalityType
  <1>5. (i < j => Precedes(p, q)) /\ (j < i => Precedes(q, p))
    BY <1>1 DEF p, q
  <1>6. i < j \/ i = j \/ j < i
    BY <1>4
  <1>7. p = q => i = j
    BY <1>3, <1>5, <1>6
  <1>8. Precedes(p, q) => i < j
    <2>1. i = j => p = q
      BY DEF p, q
    <2> QED
      BY <1>3, <1>5, <1>6, <2>1
  <1> QED
    BY <1>7, <1>8 DEF p, q

\* What a function has at the places of a set, in their order.
Shown(S, g) == [k \in DOMAIN Listed[S] |-> g[Listed[S][k]]]

\* Shown written out over the numbers of the places.
LEMMA ShownIs ==
  ASSUME NEW S \in SUBSET Place, IsFiniteSet(S), NEW g
  PROVE  /\ Cardinality(S) \in Nat
         /\ Shown(S, g) = [k \in 1..Cardinality(S) |-> g[Listed[S][k]]]
         /\ DOMAIN Shown(S, g) = 1..Cardinality(S)
         /\ \A k \in 1..Cardinality(S) : Shown(S, g)[k] = g[Listed[S][k]]
  <1>1. DOMAIN Listed[S] = 1..Cardinality(S)
    BY ListedInOrder
  <1> QED
    BY <1>1, FS_CardinalityType DEF Shown

\* A map of places that keeps their order.
OrderKept(phi, S) == \A p, q \in S : Precedes(p, q) => Precedes(phi[p], phi[q])

\* Places mapped in order onto some places of a larger set: what stands at them is
\* the part of the larger sequence that stands at their images.
LEMMA Embedded ==
  ASSUME NEW S \in SUBSET Place, IsFiniteSet(S), NEW S2 \in SUBSET Place, IsFiniteSet(S2),
         NEW phi \in [S -> S2], OrderKept(phi, S),
         NEW g, NEW g2, \A p \in S : g2[phi[p]] = g[p],
         NEW I, I = {k \in 1..Cardinality(S2) : \E p \in S : Listed[S2][k] = phi[p]}
  PROVE  Part(Shown(S2, g2), I) = Shown(S, g)
  <1> DEFINE n == Cardinality(S)
             n2 == Cardinality(S2)
             at == Listed[S]
             at2 == Listed[S2]
             ix == [j \in 1..n |-> CHOOSE k \in 1..n2 : at2[k] = phi[at[j]]]
  <1>1. n \in Nat /\ n2 \in Nat
    BY FS_CardinalityType
  <1>2. /\ at \in [1..n -> S] /\ \A p \in S : \E k \in 1..n : at[k] = p
        /\ \A i, j \in 1..n : i < j => Precedes(at[i], at[j])
    BY ListedInOrder
  <1>3. at2 \in [1..n2 -> S2] /\ \A p \in S2 : \E k \in 1..n2 : at2[k] = p
    BY ListedInOrder
  <1>4. \A i, j \in 1..n2 : (at2[i] = at2[j] => i = j) /\ (Precedes(at2[i], at2[j]) => i < j)
    BY ListedOrder
  <1>5. Shown(S, g) = [k \in 1..n |-> g[at[k]]]
    BY ShownIs
  <1>6. \A k \in 1..n2 : Shown(S2, g2)[k] = g2[at2[k]]
    BY ShownIs
  <1>7. I = {k \in 1..n2 : \E p \in S : at2[k] = phi[p]}
    OBVIOUS
  <1> HIDE DEF n, n2, at, at2
  <1>8. \A j \in 1..n : ix[j] \in 1..n2 /\ at2[ix[j]] = phi[at[j]] /\ ix[j] \in I
    <2> TAKE j \in 1..n
    <2>1. at[j] \in S /\ phi[at[j]] \in S2
      BY <1>2
    <2>2. \E k \in 1..n2 : at2[k] = phi[at[j]]
      BY <1>3, <2>1
    <2>3. ix[j] \in 1..n2 /\ at2[ix[j]] = phi[at[j]]
      BY <2>2
    <2> HIDE DEF ix
    <2> QED
      BY <1>7, <2>1, <2>3
  <1>9. ix = [j \in 1..n |-> ix[j]]
    OBVIOUS
  <1> HIDE DEF ix
  <1>10. ix \in [1..n -> I]
    BY <1>8, <1>9
  <1>11. \A j, k \in 1..n : j < k => ix[j] < ix[k]
    <2> SUFFICES ASSUME NEW j \in 1..n, NEW k \in 1..n, j < k PROVE ix[j] < ix[k]
      OBVIOUS
    <2>1. Precedes(at[j], at[k]) /\ at[j] \in S /\ at[k] \in S
      BY <1>2
    <2>2. Precedes(phi[at[j]], phi[at[k]])
      BY <2>1 DEF OrderKept
    <2> QED
      BY <1>4, <1>8, <2>2
  <1>12. \A i \in I : \E k \in 1..n : ix[k] = i
    <2> TAKE i \in I
    <2>1. PICK p \in S : at2[i] = phi[p] /\ i \in 1..n2
      BY <1>7
    <2>2. PICK j \in 1..n : at[j] = p
      BY <1>2
    <2>3. at2[ix[j]] = at2[i]
      BY <1>8, <2>1, <2>2
    <2> QED
      BY <1>4, <1>8, <2>1, <2>3
  <1>13. I \in SUBSET Nat
    BY <1>1, <1>7
  <1>14. Part(Shown(S2, g2), I) = [k \in 1..n |-> Shown(S2, g2)[ix[k]]]
    <2> DEFINE sh == Shown(S2, g2)
    <2> HIDE DEF sh
    <2>1. Part(sh, I) = [k \in 1..n |-> sh[ix[k]]]
      <3>1. n \in Nat /\ ix \in [1..n -> I] /\ I \in SUBSET Nat
        BY <1>1, <1>10, <1>13
      <3> HIDE DEF n, n2
      <3> QED
        BY ONLY <3>1, <1>11, <1>12, PartUnique
    <2> QED
      BY <2>1 DEF sh
  <1>15. \A k \in 1..n : Shown(S2, g2)[ix[k]] = g[at[k]]
    <2> TAKE k \in 1..n
    <2>1. Shown(S2, g2)[ix[k]] = g2[phi[at[k]]]
      BY <1>6, <1>8
    <2>2. at[k] \in S
      BY <1>2
    <2> QED
      BY <2>1, <2>2
  <1> QED
    BY <1>5, <1>14, <1>15

\* A sequence without one of its elements.
LEMMA WithoutOne ==
  ASSUME NEW n \in Nat, NEW list, DOMAIN list = 1..n, NEW i \in 1..n
  PROVE  /\ DOMAIN Without(list, {i}) = 1..n - 1
         /\ \A k \in 1..n - 1 : /\ k < i => Without(list, {i})[k] = list[k]
                                /\ k >= i => Without(list, {i})[k] = list[k + 1]
  <1> DEFINE ix == [k \in 1..n - 1 |-> IF k < i THEN k ELSE k + 1]
             I == 1..n \ {i}
  <1>1. \A k \in 1..n - 1 : /\ ix[k] \in I
                            /\ k < i => ix[k] = k
                            /\ k >= i => ix[k] = k + 1
    OBVIOUS
  <1>2. ix \in [1..n - 1 -> I] /\ I \in SUBSET Nat /\ n - 1 \in Nat
    OBVIOUS
  <1>3. \A j, k \in 1..n - 1 : j < k => ix[j] < ix[k]
    OBVIOUS
  <1>4. \A j \in I : \E k \in 1..n - 1 : ix[k] = j
    <2> TAKE j \in I
    <2>1. CASE j < i
      <3>1. j \in 1..n - 1 /\ ix[j] = j
        BY <2>1
      <3> QED
        BY <3>1
    <2>2. CASE ~(j < i)
      <3>1. j - 1 \in 1..n - 1 /\ ix[j - 1] = j
        BY <2>2
      <3> QED
        BY <3>1
    <2> QED
      BY <2>1, <2>2
  <1>5. Without(list, {i}) = Part(list, I)
    BY DEF Without
  <1> HIDE DEF ix, I
  <1>6. Part(list, I) = [k \in 1..n - 1 |-> list[ix[k]]]
    BY <1>2, <1>3, <1>4, PartUnique
  <1> QED
    BY <1>1, <1>5, <1>6

\* A larger set of places that has one place more, and at the others what the
\* smaller one has.
OneAdded(S, g, S2, g2, phi, new) ==
  /\ phi \in [S -> S2] /\ OrderKept(phi, S)
  /\ \A p \in S : g2[phi[p]] = g[p] /\ phi[p] # new
  /\ new \in S2
  /\ \A q \in S2 : q = new \/ \E p \in S : q = phi[p]

\* One place more: without it the sequence is what it was.
LEMMA OnePlaceMore ==
  ASSUME NEW S \in SUBSET Place, IsFiniteSet(S), NEW S2 \in SUBSET Place, IsFiniteSet(S2),
         NEW g, NEW g2, NEW phi, NEW new, OneAdded(S, g, S2, g2, phi, new),
         NEW i \in 1..Cardinality(S2), Listed[S2][i] = new
  PROVE  /\ Without(Shown(S2, g2), {i}) = Shown(S, g)
         /\ Cardinality(S2) = Cardinality(S) + 1
  <1> DEFINE n2 == Cardinality(S2)
             I == {k \in 1..n2 : \E p \in S : Listed[S2][k] = phi[p]}
  <1>1. DOMAIN Shown(S2, g2) = 1..n2 /\ n2 \in Nat
    BY ShownIs
  <1>2. I = 1..n2 \ {i}
    <2>1. ASSUME NEW k \in 1..n2, k # i PROVE k \in I
      <3>1. Listed[S2][k] \in S2 /\ Listed[S2][k] # new
        <4>1. Listed[S2] \in [1..Cardinality(S2) -> S2]
          BY ListedInOrder
        <4>2. Listed[S2][k] = Listed[S2][i] => k = i
          BY ListedOrder
        <4> QED
          BY <2>1, <4>1, <4>2
      <3> QED
        BY <3>1 DEF OneAdded
    <2>2. i \notin I
      BY DEF OneAdded
    <2> HIDE DEF n2
    <2> QED
      BY <2>1, <2>2
  <1>3. Part(Shown(S2, g2), I) = Shown(S, g)
    <2> HIDE DEF n2
    <2>1. n2 = Cardinality(S2)
      BY DEF n2
    <2>2. phi \in [S -> S2] /\ OrderKept(phi, S) /\ \A p \in S : g2[phi[p]] = g[p]
      BY DEF OneAdded
    <2> QED
      BY <2>1, <2>2, Embedded
  <1>4. Without(Shown(S2, g2), {i}) = Shown(S, g)
    <2> HIDE DEF n2, I
    <2> QED
      BY <1>1, <1>2, <1>3 DEF Without
  <1>5. DOMAIN Without(Shown(S2, g2), {i}) = 1..n2 - 1
    BY <1>1, WithoutOne
  <1>6. DOMAIN Shown(S, g) = 1..Cardinality(S) /\ Cardinality(S) \in Nat
    BY ShownIs
  <1>7. n2 - 1 = Cardinality(S)
    <2>1. n2 - 1 \in Nat /\ 1..n2 - 1 = 1..Cardinality(S)
      BY <1>1, <1>4, <1>5, <1>6
    <2> HIDE DEF n2
    <2> QED
      BY <1>6, <2>1
  <1> QED
    BY <1>1, <1>4, <1>6, <1>7

\* The slot of a comment: its own index, or the one behind the last record.
LEMMA Slots ==
  ASSUME NEW b \in Block, NEW i \in 1..Len(b.comments)
  PROVE  /\ Slot(b, b.comments[i]) \in 0..Len(b.records)
         /\ b.comments[i].before \in Nat
         /\ b.comments[i].before <= Len(b.records) =>
               Slot(b, b.comments[i]) = b.comments[i].before
         /\ b.comments[i].before > Len(b.records) => Slot(b, b.comments[i]) = Len(b.records)
  <1>1. b.comments[i] \in Comment /\ Len(b.records) \in Nat
    BY BlockParts
  <1>2. b.comments[i].before \in Nat
    <2>1. b.comments[i].before \in 0..MaxBefore
      BY <1>1 DEF Comment
    <2> QED
      BY <2>1, EditingAssumption
  <1> QED
    BY <1>1, <1>2 DEF Slot

\* Where comments and records stand.
LEMMA PlacesApart ==
  /\ \A s, t, i, j \in Nat : Precedes(<<2 * s, i>>, <<2 * t, j>>) <=> s < t \/ (s = t /\ i < j)
  /\ \A s, i, k \in Nat : Precedes(<<2 * s, i>>, <<2 * k - 1, k>>) <=> s < k
  /\ \A s, i, k \in Nat : Precedes(<<2 * k - 1, k>>, <<2 * s, i>>) <=> k <= s
  /\ \A k, l \in Nat : Precedes(<<2 * k - 1, k>>, <<2 * l - 1, l>>) <=> k < l
  /\ \A s, i, k \in Nat : <<2 * s, i>> # <<2 * k - 1, k>>
  <1>1. \A s, t, i, j \in Nat : Precedes(<<2 * s, i>>, <<2 * t, j>>) <=> s < t \/ (s = t /\ i < j)
    BY DEF Precedes
  <1>2. \A s, i, k \in Nat : Precedes(<<2 * s, i>>, <<2 * k - 1, k>>) <=> s < k
    BY DEF Precedes
  <1>3. \A s, i, k \in Nat : Precedes(<<2 * k - 1, k>>, <<2 * s, i>>) <=> k <= s
    BY DEF Precedes
  <1>4. \A k, l \in Nat : Precedes(<<2 * k - 1, k>>, <<2 * l - 1, l>>) <=> k < l
    BY DEF Precedes
  <1>5. \A s, i, k \in Nat : <<2 * s, i>> # <<2 * k - 1, k>>
    <2>1. \A s, k \in Nat : 2 * s # 2 * k - 1
      OBVIOUS
    <2> QED
      BY <2>1
  <1> QED
    BY <1>1, <1>2, <1>3, <1>4, <1>5

\* The places of the lines of a section.
LEMMA PlacesOf ==
  ASSUME NEW b \in Block
  PROVE  /\ Places(b) \in SUBSET Place
         /\ \A i \in 1..Len(b.comments) : CommentPlace(b, i) \in Places(b)
         /\ \A k \in 1..Len(b.records) : RecordPlace(k) \in Places(b)
         /\ \A p \in Places(b) : \/ \E i \in 1..Len(b.comments) : p = CommentPlace(b, i)
                                 \/ \E k \in 1..Len(b.records) : p = RecordPlace(k)
  <1>1. /\ DOMAIN b.records = 1..Len(b.records) /\ DOMAIN b.comments = 1..Len(b.comments)
        /\ Len(b.records) \in Nat /\ Len(b.comments) \in Nat
    BY BlockParts
  <1>2. \A i \in 1..Len(b.comments) : CommentPlace(b, i) \in Place
    <2> TAKE i \in 1..Len(b.comments)
    <2>1. Slot(b, b.comments[i]) \in 0..Len(b.records)
      BY Slots
    <2>2. 2 * Slot(b, b.comments[i]) \in Nat /\ i \in Nat
      BY <1>1, <2>1
    <2> QED
      BY <2>2 DEF CommentPlace, Place
  <1>3. \A k \in 1..Len(b.records) : RecordPlace(k) \in Place
    <2> TAKE k \in 1..Len(b.records)
    <2>1. 2 * k - 1 \in Nat /\ k \in Nat
      BY <1>1
    <2> QED
      BY <2>1 DEF RecordPlace, Place
  <1>4. Places(b) = {CommentPlace(b, i) : i \in 1..Len(b.comments)}
                    \union {RecordPlace(k) : k \in 1..Len(b.records)}
    BY <1>1 DEF Places
  <1> QED
    BY <1>2, <1>3, <1>4

\* A section has finitely many places, so that they can be listed.
LEMMA PlacesFinite ==
  ASSUME NEW b \in Block
  PROVE  IsFiniteSet(Places(b))
  <1>1. /\ DOMAIN b.records = 1..Len(b.records) /\ DOMAIN b.comments = 1..Len(b.comments)
        /\ Len(b.records) \in Nat /\ Len(b.comments) \in Nat
    BY BlockParts
  <1>2. IsFiniteSet(1..Len(b.records)) /\ IsFiniteSet(1..Len(b.comments))
    BY <1>1, FS_Interval
  <1> DEFINE C == {CommentPlace(b, i) : i \in 1..Len(b.comments)}
             R == {RecordPlace(k) : k \in 1..Len(b.records)}
             c == [i \in 1..Len(b.comments) |-> CommentPlace(b, i)]
             r == [k \in 1..Len(b.records) |-> RecordPlace(k)]
  <1>3. c \in Surjection(1..Len(b.comments), C) /\ r \in Surjection(1..Len(b.records), R)
    BY DEF Surjection
  <1>4. IsFiniteSet(C) /\ IsFiniteSet(R)
    BY <1>2, <1>3, FS_Surjection
  <1>5. Places(b) = C \union R
    BY <1>1 DEF Places
  <1> QED
    BY <1>4, <1>5, FS_Union

\* What stands there.
CommentLine(c) == [comment |-> TRUE, text |-> c.text]
RecordLine(r)  == [comment |-> FALSE, key |-> r.key, value |-> r.value]
LineFn(b) == [p \in Places(b) |-> LineAt(b, p)]

\* The lines of a section are what stands at its places, in their order.
LEMMA LinesAtPlaces ==
  ASSUME NEW b \in Block
  PROVE  /\ \A i \in 1..Len(b.comments) :
               LineFn(b)[CommentPlace(b, i)] = CommentLine(b.comments[i])
         /\ \A k \in 1..Len(b.records) :
               LineFn(b)[RecordPlace(k)] = RecordLine(b.records[k])
         /\ LinesOf(b) = Shown(Places(b), LineFn(b))
  <1>1. ASSUME NEW i \in 1..Len(b.comments)
        PROVE  LineFn(b)[CommentPlace(b, i)] = CommentLine(b.comments[i])
    <2>1. CommentPlace(b, i) \in Places(b)
      BY PlacesOf
    <2>2. Slot(b, b.comments[i]) \in Nat
      BY Slots, BlockParts
    <2>3. CommentPlace(b, i)[1] % 2 = 0 /\ CommentPlace(b, i)[2] = i
      <3>1. \A s \in Nat : (2 * s) % 2 = 0
        OBVIOUS
      <3> QED
        BY <2>2, <3>1 DEF CommentPlace
    <2>4. LineAt(b, CommentPlace(b, i)) = CommentLine(b.comments[i])
      BY <2>3 DEF LineAt, CommentLine
    <2> QED
      BY <2>1, <2>4 DEF LineFn
  <1>2. ASSUME NEW k \in 1..Len(b.records)
        PROVE  LineFn(b)[RecordPlace(k)] = RecordLine(b.records[k])
    <2>1. RecordPlace(k) \in Places(b)
      BY PlacesOf
    <2>2. k \in Nat
      BY BlockParts
    <2>3. RecordPlace(k)[1] % 2 # 0 /\ RecordPlace(k)[2] = k
      <3>1. \A s \in Nat : (2 * s - 1) % 2 # 0
        OBVIOUS
      <3> QED
        BY <2>2, <3>1 DEF RecordPlace
    <2>4. LineAt(b, RecordPlace(k)) = RecordLine(b.records[k])
      BY <2>3 DEF LineAt, RecordLine
    <2> QED
      BY <2>1, <2>4 DEF LineFn
  <1>3. LinesOf(b) = Shown(Places(b), LineFn(b))
    <2> DEFINE at == Listed[Places(b)]
    <2>1. Places(b) \in SUBSET Place /\ IsFiniteSet(Places(b))
      BY PlacesOf, PlacesFinite
    <2>2. at \in [1..Cardinality(Places(b)) -> Places(b)]
      BY <2>1, ListedInOrder
    <2>3. LinesOf(b) = [k \in DOMAIN at |-> LineAt(b, at[k])]
      BY DEF LinesOf
    <2>4. Shown(Places(b), LineFn(b)) = [k \in DOMAIN at |-> LineFn(b)[at[k]]]
      BY DEF Shown
    <2> HIDE DEF at
    <2>5. \A k \in DOMAIN at : LineFn(b)[at[k]] = LineAt(b, at[k])
      BY <2>2 DEF LineFn
    <2> QED
      BY <2>3, <2>4, <2>5
  <1> QED
    BY <1>1, <1>2, <1>3

\* Which of the lines stand at comments, and which at records.
LEMMA KindsOfLines ==
  ASSUME NEW b \in Block, NEW k \in 1..Cardinality(Places(b))
  PROVE  /\ LinesOf(b)[k].comment \in BOOLEAN
         /\ LinesOf(b)[k].comment =>
               \E i \in 1..Len(b.comments) : Listed[Places(b)][k] = CommentPlace(b, i)
         /\ ~LinesOf(b)[k].comment =>
               \E i \in 1..Len(b.records) : Listed[Places(b)][k] = RecordPlace(i)
         /\ \A i \in 1..Len(b.comments) :
               Listed[Places(b)][k] = CommentPlace(b, i) => LinesOf(b)[k].comment
         /\ \A i \in 1..Len(b.records) :
               Listed[Places(b)][k] = RecordPlace(i) => ~LinesOf(b)[k].comment
  <1> DEFINE p == Listed[Places(b)][k]
  <1>1. Places(b) \in SUBSET Place /\ IsFiniteSet(Places(b))
    BY PlacesOf, PlacesFinite
  <1>2. p \in Places(b)
    BY <1>1, ListedInOrder
  <1>3. LinesOf(b)[k] = LineFn(b)[p]
    <2>1. LinesOf(b) = Shown(Places(b), LineFn(b))
      BY LinesAtPlaces
    <2>2. Shown(Places(b), LineFn(b))[k] = LineFn(b)[Listed[Places(b)][k]]
      BY <1>1, ShownIs
    <2> QED
      BY <2>1, <2>2
  <1> HIDE DEF p
  <1>4. ASSUME NEW i \in 1..Len(b.comments), p = CommentPlace(b, i)
        PROVE  LinesOf(b)[k].comment = TRUE
    <2>1. LinesOf(b)[k] = CommentLine(b.comments[i])
      BY <1>3, <1>4, LinesAtPlaces
    <2> QED
      BY <2>1 DEF CommentLine
  <1>5. ASSUME NEW i \in 1..Len(b.records), p = RecordPlace(i)
        PROVE  LinesOf(b)[k].comment = FALSE
    <2>1. LinesOf(b)[k] = RecordLine(b.records[i])
      BY <1>3, <1>5, LinesAtPlaces
    <2> QED
      BY <2>1 DEF RecordLine
  <1>6. \/ \E i \in 1..Len(b.comments) : p = CommentPlace(b, i)
        \/ \E i \in 1..Len(b.records) : p = RecordPlace(i)
    BY <1>2, PlacesOf
  <1> QED
    BY <1>4, <1>5, <1>6 DEF p

\* The lines at some of the places are what the document lists of that kind.
LEMMA LinesOfAKind ==
  ASSUME NEW b \in Block, NEW S \in SUBSET Places(b), NEW I \in SUBSET DOMAIN LinesOf(b),
         \A k \in DOMAIN LinesOf(b) : k \in I <=> Listed[Places(b)][k] \in S
  PROVE  /\ IsFiniteSet(S) /\ S \in SUBSET Place
         /\ Part(LinesOf(b), I) = Shown(S, LineFn(b))
  <1> DEFINE P == Places(b)
             phi == [p \in S |-> p]
  <1>1. P \in SUBSET Place /\ IsFiniteSet(P)
    BY PlacesOf, PlacesFinite
  <1>2. S \in SUBSET Place /\ IsFiniteSet(S)
    BY <1>1, FS_Subset
  <1>3. LinesOf(b) = Shown(P, LineFn(b)) /\ DOMAIN LinesOf(b) = 1..Cardinality(P)
    BY <1>1, LinesAtPlaces, ShownIs
  <1>4. phi \in [S -> P] /\ OrderKept(phi, S) /\ \A p \in S : phi[p] = p
    BY DEF OrderKept
  <1> HIDE DEF P, phi
  <1>5. I = {k \in 1..Cardinality(P) : \E p \in S : Listed[P][k] = phi[p]}
    <2>1. \A k \in 1..Cardinality(P) : k \in I <=> Listed[P][k] \in S
      BY <1>3 DEF P
    <2>2. \A k \in 1..Cardinality(P) : Listed[P][k] \in S <=> \E p \in S : Listed[P][k] = phi[p]
      BY <1>4
    <2>3. I \subseteq 1..Cardinality(P)
      BY <1>3
    <2> QED
      BY <2>1, <2>2, <2>3
  <1>6. Part(Shown(P, LineFn(b)), I) = Shown(S, LineFn(b))
    <2> DEFINE g == LineFn(b)
    <2>1. \A p \in S : g[phi[p]] = g[p]
      BY <1>4
    <2> HIDE DEF g
    <2>2. Part(Shown(P, g), I) = Shown(S, g)
      BY <1>1, <1>2, <1>4, <1>5, <2>1, Embedded
    <2> QED
      BY <2>2 DEF g
  <1> QED
    BY <1>2, <1>3, <1>6

\* The record lines are the records in their order.
RecordLines(records) == [k \in 1..Len(records) |-> RecordLine(records[k])]

\* The records of the document are those of the section.
LEMMA RecordsOfLines ==
  ASSUME NEW b \in Block
  PROVE  Doc!Records(LinesOf(b)) = RecordLines(b.records)
  <1> DEFINE n == Len(b.records)
             R == {RecordPlace(k) : k \in 1..n}
             f == [k \in 1..n |-> RecordPlace(k)]
             I == {k \in DOMAIN LinesOf(b) : ~LinesOf(b)[k].comment}
  <1>1. n \in Nat
    BY BlockParts
  <1>2. R \in SUBSET Places(b) /\ Places(b) \in SUBSET Place /\ IsFiniteSet(Places(b))
    BY PlacesOf, PlacesFinite
  <1>3. DOMAIN LinesOf(b) = 1..Cardinality(Places(b))
    BY <1>2, LinesAtPlaces, ShownIs
  <1>4. ASSUME NEW k \in DOMAIN LinesOf(b)
        PROVE  k \in I <=> Listed[Places(b)][k] \in R
    <2>1. /\ ~LinesOf(b)[k].comment =>
               \E i \in 1..Len(b.records) : Listed[Places(b)][k] = RecordPlace(i)
          /\ \A i \in 1..Len(b.records) :
               Listed[Places(b)][k] = RecordPlace(i) => ~LinesOf(b)[k].comment
      BY <1>3, KindsOfLines
    <2> QED
      BY <2>1
  <1>5. I \in SUBSET DOMAIN LinesOf(b)
    OBVIOUS
  <1> HIDE DEF I, n
  <1>6. IsFiniteSet(R) /\ R \in SUBSET Place /\ Part(LinesOf(b), I) = Shown(R, LineFn(b))
    <2> HIDE DEF R
    <2> QED
      BY <1>2, <1>4, <1>5, LinesOfAKind
  <1>7. f \in [1..n -> R] /\ \A p \in R : \E k \in 1..n : f[k] = p
    OBVIOUS
  <1>8. \A i, j \in 1..n : i < j => Precedes(f[i], f[j])
    <2> SUFFICES ASSUME NEW i \in 1..n, NEW j \in 1..n, i < j PROVE Precedes(f[i], f[j])
      OBVIOUS
    <2>1. i \in Nat /\ j \in Nat
      BY <1>1
    <2> QED
      BY <2>1, PlacesApart DEF RecordPlace
  <1>9. \A k \in 1..n : f[k] = RecordPlace(k)
    OBVIOUS
  <1> HIDE DEF R, f
  <1>10. f = Listed[R]
    BY <1>1, <1>6, <1>7, <1>8, ListedUnique
  <1>11. Shown(R, LineFn(b)) = [k \in 1..n |-> LineFn(b)[f[k]]]
    <2>1. DOMAIN f = 1..n
      BY <1>7
    <2> QED
      BY <1>10, <2>1 DEF Shown
  <1>12. \A k \in 1..n : LineFn(b)[f[k]] = RecordLine(b.records[k])
    BY <1>9, LinesAtPlaces DEF n
  <1>13. Doc!Records(LinesOf(b)) = Part(LinesOf(b), I)
    BY DocumentOperators DEF I
  <1> QED
    BY <1>6, <1>11, <1>12, <1>13 DEF RecordLines, n

\* Comments listed in the order of their positions stand in the order of the list.
LEMMA CommentPlacesInOrder ==
  ASSUME NEW b \in Block, InOrder(b.comments),
         NEW i \in 1..Len(b.comments), NEW j \in 1..Len(b.comments), i < j
  PROVE  Precedes(CommentPlace(b, i), CommentPlace(b, j))
  <1> DEFINE s == Slot(b, b.comments[i])
             t == Slot(b, b.comments[j])
  <1>1. b.comments[i].before <= b.comments[j].before
    BY BlockParts DEF InOrder
  <1>2. Len(b.comments) \in Nat /\ Len(b.records) \in Nat
    BY BlockParts
  <1>3. s \in Nat /\ t \in Nat /\ s <= t /\ i \in Nat /\ j \in Nat
    <2>1. /\ s \in 0..Len(b.records) /\ b.comments[i].before \in Nat
          /\ b.comments[i].before <= Len(b.records) => s = b.comments[i].before
          /\ b.comments[i].before > Len(b.records) => s = Len(b.records)
      BY Slots
    <2>2. /\ t \in 0..Len(b.records) /\ b.comments[j].before \in Nat
          /\ b.comments[j].before <= Len(b.records) => t = b.comments[j].before
          /\ b.comments[j].before > Len(b.records) => t = Len(b.records)
      BY Slots
    <2> HIDE DEF s, t
    <2> QED
      BY <1>1, <1>2, <2>1, <2>2
  <1>4. s < t \/ (s = t /\ i < j)
    <2> HIDE DEF s, t
    <2> QED
      BY <1>3
  <1> QED
    BY <1>3, <1>4, PlacesApart DEF CommentPlace

\* Places in order tell the order of the comments.
LEMMA CommentPlacesTell ==
  ASSUME NEW b \in Block, InOrder(b.comments),
         NEW i \in 1..Len(b.comments), NEW j \in 1..Len(b.comments),
         Precedes(CommentPlace(b, i), CommentPlace(b, j))
  PROVE  i < j
  <1>1. CommentPlace(b, i) \in Place /\ CommentPlace(b, j) \in Place /\ Len(b.comments) \in Nat
    BY PlacesOf, BlockParts
  <1>2. ~(j < i)
    <2>1. j < i => Precedes(CommentPlace(b, j), CommentPlace(b, i))
      BY CommentPlacesInOrder
    <2> QED
      BY <1>1, <2>1, PlacesOrdered
  <1>3. i # j
    BY <1>1, PlacesOrdered
  <1> QED
    BY <1>1, <1>2, <1>3

\* The comment lines are the comments, in their order if they are listed in order.
CommentLines(comments) == [i \in 1..Len(comments) |-> CommentLine(comments[i])]

\* The comments of the document are those of the section: as a sequence when they are
\* listed in the order of their positions, as a set in any case.
LEMMA CommentsOfLines ==
  ASSUME NEW b \in Block
  PROVE  /\ InOrder(b.comments) => Doc!Comments(LinesOf(b)) = CommentLines(b.comments)
         /\ Doc!ToSet(Doc!Comments(LinesOf(b)))
               = {CommentLine(b.comments[i]) : i \in 1..Len(b.comments)}
  <1> DEFINE m == Len(b.comments)
             C == {CommentPlace(b, i) : i \in 1..m}
             I == {k \in DOMAIN LinesOf(b) : LinesOf(b)[k].comment}
             at == Listed[C]
  <1>1. m \in Nat
    BY BlockParts
  <1>2. C \in SUBSET Places(b) /\ Places(b) \in SUBSET Place /\ IsFiniteSet(Places(b))
    BY PlacesOf, PlacesFinite
  <1>3. DOMAIN LinesOf(b) = 1..Cardinality(Places(b))
    BY <1>2, LinesAtPlaces, ShownIs
  <1>4. ASSUME NEW k \in DOMAIN LinesOf(b)
        PROVE  k \in I <=> Listed[Places(b)][k] \in C
    <2>1. /\ LinesOf(b)[k].comment =>
               \E i \in 1..Len(b.comments) : Listed[Places(b)][k] = CommentPlace(b, i)
          /\ \A i \in 1..Len(b.comments) :
               Listed[Places(b)][k] = CommentPlace(b, i) => LinesOf(b)[k].comment
      BY <1>3, KindsOfLines
    <2> QED
      BY <2>1
  <1>5. I \in SUBSET DOMAIN LinesOf(b)
    OBVIOUS
  <1> HIDE DEF I, m
  <1>6. IsFiniteSet(C) /\ C \in SUBSET Place /\ Part(LinesOf(b), I) = Shown(C, LineFn(b))
    <2> HIDE DEF C
    <2> QED
      BY <1>2, <1>4, <1>5, LinesOfAKind
  <1>7. Doc!Comments(LinesOf(b)) = Shown(C, LineFn(b))
    BY <1>6, DocumentOperators DEF I
  <1>8. \A i \in 1..m : LineFn(b)[CommentPlace(b, i)] = CommentLine(b.comments[i])
    BY LinesAtPlaces DEF m
  <1>9. ASSUME InOrder(b.comments)
        PROVE  Doc!Comments(LinesOf(b)) = CommentLines(b.comments)
    <2> DEFINE f == [i \in 1..m |-> CommentPlace(b, i)]
    <2>1. f \in [1..m -> C] /\ \A p \in C : \E i \in 1..m : f[i] = p
      OBVIOUS
    <2>2. \A i, j \in 1..m : i < j => Precedes(f[i], f[j])
      <3> SUFFICES ASSUME NEW i \in 1..m, NEW j \in 1..m, i < j
                   PROVE  Precedes(CommentPlace(b, i), CommentPlace(b, j))
        OBVIOUS
      <3> QED
        BY <1>9, CommentPlacesInOrder DEF m
    <2>3. \A i \in 1..m : f[i] = CommentPlace(b, i)
      OBVIOUS
    <2> HIDE DEF C, f
    <2>4. f = at
      BY <1>1, <1>6, <2>1, <2>2, ListedUnique
    <2>5. Shown(C, LineFn(b)) = [i \in 1..m |-> LineFn(b)[f[i]]]
      <3>1. DOMAIN f = 1..m
        BY <2>1
      <3> QED
        BY <2>4, <3>1 DEF Shown
    <2> QED
      BY <1>7, <1>8, <2>3, <2>5 DEF CommentLines, m
  <1>10. Doc!ToSet(Doc!Comments(LinesOf(b))) = {CommentLine(b.comments[i]) : i \in 1..m}
    <2> DEFINE g == LineFn(b)
               c == Cardinality(C)
               list == Shown(C, g)
    <2>1. /\ DOMAIN list = 1..c /\ \A k \in 1..c : list[k] = g[at[k]]
      BY <1>6, ShownIs
    <2>2. at \in [1..c -> C] /\ \A p \in C : \E k \in 1..c : at[k] = p
      BY <1>6, ListedInOrder
    <2>3. Doc!ToSet(list) = {list[k] : k \in 1..c}
      BY <2>1 DEF Doc!ToSet
    <2>4. \A i \in 1..m : g[CommentPlace(b, i)] = CommentLine(b.comments[i])
      BY <1>8
    <2>5. \A p \in C : \E i \in 1..m : p = CommentPlace(b, i)
      OBVIOUS
    <2>6. \A i \in 1..m : CommentPlace(b, i) \in C
      OBVIOUS
    <2> HIDE DEF g, c, list, C, at
    <2>7. ASSUME NEW k \in 1..c PROVE \E i \in 1..m : list[k] = CommentLine(b.comments[i])
      <3>1. at[k] \in C /\ list[k] = g[at[k]]
        BY <2>1, <2>2
      <3>2. PICK i \in 1..m : at[k] = CommentPlace(b, i)
        BY <2>5, <3>1
      <3> QED
        BY <2>4, <3>1, <3>2
    <2>8. ASSUME NEW i \in 1..m PROVE \E k \in 1..c : list[k] = CommentLine(b.comments[i])
      <3>1. PICK k \in 1..c : at[k] = CommentPlace(b, i)
        BY <2>2, <2>6
      <3> QED
        BY <2>1, <2>4, <3>1
    <2>9. Doc!ToSet(list) = {CommentLine(b.comments[i]) : i \in 1..m}
      BY <2>3, <2>7, <2>8
    <2> QED
      BY <1>7, <2>9 DEF list, g
  <1> QED
    BY <1>9, <1>10 DEF m

\* Which kind of line a place is for, and the number of it.
LEMMA PlaceKinds ==
  ASSUME NEW b \in Block
  PROVE  /\ \A i \in 1..Len(b.comments) :
               CommentPlace(b, i)[1] % 2 = 0 /\ CommentPlace(b, i)[2] = i
         /\ \A k \in 1..Len(b.records) : RecordPlace(k)[1] % 2 # 0 /\ RecordPlace(k)[2] = k
  <1>1. ASSUME NEW i \in 1..Len(b.comments)
        PROVE  CommentPlace(b, i)[1] % 2 = 0 /\ CommentPlace(b, i)[2] = i
    <2>1. Slot(b, b.comments[i]) \in Nat
      BY Slots, BlockParts
    <2>2. \A s \in Nat : (2 * s) % 2 = 0
      OBVIOUS
    <2> QED
      BY <2>1, <2>2 DEF CommentPlace
  <1>2. ASSUME NEW k \in 1..Len(b.records)
        PROVE  RecordPlace(k)[1] % 2 # 0 /\ RecordPlace(k)[2] = k
    <2>1. k \in Nat
      BY BlockParts
    <2>2. \A s \in Nat : (2 * s - 1) % 2 # 0
      OBVIOUS
    <2> QED
      BY <2>1, <2>2 DEF RecordPlace
  <1> QED
    BY <1>1, <1>2

\* A section whose comments and records are among those of another one, in the same
\* order: the comment i is the comment c[i] of the other one, the record k its r[k].
Within(b, b2, c, r) ==
  /\ c \in [1..Len(b.comments) -> 1..Len(b2.comments)]
  /\ r \in [1..Len(b.records) -> 1..Len(b2.records)]
  /\ \A i, j \in 1..Len(b.comments) :
        Precedes(CommentPlace(b, i), CommentPlace(b, j))
           => Precedes(CommentPlace(b2, c[i]), CommentPlace(b2, c[j]))
  /\ \A k, l \in 1..Len(b.records) : k < l => r[k] < r[l]
  /\ \A i \in 1..Len(b.comments), k \in 1..Len(b.records) :
        /\ Slot(b, b.comments[i]) < k => Slot(b2, b2.comments[c[i]]) < r[k]
        /\ k <= Slot(b, b.comments[i]) => r[k] <= Slot(b2, b2.comments[c[i]])
  /\ \A i \in 1..Len(b.comments) : CommentLine(b2.comments[c[i]]) = CommentLine(b.comments[i])
  /\ \A k \in 1..Len(b.records) : RecordLine(b2.records[r[k]]) = RecordLine(b.records[k])

\* Comments against records, in terms of slots.
LEMMA PlacesBySlot ==
  ASSUME NEW b \in Block, NEW i \in 1..Len(b.comments), NEW k \in 1..Len(b.records)
  PROVE  /\ Precedes(CommentPlace(b, i), RecordPlace(k)) <=> Slot(b, b.comments[i]) < k
         /\ Precedes(RecordPlace(k), CommentPlace(b, i)) <=> k <= Slot(b, b.comments[i])
         /\ CommentPlace(b, i) # RecordPlace(k)
  <1>1. Slot(b, b.comments[i]) \in Nat /\ i \in Nat /\ k \in Nat
    BY Slots, BlockParts
  <1> QED
    BY <1>1, PlacesApart DEF CommentPlace, RecordPlace

\* One section within another one: a map of the places that keeps the order and the
\* lines.
LEMMA WithinMaps ==
  ASSUME NEW b \in Block, NEW b2 \in Block, NEW c, NEW r, Within(b, b2, c, r)
  PROVE  \E phi \in [Places(b) -> Places(b2)] :
            /\ OrderKept(phi, Places(b))
            /\ \A i \in 1..Len(b.comments) : phi[CommentPlace(b, i)] = CommentPlace(b2, c[i])
            /\ \A k \in 1..Len(b.records) : phi[RecordPlace(k)] = RecordPlace(r[k])
            /\ \A p \in Places(b) : LineFn(b2)[phi[p]] = LineFn(b)[p]
  <1> DEFINE P == Places(b)
             m == Len(b.comments)
             n == Len(b.records)
             phi == [p \in P |-> IF p[1] % 2 = 0 THEN CommentPlace(b2, c[p[2]])
                                 ELSE RecordPlace(r[p[2]])]
  <1>1. m \in Nat /\ n \in Nat
    BY BlockParts
  <1>2. \A i \in 1..m : CommentPlace(b, i) \in P /\ phi[CommentPlace(b, i)] = CommentPlace(b2, c[i])
    BY PlacesOf, PlaceKinds
  <1>3. \A k \in 1..n : RecordPlace(k) \in P /\ phi[RecordPlace(k)] = RecordPlace(r[k])
    BY PlacesOf, PlaceKinds
  <1>4. \A p \in P : (\E i \in 1..m : p = CommentPlace(b, i)) \/ (\E k \in 1..n : p = RecordPlace(k))
    BY PlacesOf
  <1>5. phi = [p \in P |-> phi[p]]
    OBVIOUS
  <1> HIDE DEF P, phi
  <1>6. \A i \in 1..m : c[i] \in 1..Len(b2.comments)
    BY DEF Within
  <1>7. \A k \in 1..n : r[k] \in 1..Len(b2.records)
    BY DEF Within
  <1>8. \A p \in P : phi[p] \in Places(b2) /\ LineFn(b2)[phi[p]] = LineFn(b)[p]
    <2> TAKE p \in P
    <2>1. ASSUME NEW i \in 1..m, p = CommentPlace(b, i)
          PROVE  phi[p] \in Places(b2) /\ LineFn(b2)[phi[p]] = LineFn(b)[p]
      <3>1. phi[p] = CommentPlace(b2, c[i]) /\ c[i] \in 1..Len(b2.comments)
        BY <1>2, <1>6, <2>1
      <3>2. phi[p] \in Places(b2) /\ LineFn(b2)[phi[p]] = CommentLine(b2.comments[c[i]])
        BY <3>1, PlacesOf, LinesAtPlaces
      <3>3. LineFn(b)[p] = CommentLine(b.comments[i])
        BY <2>1, LinesAtPlaces
      <3>4. CommentLine(b2.comments[c[i]]) = CommentLine(b.comments[i])
        BY DEF Within
      <3> QED
        BY <3>2, <3>3, <3>4
    <2>2. ASSUME NEW k \in 1..n, p = RecordPlace(k)
          PROVE  phi[p] \in Places(b2) /\ LineFn(b2)[phi[p]] = LineFn(b)[p]
      <3>1. phi[p] = RecordPlace(r[k]) /\ r[k] \in 1..Len(b2.records)
        BY <1>3, <1>7, <2>2
      <3>2. phi[p] \in Places(b2) /\ LineFn(b2)[phi[p]] = RecordLine(b2.records[r[k]])
        BY <3>1, PlacesOf, LinesAtPlaces
      <3>3. LineFn(b)[p] = RecordLine(b.records[k])
        BY <2>2, LinesAtPlaces
      <3>4. RecordLine(b2.records[r[k]]) = RecordLine(b.records[k])
        BY DEF Within
      <3> QED
        BY <3>2, <3>3, <3>4
    <2> QED
      BY <1>4, <2>1, <2>2
  <1>9. phi \in [P -> Places(b2)]
    BY <1>5, <1>8
  <1>10. OrderKept(phi, P)
    <2> SUFFICES ASSUME NEW p \in P, NEW q \in P, Precedes(p, q) PROVE Precedes(phi[p], phi[q])
      BY DEF OrderKept
    <2>1. ASSUME NEW i \in 1..m, p = CommentPlace(b, i), NEW j \in 1..m, q = CommentPlace(b, j)
          PROVE  Precedes(phi[p], phi[q])
      <3>1. Precedes(CommentPlace(b2, c[i]), CommentPlace(b2, c[j]))
        BY <2>1 DEF Within
      <3> QED
        BY <1>2, <2>1, <3>1
    <2>2. ASSUME NEW i \in 1..m, p = CommentPlace(b, i), NEW k \in 1..n, q = RecordPlace(k)
          PROVE  Precedes(phi[p], phi[q])
      <3>1. Slot(b, b.comments[i]) < k
        BY <2>2, PlacesBySlot
      <3>2. Slot(b2, b2.comments[c[i]]) < r[k]
        BY <3>1 DEF Within
      <3>3. Precedes(CommentPlace(b2, c[i]), RecordPlace(r[k]))
        BY <1>6, <1>7, <3>2, PlacesBySlot
      <3> QED
        BY <1>2, <1>3, <2>2, <3>3
    <2>3. ASSUME NEW k \in 1..n, p = RecordPlace(k), NEW i \in 1..m, q = CommentPlace(b, i)
          PROVE  Precedes(phi[p], phi[q])
      <3>1. k <= Slot(b, b.comments[i])
        BY <2>3, PlacesBySlot
      <3>2. r[k] <= Slot(b2, b2.comments[c[i]])
        BY <3>1 DEF Within
      <3>3. Precedes(RecordPlace(r[k]), CommentPlace(b2, c[i]))
        BY <1>6, <1>7, <3>2, PlacesBySlot
      <3> QED
        BY <1>2, <1>3, <2>3, <3>3
    <2>4. ASSUME NEW k \in 1..n, p = RecordPlace(k), NEW l \in 1..n, q = RecordPlace(l)
          PROVE  Precedes(phi[p], phi[q])
      <3>1. k \in Nat /\ l \in Nat /\ r[k] \in Nat /\ r[l] \in Nat
        BY <1>1, <1>7, BlockParts
      <3>2. k < l
        BY <2>4, <3>1, PlacesApart DEF RecordPlace
      <3>3. r[k] < r[l]
        BY <3>2 DEF Within
      <3>4. Precedes(RecordPlace(r[k]), RecordPlace(r[l]))
        BY <3>1, <3>3, PlacesApart DEF RecordPlace
      <3> QED
        BY <1>3, <2>4, <3>4
    <2> QED
      BY <1>4, <2>1, <2>2, <2>3, <2>4
  <1> QED
    BY <1>2, <1>3, <1>8, <1>9, <1>10 DEF P

\* A section that has one line more, at a place of its own.
OneLineAdded(b, b2, c, r, new) ==
  /\ Within(b, b2, c, r)
  /\ new \in Places(b2)
  /\ \A i \in 1..Len(b.comments) : CommentPlace(b2, c[i]) # new
  /\ \A k \in 1..Len(b.records) : RecordPlace(r[k]) # new
  /\ \A q \in Places(b2) : \/ q = new
                           \/ \E i \in 1..Len(b.comments) : q = CommentPlace(b2, c[i])
                           \/ \E k \in 1..Len(b.records) : q = RecordPlace(r[k])

\* Without that line the lines are those of the other section.
LEMMA OneLineMore ==
  ASSUME NEW b \in Block, NEW b2 \in Block, NEW c, NEW r, NEW new,
         OneLineAdded(b, b2, c, r, new),
         NEW i \in 1..Cardinality(Places(b2)), Listed[Places(b2)][i] = new
  PROVE  /\ Without(LinesOf(b2), {i}) = LinesOf(b)
         /\ Cardinality(Places(b2)) = Cardinality(Places(b)) + 1
  <1>1. /\ Places(b) \in SUBSET Place /\ IsFiniteSet(Places(b))
        /\ Places(b2) \in SUBSET Place /\ IsFiniteSet(Places(b2))
    BY PlacesOf, PlacesFinite
  <1>2. PICK phi \in [Places(b) -> Places(b2)] :
            /\ OrderKept(phi, Places(b))
            /\ \A j \in 1..Len(b.comments) : phi[CommentPlace(b, j)] = CommentPlace(b2, c[j])
            /\ \A k \in 1..Len(b.records) : phi[RecordPlace(k)] = RecordPlace(r[k])
            /\ \A p \in Places(b) : LineFn(b2)[phi[p]] = LineFn(b)[p]
    BY WithinMaps DEF OneLineAdded
  <1>3. \A p \in Places(b) : phi[p] # new
    <2> TAKE p \in Places(b)
    <2>1. \/ \E j \in 1..Len(b.comments) : p = CommentPlace(b, j)
          \/ \E k \in 1..Len(b.records) : p = RecordPlace(k)
      BY PlacesOf
    <2> QED
      BY <1>2, <2>1 DEF OneLineAdded
  <1>4. \A q \in Places(b2) : q = new \/ \E p \in Places(b) : q = phi[p]
    <2> TAKE q \in Places(b2)
    <2>1. ASSUME NEW j \in 1..Len(b.comments), q = CommentPlace(b2, c[j])
          PROVE  \E p \in Places(b) : q = phi[p]
      <3>1. CommentPlace(b, j) \in Places(b)
        BY PlacesOf
      <3> QED
        BY <1>2, <2>1, <3>1
    <2>2. ASSUME NEW k \in 1..Len(b.records), q = RecordPlace(r[k])
          PROVE  \E p \in Places(b) : q = phi[p]
      <3>1. RecordPlace(k) \in Places(b)
        BY PlacesOf
      <3> QED
        BY <1>2, <2>2, <3>1
    <2> QED
      BY <2>1, <2>2 DEF OneLineAdded
  <1> DEFINE g == LineFn(b)
             g2 == LineFn(b2)
             S == Places(b)
             S2 == Places(b2)
  <1>5. LinesOf(b) = Shown(S, g) /\ LinesOf(b2) = Shown(S2, g2)
    BY LinesAtPlaces
  <1>6. Without(Shown(S2, g2), {i}) = Shown(S, g) /\ Cardinality(S2) = Cardinality(S) + 1
    <2>1. i \in 1..Cardinality(S2) /\ Listed[S2][i] = new
      OBVIOUS
    <2>2. OneAdded(S, g, S2, g2, phi, new)
      BY <1>2, <1>3, <1>4 DEF OneAdded, OneLineAdded
    <2>3. S \in SUBSET Place /\ IsFiniteSet(S) /\ S2 \in SUBSET Place /\ IsFiniteSet(S2)
      BY <1>1
    <2> HIDE DEF g, g2, S, S2
    <2> QED
      BY <2>1, <2>2, <2>3, OnePlaceMore
  <1> QED
    BY <1>5, <1>6

\* A section with one record more: the comments keep their texts, and every comment
\* is before and behind the same records as it was.
RecordAdded(b, b2, index) ==
  /\ Len(b2.records) = Len(b.records) + 1
  /\ \A k \in 1..Len(b.records) : /\ k <= index => b2.records[k] = b.records[k]
                                  /\ k > index => b2.records[k + 1] = b.records[k]
  /\ Len(b2.comments) = Len(b.comments)
  /\ \A i \in 1..Len(b.comments) : b2.comments[i].text = b.comments[i].text
  /\ \A i \in 1..Len(b.comments) :
        \/ /\ Slot(b2, b2.comments[i]) = Slot(b, b.comments[i])
           /\ Slot(b, b.comments[i]) <= index
        \/ /\ Slot(b2, b2.comments[i]) = Slot(b, b.comments[i]) + 1
           /\ Slot(b, b.comments[i]) >= index

\* Where the comments and the records of a section are when one record is added at
\* index.
Same(b) == [i \in 1..Len(b.comments) |-> i]
Past(b, index) == [k \in 1..Len(b.records) |-> IF k <= index THEN k ELSE k + 1]

\* A section is within the one that has one record more.
LEMMA RecordAddedWithin ==
  ASSUME NEW b \in Block, NEW b2 \in Block, NEW index \in 0..Len(b.records),
         RecordAdded(b, b2, index), InOrder(b.comments), InOrder(b2.comments)
  PROVE  Within(b, b2, Same(b), Past(b, index))
  <1> DEFINE m == Len(b.comments)
             n == Len(b.records)
             c == Same(b)
             r == Past(b, index)
  <1>1. m \in Nat /\ n \in Nat /\ index \in Nat /\ index <= n /\ Len(b2.records) = n + 1
        /\ Len(b2.comments) = m
    BY BlockParts DEF RecordAdded
  <1>2. c \in [1..m -> 1..m] /\ \A i \in 1..m : c[i] = i
    BY DEF Same
  <1>3. \A k \in 1..n : /\ r[k] \in 1..n + 1
                        /\ k <= index => r[k] = k
                        /\ k > index => r[k] = k + 1
    BY <1>1 DEF Past
  <1>4. r \in [1..n -> 1..n + 1]
    <2>1. r = [k \in 1..n |-> r[k]]
      BY DEF Past
    <2> HIDE DEF r
    <2> QED
      BY <1>3, <2>1
  <1> HIDE DEF c, r
  <1>5. \A i, j \in 1..m : Precedes(CommentPlace(b, i), CommentPlace(b, j))
                              => Precedes(CommentPlace(b2, c[i]), CommentPlace(b2, c[j]))
    <2> SUFFICES ASSUME NEW i \in 1..m, NEW j \in 1..m,
                        Precedes(CommentPlace(b, i), CommentPlace(b, j))
                 PROVE  Precedes(CommentPlace(b2, i), CommentPlace(b2, j))
      BY <1>2
    <2>1. i < j
      BY CommentPlacesTell
    <2> QED
      BY <1>1, <2>1, CommentPlacesInOrder
  <1>6. \A k, l \in 1..n : k < l => r[k] < r[l]
    <2> SUFFICES ASSUME NEW k \in 1..n, NEW l \in 1..n, k < l PROVE r[k] < r[l]
      OBVIOUS
    <2>1. /\ k <= index => r[k] = k
          /\ k > index => r[k] = k + 1
          /\ l <= index => r[l] = l
          /\ l > index => r[l] = l + 1
      BY <1>3
    <2> QED
      BY <1>1, <2>1
  <1>7. ASSUME NEW i \in 1..m, NEW k \in 1..n
        PROVE  /\ Slot(b, b.comments[i]) < k => Slot(b2, b2.comments[c[i]]) < r[k]
               /\ k <= Slot(b, b.comments[i]) => r[k] <= Slot(b2, b2.comments[c[i]])
    <2> DEFINE s == Slot(b, b.comments[i])
               t == Slot(b2, b2.comments[i])
    <2>1. s \in Nat /\ t \in Nat
      BY <1>1, Slots, BlockParts
    <2>2. (t = s /\ s <= index) \/ (t = s + 1 /\ s >= index)
      BY DEF RecordAdded
    <2>3. c[i] = i /\ (k <= index => r[k] = k) /\ (k > index => r[k] = k + 1)
      BY <1>2, <1>3
    <2> HIDE DEF s, t
    <2>4. (s < k => t < r[k]) /\ (k <= s => r[k] <= t)
      BY <1>1, <2>1, <2>2, <2>3
    <2> QED
      BY <2>3, <2>4 DEF s, t
  <1>8. \A i \in 1..m : CommentLine(b2.comments[c[i]]) = CommentLine(b.comments[i])
    BY <1>2 DEF RecordAdded, CommentLine
  <1>9. \A k \in 1..n : RecordLine(b2.records[r[k]]) = RecordLine(b.records[k])
    <2> TAKE k \in 1..n
    <2>1. b2.records[r[k]] = b.records[k]
      <3>1. /\ k <= index => b2.records[k] = b.records[k]
            /\ k > index => b2.records[k + 1] = b.records[k]
        BY DEF RecordAdded
      <3>2. k <= index \/ k > index
        BY <1>1
      <3> QED
        BY <1>3, <3>1, <3>2
    <2> QED
      BY <2>1
  <1> QED
    BY <1>1, <1>2, <1>4, <1>5, <1>6, <1>7, <1>8, <1>9 DEF Within, c, r

\* The line of the added record: without it the lines are what they were.
LEMMA LineAdded ==
  ASSUME NEW b \in Block, NEW b2 \in Block, NEW index \in 0..Len(b.records),
         RecordAdded(b, b2, index), InOrder(b.comments), InOrder(b2.comments)
  PROVE  \E i \in DOMAIN LinesOf(b2) :
            /\ Listed[Places(b2)][i] = RecordPlace(index + 1)
            /\ ~LinesOf(b2)[i].comment
            /\ Without(LinesOf(b2), {i}) = LinesOf(b)
            /\ Cardinality(Places(b2)) = Cardinality(Places(b)) + 1
  <1> DEFINE new == RecordPlace(index + 1)
             c == Same(b)
             r == Past(b, index)
             m == Len(b.comments)
             n == Len(b.records)
  <1>1. m \in Nat /\ n \in Nat /\ index \in Nat /\ index <= n /\ Len(b2.records) = n + 1
        /\ Len(b2.comments) = m
    BY BlockParts DEF RecordAdded
  <1>2. Within(b, b2, c, r)
    BY RecordAddedWithin
  <1>3. \A i \in 1..m : c[i] = i
    BY DEF Same
  <1>4. \A k \in 1..n : (k <= index => r[k] = k) /\ (k > index => r[k] = k + 1)
    BY DEF Past
  <1> HIDE DEF c, r
  <1>5. index + 1 \in 1..Len(b2.records)
    BY <1>1
  <1>6. new \in Places(b2)
    BY <1>5, PlacesOf
  <1>7. \A i \in 1..m : CommentPlace(b2, c[i]) # new
    BY <1>1, <1>3, <1>5, PlacesBySlot
  <1>8. \A k \in 1..n : RecordPlace(r[k]) # new
    <2> TAKE k \in 1..n
    <2>1. r[k] # index + 1
      BY <1>1, <1>4
    <2> QED
      BY <2>1 DEF RecordPlace
  <1>9. \A q \in Places(b2) : \/ q = new
                              \/ \E i \in 1..m : q = CommentPlace(b2, c[i])
                              \/ \E k \in 1..n : q = RecordPlace(r[k])
    <2> TAKE q \in Places(b2)
    <2>1. ASSUME NEW i \in 1..Len(b2.comments), q = CommentPlace(b2, i)
          PROVE  \E j \in 1..m : q = CommentPlace(b2, c[j])
      BY <1>1, <1>3, <2>1
    <2>2. ASSUME NEW l \in 1..Len(b2.records), q = RecordPlace(l)
          PROVE  q = new \/ \E k \in 1..n : q = RecordPlace(r[k])
      <3>1. CASE l = index + 1
        BY <2>2, <3>1
      <3>2. CASE l <= index
        <4>1. l \in 1..n /\ r[l] = l
          BY <1>1, <1>4, <3>2
        <4> QED
          BY <2>2, <4>1
      <3>3. CASE l > index + 1
        <4>1. l - 1 \in 1..n /\ l - 1 > index /\ (l - 1) + 1 = l
          BY <1>1, <3>3
        <4>2. r[l - 1] = l
          BY <1>4, <4>1
        <4> QED
          BY <2>2, <4>1, <4>2
      <3> QED
        BY <1>1, <3>1, <3>2, <3>3
    <2>3. \/ \E i \in 1..Len(b2.comments) : q = CommentPlace(b2, i)
          \/ \E l \in 1..Len(b2.records) : q = RecordPlace(l)
      BY PlacesOf
    <2> HIDE DEF new
    <2> QED
      BY <2>1, <2>2, <2>3
  <1>10. Places(b2) \in SUBSET Place /\ IsFiniteSet(Places(b2))
    BY PlacesOf, PlacesFinite
  <1>11. PICK i \in 1..Cardinality(Places(b2)) : Listed[Places(b2)][i] = new
    BY <1>6, <1>10, ListedInOrder
  <1>12. DOMAIN LinesOf(b2) = 1..Cardinality(Places(b2))
    BY <1>10, LinesAtPlaces, ShownIs
  <1>13. ~LinesOf(b2)[i].comment
    BY <1>5, <1>11, KindsOfLines
  <1>14. Without(LinesOf(b2), {i}) = LinesOf(b)
         /\ Cardinality(Places(b2)) = Cardinality(Places(b)) + 1
    <2>1. OneLineAdded(b, b2, c, r, new)
      BY <1>2, <1>6, <1>7, <1>8, <1>9 DEF OneLineAdded
    <2> HIDE DEF new
    <2> QED
      BY <1>11, <2>1, OneLineMore
  <1> QED
    BY <1>11, <1>12, <1>13, <1>14

\* How many lines there are.
LEMMA LinesLength ==
  ASSUME NEW b \in Block
  PROVE  /\ Cardinality(Places(b)) \in Nat
         /\ DOMAIN LinesOf(b) = 1..Cardinality(Places(b))
         /\ Len(LinesOf(b)) = Cardinality(Places(b))
  <1> DEFINE N == Cardinality(Places(b))
             ls == LinesOf(b)
             T == {ls[k] : k \in 1..N}
  <1>1. Places(b) \in SUBSET Place /\ IsFiniteSet(Places(b))
    BY PlacesOf, PlacesFinite
  <1>2. ls = Shown(Places(b), LineFn(b))
    BY LinesAtPlaces
  <1>3. N \in Nat /\ ls = [k \in 1..N |-> LineFn(b)[Listed[Places(b)][k]]]
    BY <1>1, <1>2, ShownIs
  <1> HIDE DEF ls, N
  <1>4. ls \in [1..N -> T]
    BY <1>3
  <1>5. Len(ls) = N /\ DOMAIN ls = 1..N
    <2> HIDE DEF T
    <2> QED
      BY <1>3, <1>4
  <1> QED
    BY <1>3, <1>5 DEF ls, N

\* The line of an added record goes directly in front of the record that had its
\* index, or behind them all.
LEMMA LinePlaced ==
  ASSUME NEW b \in Block, NEW b2 \in Block, NEW index \in 0..Len(b.records),
         RecordAdded(b, b2, index),
         index < Len(b.records) =>
            \A j \in 1..Len(b2.comments) : Slot(b2, b2.comments[j]) # index + 1,
         NEW i \in DOMAIN LinesOf(b2), Listed[Places(b2)][i] = RecordPlace(index + 1),
         Without(LinesOf(b2), {i}) = LinesOf(b),
         Cardinality(Places(b2)) = Cardinality(Places(b)) + 1
  PROVE  Doc!RecordPlace(LinesOf(b), i)
  <1> DEFINE N == Cardinality(Places(b))
             n == Len(b.records)
             ls == LinesOf(b)
             ls2 == LinesOf(b2)
             P2 == Places(b2)
             at2 == Listed[P2]
             new == RecordPlace(index + 1)
  <1>1. /\ N \in Nat /\ DOMAIN ls = 1..N /\ Len(ls) = N /\ DOMAIN ls2 = 1..N + 1 /\ i \in 1..N + 1
        /\ n \in Nat /\ index \in Nat /\ index <= n /\ Len(b2.records) = n + 1
    BY LinesLength, BlockParts DEF RecordAdded
  <1>2. \A k \in 1..N : (k < i => ls[k] = ls2[k]) /\ (k >= i => ls[k] = ls2[k + 1])
    <2>1. (N + 1) - 1 = N /\ N + 1 \in Nat
      BY <1>1
    <2>2. \A k \in 1..(N + 1) - 1 : /\ k < i => Without(ls2, {i})[k] = ls2[k]
                                    /\ k >= i => Without(ls2, {i})[k] = ls2[k + 1]
      <3> HIDE DEF N, ls2, ls
      <3> QED
        BY <1>1, <2>1, WithoutOne
    <2> QED
      BY <2>1, <2>2
  <1>3. P2 \in SUBSET Place /\ IsFiniteSet(P2) /\ Cardinality(P2) = N + 1
    BY PlacesOf, PlacesFinite
  <1>4. at2[i] = new /\ at2 \in [1..N + 1 -> P2] /\ \A p \in P2 : \E k \in 1..N + 1 : at2[k] = p
    BY <1>3, ListedInOrder
  <1>5. \A j, k \in 1..N + 1 : /\ j < k => Precedes(at2[j], at2[k])
                               /\ Precedes(at2[j], at2[k]) => j < k
    BY <1>3, ListedInOrder, ListedOrder
  <1>6. \A k \in 1..N + 1 :
           /\ ls2[k].comment \in BOOLEAN
           /\ ~ls2[k].comment => \E l \in 1..n + 1 : at2[k] = RecordPlace(l)
           /\ \A l \in 1..n + 1 : at2[k] = RecordPlace(l) => ~ls2[k].comment
    BY <1>1, <1>3, KindsOfLines
  <1>7. \A p \in P2 : \/ \E k \in 1..Len(b2.comments) : p = CommentPlace(b2, k)
                      \/ \E l \in 1..n + 1 : p = RecordPlace(l)
    BY <1>1, PlacesOf
  <1>8. \A k, l \in 1..n + 1 : Precedes(RecordPlace(k), RecordPlace(l)) <=> k < l
    <2>1. \A k \in 1..n + 1 : k \in Nat
      BY <1>1
    <2> QED
      BY <2>1, PlacesApart DEF RecordPlace
  <1> HIDE DEF N, n, ls, ls2, P2, at2
  <1>9. CASE index < n
    <2> DEFINE next == RecordPlace(index + 2)
    <2>1. index + 1 \in 1..n + 1 /\ index + 2 \in 1..n + 1 /\ index + 1 < index + 2
      BY <1>1, <1>9
    <2>2. next \in P2 /\ Precedes(new, next)
      <3>1. next \in P2
        BY <1>1, <2>1, PlacesOf DEF P2
      <3>2. Precedes(new, next)
        BY <1>8, <2>1
      <3> QED
        BY <3>1, <3>2
    <2>3. PICK j \in 1..N + 1 : at2[j] = next
      BY <1>4, <2>2
    <2>4. i < j
      BY <1>1, <1>4, <1>5, <2>2, <2>3
    <2>5. i + 1 = j
      <3> SUFFICES ASSUME i + 1 # j PROVE FALSE
        OBVIOUS
      <3>1. i + 1 \in 1..N + 1 /\ i < i + 1 /\ i + 1 < j
        BY <1>1, <2>4
      <3> DEFINE q == at2[i + 1]
      <3>2. q \in P2 /\ Precedes(new, q) /\ Precedes(q, next)
        BY <1>1, <1>4, <1>5, <2>3, <3>1
      <3> HIDE DEF q
      <3>3. ASSUME NEW k \in 1..Len(b2.comments), q = CommentPlace(b2, k)
            PROVE  FALSE
        <4>1. Slot(b2, b2.comments[k]) \in Nat
          BY Slots, BlockParts
        <4>2. index + 1 <= Slot(b2, b2.comments[k]) /\ Slot(b2, b2.comments[k]) < index + 2
          BY <1>1, <2>1, <3>2, <3>3, PlacesBySlot
        <4>3. Slot(b2, b2.comments[k]) # index + 1
          BY <1>9 DEF n
        <4> QED
          BY <1>1, <4>1, <4>2, <4>3
      <3>4. ASSUME NEW l \in 1..n + 1, q = RecordPlace(l)
            PROVE  FALSE
        <4>1. index + 1 < l /\ l < index + 2
          BY <1>8, <2>1, <3>2, <3>4
        <4> QED
          BY <1>1, <4>1
      <3> QED
        BY <1>7, <3>2, <3>3, <3>4
    <2>6. ~ls2[i + 1].comment
      BY <1>6, <2>1, <2>3, <2>5
    <2>7. i \in 1..N
      BY <1>1, <2>5
    <2>8. ~ls[i].comment
      <3>1. i >= i
        BY <1>1
      <3> QED
        BY <1>2, <2>6, <2>7, <3>1
    <2> QED
      BY <1>1, <2>7, <2>8 DEF Doc!RecordPlace, ls
  <1>10. CASE ~(index < n)
    <2>1. index = n
      BY <1>1, <1>10
    <2>2. ASSUME NEW j \in i..N PROVE ls[j].comment
      <3>1. j \in 1..N /\ j >= i /\ j + 1 \in 1..N + 1 /\ i < j + 1 /\ i \in 1..N + 1
        BY <1>1
      <3>2. ls[j] = ls2[j + 1]
        BY <1>2, <3>1
      <3>3. Precedes(new, at2[j + 1])
        BY <1>4, <1>5, <3>1
      <3>4. ~ \E l \in 1..n + 1 : at2[j + 1] = RecordPlace(l)
        <4> SUFFICES ASSUME NEW l \in 1..n + 1, at2[j + 1] = RecordPlace(l) PROVE FALSE
          OBVIOUS
        <4>1. n + 1 \in 1..n + 1
          BY <1>1
        <4>2. n + 1 < l
          BY <1>8, <2>1, <3>3, <4>1
        <4> QED
          BY <1>1, <4>2
      <3>5. ls2[j + 1].comment
        BY <1>6, <3>1, <3>4
      <3> QED
        BY <3>2, <3>5
    <2>3. i \notin 1..N => i = N + 1
      BY <1>1
    <2> QED
      BY <1>1, <2>2, <2>3 DEF Doc!RecordPlace, ls
  <1> QED
    BY <1>9, <1>10

\* Sections whose comments have the same texts have the same comment lines.
LEMMA SameTexts ==
  ASSUME NEW b \in Block, NEW b2 \in Block, Len(b2.comments) = Len(b.comments),
         \A i \in 1..Len(b.comments) : b2.comments[i].text = b.comments[i].text
  PROVE  Doc!ToSet(Doc!Comments(LinesOf(b2))) = Doc!ToSet(Doc!Comments(LinesOf(b)))
  <1>1. \A i \in 1..Len(b.comments) : CommentLine(b2.comments[i]) = CommentLine(b.comments[i])
    BY DEF CommentLine
  <1>2. Doc!ToSet(Doc!Comments(LinesOf(b))) = {CommentLine(b.comments[i]) : i \in 1..Len(b.comments)}
    BY CommentsOfLines
  <1>3. Doc!ToSet(Doc!Comments(LinesOf(b2))) = {CommentLine(b2.comments[i]) : i \in 1..Len(b.comments)}
    BY CommentsOfLines
  <1> QED
    BY <1>1, <1>2, <1>3

\* The record lines of a section with one record more.
LEMMA RecordLinesAdded ==
  ASSUME NEW b \in Block, NEW b2 \in Block, NEW index \in 0..Len(b.records),
         RecordAdded(b, b2, index)
  PROVE  /\ index + 1 \in DOMAIN RecordLines(b2.records)
         /\ Without(RecordLines(b2.records), {index + 1}) = RecordLines(b.records)
  <1> DEFINE n == Len(b.records)
             i == index + 1
             rs == RecordLines(b.records)
             rs2 == RecordLines(b2.records)
  <1>1. n \in Nat /\ n + 1 \in Nat /\ i \in 1..n + 1 /\ (n + 1) - 1 = n
    BY BlockParts
  <1>2. /\ rs = [k \in 1..n |-> RecordLine(b.records[k])]
        /\ rs2 = [k \in 1..n + 1 |-> RecordLine(b2.records[k])]
    BY DEF RecordLines, RecordAdded
  <1>3. \A k \in 1..n : (k < i => rs2[k] = rs[k]) /\ (k >= i => rs2[k + 1] = rs[k])
    <2> TAKE k \in 1..n
    <2>1. (k <= index => b2.records[k] = b.records[k]) /\ (k > index => b2.records[k + 1] = b.records[k])
      BY DEF RecordAdded
    <2>2. /\ k \in 1..n + 1 /\ k + 1 \in 1..n + 1
          /\ k < i => k <= index
          /\ k >= i => k > index
      BY <1>1
    <2> HIDE DEF i, rs, rs2
    <2> QED
      BY <1>2, <2>1, <2>2
  <1>4. DOMAIN rs2 = 1..n + 1 /\ DOMAIN rs = 1..n
    BY <1>2
  <1> HIDE DEF rs, rs2, i, n
  <1>5. /\ DOMAIN Without(rs2, {i}) = 1..n
        /\ \A k \in 1..n : /\ k < i => Without(rs2, {i})[k] = rs2[k]
                           /\ k >= i => Without(rs2, {i})[k] = rs2[k + 1]
    <2>1. /\ DOMAIN Without(rs2, {i}) = 1..(n + 1) - 1
          /\ \A k \in 1..(n + 1) - 1 : /\ k < i => Without(rs2, {i})[k] = rs2[k]
                                       /\ k >= i => Without(rs2, {i})[k] = rs2[k + 1]
      BY <1>1, <1>4, WithoutOne
    <2> QED
      BY <1>1, <2>1
  <1>6. Without(rs2, {i}) = rs
    <2>1. \A k \in 1..n : Without(rs2, {i})[k] = rs[k]
      <3> TAKE k \in 1..n
      <3>1. k < i \/ k >= i
        BY <1>1
      <3> QED
        BY <1>3, <1>5, <3>1
    <2>2. Without(rs2, {i}) = [k \in 1..n |-> Without(rs2, {i})[k]]
      <3>1. Without(rs2, {i}) = [k \in DOMAIN Without(rs2, {i}) |-> Without(rs2, {i})[k]]
        <4>1. Without(rs2, {i}) = [k \in DOMAIN Listed[{<<0, j>> : j \in DOMAIN rs2 \ {i}}] |->
                                     rs2[Listed[{<<0, j>> : j \in DOMAIN rs2 \ {i}}][k][2]]]
          BY DEF Without, Part
        <4> QED
          BY <4>1
      <3> QED
        BY <1>5, <3>1
    <2>3. rs = [k \in 1..n |-> rs[k]]
      BY <1>2
    <2> QED
      BY <2>1, <2>2, <2>3
  <1> QED
    BY <1>1, <1>4, <1>6 DEF rs, rs2, i

\* The document's promise of an insertion.
Promised(b, b2) ==
  \/ \E i \in DOMAIN LinesOf(b2) :
        /\ ~LinesOf(b2)[i].comment /\ Doc!RecordPlace(LinesOf(b), i)
        /\ Doc!OneMore(LinesOf(b), LinesOf(b2), i)
  \/ /\ ~InOrder(b.comments)
     /\ Doc!ToSet(Doc!Comments(LinesOf(b2))) = Doc!ToSet(Doc!Comments(LinesOf(b)))
     /\ \E i \in DOMAIN Doc!Records(LinesOf(b2)) :
           Doc!OneMore(Doc!Records(LinesOf(b)), Doc!Records(LinesOf(b2)), i)

\* An added record keeps the promise, whether or not the comments were in order.
LEMMA InsertionKept ==
  ASSUME NEW b \in Block, NEW b2 \in Block, NEW index \in 0..Len(b.records),
         RecordAdded(b, b2, index), InOrder(b2.comments) <=> InOrder(b.comments),
         index < Len(b.records) =>
            \A j \in 1..Len(b2.comments) : Slot(b2, b2.comments[j]) # index + 1
  PROVE  Promised(b, b2)
  <1>1. CASE InOrder(b.comments)
    <2>1. PICK i \in DOMAIN LinesOf(b2) :
            /\ Listed[Places(b2)][i] = RecordPlace(index + 1)
            /\ ~LinesOf(b2)[i].comment
            /\ Without(LinesOf(b2), {i}) = LinesOf(b)
            /\ Cardinality(Places(b2)) = Cardinality(Places(b)) + 1
      BY <1>1, LineAdded
    <2>2. Doc!RecordPlace(LinesOf(b), i)
      BY <2>1, LinePlaced
    <2>3. Doc!OneMore(LinesOf(b), LinesOf(b2), i)
      BY <2>1, DocumentOperators DEF Doc!OneMore
    <2> QED
      BY <2>1, <2>2, <2>3 DEF Promised
  <1>2. CASE ~InOrder(b.comments)
    <2> DEFINE i == index + 1
               rs == RecordLines(b.records)
               rs2 == RecordLines(b2.records)
    <2>1. i \in DOMAIN rs2 /\ Without(rs2, {i}) = rs
      BY RecordLinesAdded
    <2> HIDE DEF rs, rs2, i
    <2>2. Doc!Records(LinesOf(b)) = rs /\ Doc!Records(LinesOf(b2)) = rs2
      BY RecordsOfLines DEF rs, rs2
    <2>3. Doc!OneMore(rs, rs2, i) /\ i \in DOMAIN rs2
      BY <2>1, DocumentOperators DEF Doc!OneMore
    <2>4. Doc!ToSet(Doc!Comments(LinesOf(b2))) = Doc!ToSet(Doc!Comments(LinesOf(b)))
      BY SameTexts DEF RecordAdded
    <2> QED
      BY <1>2, <2>2, <2>3, <2>4 DEF Promised
  <1> QED
    BY <1>1, <1>2

\* A record put in at an index adds one line.
LEMMA InsertedIsAdded ==
  ASSUME NEW b \in Block, NEW index \in 0..Len(b.records), NEW r \in Record,
         \A i \in DOMAIN b.comments : b.comments[i].before < MaxBefore
  PROVE  /\ RecordAdded(b, WithRecord(b, index, r), index)
         /\ InOrder(WithRecord(b, index, r).comments) <=> InOrder(b.comments)
         /\ index < Len(b.records) =>
               \A j \in 1..Len(WithRecord(b, index, r).comments) :
                  Slot(WithRecord(b, index, r), WithRecord(b, index, r).comments[j]) # index + 1
  <1> DEFINE b2 == WithRecord(b, index, r)
             n == Len(b.records)
             m == Len(b.comments)
  <1>1. n \in Nat /\ m \in Nat /\ index \in Nat /\ index <= n /\ DOMAIN b.comments = 1..m
        /\ b.comments \in Seq(Comment)
    BY BlockParts
  <1>2. /\ b2 \in Block /\ b2.comments = Shift(b.comments, index, 1)
        /\ Len(b2.records) = n + 1
        /\ \A k \in 1..n : /\ k <= index => b2.records[k] = b.records[k]
                           /\ k > index => b2.records[k + 1] = b.records[k]
    BY InsertedRecord
  <1>3. /\ DOMAIN b2.comments = 1..m /\ Len(b2.comments) = m
        /\ \A k \in 1..m : /\ b2.comments[k].text = b.comments[k].text
                           /\ b2.comments[k].before = IF b.comments[k].before > index
                                                      THEN b.comments[k].before + 1
                                                      ELSE b.comments[k].before
    <2>1. 1 \in {1, -1} /\ (1 = 1 => \A k \in DOMAIN b.comments : b.comments[k].before < MaxBefore)
      OBVIOUS
    <2>2. /\ DOMAIN Shift(b.comments, index, 1) = DOMAIN b.comments
          /\ Len(Shift(b.comments, index, 1)) = Len(b.comments)
          /\ \A k \in DOMAIN b.comments :
               /\ Shift(b.comments, index, 1)[k].text = b.comments[k].text
               /\ Shift(b.comments, index, 1)[k].before =
                    IF b.comments[k].before > index THEN b.comments[k].before + 1
                    ELSE b.comments[k].before
      BY <1>1, <2>1, Shifted
    <2> QED
      BY <1>1, <1>2, <2>2
  <1> HIDE DEF b2, n, m
  <1>4. \A k \in 1..m : b.comments[k].before \in Nat
    BY Slots DEF m
  <1>5. InOrder(b2.comments) <=> InOrder(b.comments)
    <2>1. \A i, j \in 1..m : b2.comments[i].before <= b2.comments[j].before
                                <=> b.comments[i].before <= b.comments[j].before
      <3> TAKE i, j \in 1..m
      <3> DEFINE x == b.comments[i].before
                 y == b.comments[j].before
                 x2 == b2.comments[i].before
                 y2 == b2.comments[j].before
      <3>1. x \in Nat /\ y \in Nat
        BY <1>4
      <3>2. x2 = IF x > index THEN x + 1 ELSE x
        BY <1>3
      <3>3. y2 = IF y > index THEN y + 1 ELSE y
        BY <1>3
      <3> HIDE DEF x, y, x2, y2
      <3>4. x2 <= y2 <=> x <= y
        BY <1>1, <3>1, <3>2, <3>3
      <3> QED
        BY <3>4 DEF x, y, x2, y2
    <2> QED
      BY <1>1, <1>3, <2>1 DEF InOrder
  <1>6. ASSUME NEW k \in 1..m
        PROVE  /\ \/ /\ Slot(b2, b2.comments[k]) = Slot(b, b.comments[k])
                     /\ Slot(b, b.comments[k]) <= index
                  \/ /\ Slot(b2, b2.comments[k]) = Slot(b, b.comments[k]) + 1
                     /\ Slot(b, b.comments[k]) >= index
               /\ index < n => Slot(b2, b2.comments[k]) # index + 1
    <2> DEFINE s == Slot(b, b.comments[k])
               t == Slot(b2, b2.comments[k])
               x == b.comments[k].before
               y == b2.comments[k].before
    <2>1. x \in Nat /\ (x <= n => s = x) /\ (x > n => s = n)
      BY Slots DEF n, m
    <2>2. y \in Nat /\ (y <= n + 1 => t = y) /\ (y > n + 1 => t = n + 1)
      BY <1>2, <1>3, Slots
    <2>3. y = IF x > index THEN x + 1 ELSE x
      BY <1>3
    <2> HIDE DEF s, t, x, y
    <2>4. (t = s /\ s <= index) \/ (t = s + 1 /\ s >= index)
      BY <1>1, <2>1, <2>2, <2>3
    <2>5. index < n => t # index + 1
      BY <1>1, <2>1, <2>2, <2>3
    <2> QED
      BY <2>4, <2>5 DEF s, t
  <1>7. RecordAdded(b, b2, index)
    BY <1>2, <1>3, <1>6 DEF RecordAdded, n, m
  <1>8. index < n => \A j \in 1..Len(b2.comments) : Slot(b2, b2.comments[j]) # index + 1
    BY <1>3, <1>6
  <1> QED
    BY <1>5, <1>7, <1>8 DEF b2, n

\* So does a record appended, although no comment is shifted then.
LEMMA AppendedIsAdded ==
  ASSUME NEW b \in Block, NEW b2 \in Block, NEW r \in Record,
         b2.records = Append(b.records, r), b2.comments = b.comments
  PROVE  RecordAdded(b, b2, Len(b.records))
  <1> DEFINE n == Len(b.records)
             m == Len(b.comments)
  <1>1. n \in Nat /\ m \in Nat /\ b.records \in Seq(Record)
    BY BlockParts
  <1>2. Len(b2.records) = n + 1 /\ \A k \in 1..n : b2.records[k] = b.records[k]
    BY <1>1
  <1>3. ASSUME NEW k \in 1..m
        PROVE  \/ /\ Slot(b2, b2.comments[k]) = Slot(b, b.comments[k])
                  /\ Slot(b, b.comments[k]) <= n
               \/ /\ Slot(b2, b2.comments[k]) = Slot(b, b.comments[k]) + 1
                  /\ Slot(b, b.comments[k]) >= n
    <2> DEFINE s == Slot(b, b.comments[k])
               t == Slot(b2, b2.comments[k])
               x == b.comments[k].before
    <2> HIDE DEF n
    <2>1. x \in Nat /\ (x <= n => s = x) /\ (x > n => s = n)
      BY Slots DEF n
    <2>2. (x <= n + 1 => t = x) /\ (x > n + 1 => t = n + 1)
      BY <1>2, Slots
    <2> HIDE DEF s, t, x
    <2>3. (t = s /\ s <= n) \/ (t = s + 1 /\ s >= n)
      BY <1>1, <2>1, <2>2
    <2> QED
      BY <2>3 DEF s, t
  <1>4. \A k \in 1..n : (k <= n => b2.records[k] = b.records[k]) /\ ~(k > n)
    BY <1>1, <1>2
  <1> QED
    BY <1>2, <1>3, <1>4 DEF RecordAdded

\* A record taken out takes one line away.
LEMMA RemovedIsAdded ==
  ASSUME NEW b \in Block, NEW index \in 0..Len(b.records) - 1
  PROVE  /\ WithoutRecord(b, index) \in Block
         /\ index \in 0..Len(WithoutRecord(b, index).records)
         /\ RecordAdded(WithoutRecord(b, index), b, index)
         /\ InOrder(b.comments) => InOrder(WithoutRecord(b, index).comments)
  <1> DEFINE b2 == WithoutRecord(b, index)
             n == Len(b2.records)
             m == Len(b.comments)
  <1>1. m \in Nat /\ index \in Nat /\ DOMAIN b.comments = 1..m /\ b.comments \in Seq(Comment)
        /\ Len(b.records) \in Nat /\ index <= Len(b.records) - 1
    BY BlockParts
  <1>2. /\ b2 \in Block /\ b2.comments = Shift(b.comments, index, -1)
        /\ Len(b2.records) = Len(b.records) - 1
        /\ \A k \in 1..Len(b.records) - 1 : /\ k <= index => b2.records[k] = b.records[k]
                                            /\ k > index => b2.records[k] = b.records[k + 1]
    BY RemovedRecord
  <1>3. /\ DOMAIN b2.comments = 1..m /\ Len(b2.comments) = m
        /\ \A k \in 1..m : /\ b2.comments[k].text = b.comments[k].text
                           /\ b2.comments[k].before = IF b.comments[k].before > index
                                                      THEN b.comments[k].before + (-1)
                                                      ELSE b.comments[k].before
    <2>1. -1 \in {1, -1} /\ (-1 = 1 => \A k \in DOMAIN b.comments : b.comments[k].before < MaxBefore)
      OBVIOUS
    <2>2. /\ DOMAIN Shift(b.comments, index, -1) = DOMAIN b.comments
          /\ Len(Shift(b.comments, index, -1)) = Len(b.comments)
          /\ \A k \in DOMAIN b.comments :
               /\ Shift(b.comments, index, -1)[k].text = b.comments[k].text
               /\ Shift(b.comments, index, -1)[k].before =
                    IF b.comments[k].before > index THEN b.comments[k].before + (-1)
                    ELSE b.comments[k].before
      BY <1>1, <2>1, Shifted
    <2> QED
      BY <1>1, <1>2, <2>2
  <1> HIDE DEF b2, m
  <1>4. n \in Nat /\ Len(b.records) = n + 1 /\ index <= n
    BY <1>1, <1>2
  <1> HIDE DEF n
  <1>5. \A k \in 1..m : b.comments[k].before \in Nat
    BY Slots DEF m
  <1>6. InOrder(b.comments) => InOrder(b2.comments)
    <2>1. \A i, j \in 1..m : b.comments[i].before <= b.comments[j].before
                                => b2.comments[i].before <= b2.comments[j].before
      <3> TAKE i, j \in 1..m
      <3> DEFINE x == b.comments[i].before
                 y == b.comments[j].before
                 x2 == b2.comments[i].before
                 y2 == b2.comments[j].before
      <3>1. x \in Nat /\ y \in Nat
        BY <1>5
      <3>2. x2 = IF x > index THEN x + (-1) ELSE x
        BY <1>3
      <3>3. y2 = IF y > index THEN y + (-1) ELSE y
        BY <1>3
      <3> HIDE DEF x, y, x2, y2
      <3>4. x <= y => x2 <= y2
        BY <1>1, <3>1, <3>2, <3>3
      <3> QED
        BY <3>4 DEF x, y, x2, y2
    <2> QED
      BY <1>1, <1>3, <2>1 DEF InOrder
  <1>7. ASSUME NEW k \in 1..m
        PROVE  \/ /\ Slot(b, b.comments[k]) = Slot(b2, b2.comments[k])
                  /\ Slot(b2, b2.comments[k]) <= index
               \/ /\ Slot(b, b.comments[k]) = Slot(b2, b2.comments[k]) + 1
                  /\ Slot(b2, b2.comments[k]) >= index
    <2> DEFINE s == Slot(b2, b2.comments[k])
               t == Slot(b, b.comments[k])
               x == b2.comments[k].before
               y == b.comments[k].before
    <2>1. x \in Nat /\ (x <= n => s = x) /\ (x > n => s = n)
      BY <1>2, <1>3, Slots DEF n
    <2>2. y \in Nat /\ (y <= n + 1 => t = y) /\ (y > n + 1 => t = n + 1)
      BY <1>4, Slots DEF m
    <2>3. x = IF y > index THEN y + (-1) ELSE y
      BY <1>3
    <2> HIDE DEF s, t, x, y
    <2>4. (t = s /\ s <= index) \/ (t = s + 1 /\ s >= index)
      BY <1>1, <1>4, <2>1, <2>2, <2>3
    <2> QED
      BY <2>4 DEF s, t
  <1>8. \A k \in 1..n : (k <= index => b.records[k] = b2.records[k])
                        /\ (k > index => b.records[k + 1] = b2.records[k])
    <2>1. Len(b.records) - 1 = n
      BY <1>4
    <2> QED
      BY <1>2, <2>1
  <1>9. RecordAdded(b2, b, index)
    <2>1. Len(b.comments) = Len(b2.comments)
      BY <1>3 DEF m
    <2> QED
      BY <1>3, <1>4, <1>7, <1>8, <2>1 DEF RecordAdded, n
  <1>10. index \in 0..n
    BY <1>1, <1>4
  <1> QED
    BY <1>2, <1>6, <1>9, <1>10 DEF b2, n

\* ix lists the m indices of I in their order.
Picks(I, m, ix) ==
  /\ ix \in [1..m -> I]
  /\ \A j, k \in 1..m : j < k => ix[j] < ix[k]
  /\ \A i \in I : \E k \in 1..m : ix[k] = i

\* Every finite set of indices is listed so.
LEMMA PicksExist ==
  ASSUME NEW I \in SUBSET Nat, IsFiniteSet(I)
  PROVE  Cardinality(I) \in Nat /\ \E ix : Picks(I, Cardinality(I), ix)
  <1> DEFINE list == <<>>
  <1> HIDE DEF list
  <1>1. /\ Cardinality(I) \in Nat
        /\ \E ix \in [1..Cardinality(I) -> I] :
               /\ \A j, k \in 1..Cardinality(I) : j < k => ix[j] < ix[k]
               /\ \A i \in I : \E k \in 1..Cardinality(I) : ix[k] = i
               /\ Part(list, I) = [k \in 1..Cardinality(I) |-> list[ix[k]]]
    BY PartInOrder
  <1> QED
    BY <1>1 DEF Picks

\* The part of a sequence at a set of indices, by such a list of them.
LEMMA PicksGivePart ==
  ASSUME NEW list, NEW I \in SUBSET Nat, NEW m \in Nat, NEW ix, Picks(I, m, ix)
  PROVE  Part(list, I) = [k \in 1..m |-> list[ix[k]]]
  <1>1. /\ ix \in [1..m -> I]
        /\ \A j, k \in 1..m : j < k => ix[j] < ix[k]
        /\ \A i \in I : \E k \in 1..m : ix[k] = i
    BY DEF Picks
  <1> QED
    BY <1>1, PartUnique

\* A sequence without none of its elements, and without some and then some more.
LEMMA WithoutNone ==
  ASSUME NEW n \in Nat, NEW list, list = [k \in 1..n |-> list[k]]
  PROVE  Without(list, {}) = list
  <1> DEFINE ix == [k \in 1..n |-> k]
             I == 1..n
  <1>1. /\ ix \in [1..n -> I] /\ I \in SUBSET Nat
        /\ \A j, k \in 1..n : j < k => ix[j] < ix[k]
        /\ \A j \in I : \E k \in 1..n : ix[k] = j
    OBVIOUS
  <1>2. Without(list, {}) = Part(list, I) /\ (\A k \in 1..n : ix[k] = k) /\ Picks(I, n, ix)
    <2>1. DOMAIN list \ {} = I
      OBVIOUS
    <2> QED
      BY <1>1, <2>1 DEF Without, Picks
  <1>3. n \in Nat /\ I \in SUBSET Nat /\ Picks(I, n, ix)
    BY <1>1, <1>2
  <1> HIDE DEF ix, I
  <1>4. Part(list, I) = [k \in 1..n |-> list[ix[k]]]
    BY ONLY <1>3, PicksGivePart
  <1> QED
    BY <1>2, <1>4

\* What is left after two removals is left after one.
LEMMA WithoutTwice ==
  ASSUME NEW n \in Nat, NEW list, DOMAIN list = 1..n, NEW gone \in SUBSET (1..n),
         NEW more \in SUBSET DOMAIN Without(list, gone)
  PROVE  \E both \in SUBSET (1..n) :
            /\ Without(Without(list, gone), more) = Without(list, both)
            /\ \A i \in both : i \in gone \/ \E j \in more : Without(list, gone)[j] = list[i]
  <1> DEFINE I == 1..n \ gone
             c == Cardinality(I)
             l1 == Without(list, gone)
             J == 1..c \ more
             d == Cardinality(J)
  <1>1. IsFiniteSet(I) /\ I \in SUBSET Nat /\ l1 = Part(list, I)
    <2>1. IsFiniteSet(1..n)
      BY FS_Interval
    <2> QED
      BY <2>1, FS_Subset DEF Without
  <1>2. c \in Nat /\ \E ix : Picks(I, c, ix)
    BY <1>1, PicksExist
  <1>3. PICK ix : Picks(I, c, ix)
    BY <1>2
  <1> HIDE DEF c, I
  <1>4. DOMAIN l1 = 1..c /\ \A k \in 1..c : l1[k] = list[ix[k]]
    <2>1. Part(list, I) = [k \in 1..c |-> list[ix[k]]]
      BY <1>1, <1>2, <1>3, PicksGivePart
    <2> QED
      BY <1>1, <2>1
  <1> HIDE DEF l1
  <1>5. IsFiniteSet(J) /\ J \in SUBSET Nat /\ Without(l1, more) = Part(l1, J)
    <2>1. IsFiniteSet(1..c)
      BY <1>2, FS_Interval
    <2> QED
      BY <1>2, <1>4, <2>1, FS_Subset DEF Without
  <1>6. d \in Nat /\ \E jx : Picks(J, d, jx)
    <2> HIDE DEF J
    <2> QED
      BY <1>5, PicksExist
  <1>7. PICK jx : Picks(J, d, jx)
    BY <1>6
  <1>8. J \subseteq 1..c
    OBVIOUS
  <1> DEFINE K == {ix[j] : j \in J}
             kx == [k \in 1..d |-> ix[jx[k]]]
             both == 1..n \ K
  <1>9. \A k \in 1..d : jx[k] \in J /\ jx[k] \in 1..c /\ kx[k] = ix[jx[k]] /\ kx[k] \in K
    BY <1>7, <1>8 DEF Picks
  <1>10. kx = [k \in 1..d |-> kx[k]] /\ \A j \in J : ix[j] \in K
    OBVIOUS
  <1>11. K \subseteq 1..n /\ \A p \in K : \E j \in J : p = ix[j]
    BY <1>3, <1>8 DEF I, Picks
  <1>12. \A i \in 1..n : i \in gone \/ i \in I
    BY DEF I
  <1> HIDE DEF J, d, K, kx
  <1>13. Picks(K, d, kx)
    <2>1. kx \in [1..d -> K]
      BY <1>9, <1>10
    <2>2. \A j, k \in 1..d : j < k => kx[j] < kx[k]
      BY <1>3, <1>7, <1>9 DEF Picks
    <2>3. \A p \in K : \E k \in 1..d : kx[k] = p
      BY <1>7, <1>9, <1>11 DEF Picks
    <2> QED
      BY <2>1, <2>2, <2>3 DEF Picks
  <1>14. K \in SUBSET Nat
    BY <1>11
  <1>15. Part(list, K) = [k \in 1..d |-> list[kx[k]]]
    BY <1>6, <1>13, <1>14, PicksGivePart
  <1>16. Part(l1, J) = [k \in 1..d |-> l1[jx[k]]]
    BY <1>5, <1>6, <1>7, PicksGivePart
  <1>17. Without(l1, more) = Part(list, K)
    BY <1>4, <1>5, <1>9, <1>15, <1>16
  <1>18. Without(list, both) = Part(list, K)
    <2>1. DOMAIN list \ both = K
      BY <1>11
    <2> QED
      BY <2>1 DEF Without
  <1>19. ASSUME NEW i \in both PROVE i \in gone \/ \E j \in more : l1[j] = list[i]
    <2>1. i \in 1..n /\ i \notin K
      OBVIOUS
    <2>2. CASE i \in I
      <3>1. PICK j \in 1..c : ix[j] = i
        BY <1>3, <2>2 DEF Picks
      <3>2. j \notin J
        BY <1>10, <2>1, <3>1
      <3>3. j \in more
        BY <3>2 DEF J
      <3> QED
        BY <1>4, <3>1, <3>3
    <2> QED
      BY <1>12, <2>1, <2>2
  <1>20. both \in SUBSET (1..n) /\ Without(l1, more) = Without(list, both)
    BY <1>17, <1>18
  <1> HIDE DEF both
  <1> QED
    BY <1>19, <1>20 DEF l1

\* What of a section survives the removal of some of its records.
RecordIndices(ls) == {i \in DOMAIN ls : ~ls[i].comment}

\* The comments keep their texts, and of the lines and of the records some are gone.
Survives(b, b2) ==
  /\ b2 \in Block
  /\ Len(b2.comments) = Len(b.comments)
  /\ \A i \in 1..Len(b.comments) : b2.comments[i].text = b.comments[i].text
  /\ InOrder(b.comments) =>
        /\ InOrder(b2.comments)
        /\ \E gone \in SUBSET RecordIndices(LinesOf(b)) :
              LinesOf(b2) = Without(LinesOf(b), gone)
  /\ \E gone \in SUBSET DOMAIN RecordLines(b.records) :
        RecordLines(b2.records) = Without(RecordLines(b.records), gone)

\* Lines as a function of their number.
LEMMA LinesAreListed ==
  ASSUME NEW b \in Block
  PROVE  /\ LinesOf(b) = [k \in 1..Cardinality(Places(b)) |-> LinesOf(b)[k]]
         /\ DOMAIN RecordLines(b.records) = 1..Len(b.records) /\ Len(b.records) \in Nat
         /\ RecordLines(b.records) = [k \in 1..Len(b.records) |-> RecordLines(b.records)[k]]
  <1>1. LinesOf(b) = [k \in DOMAIN LinesOf(b) |-> LinesOf(b)[k]]
    BY DEF LinesOf
  <1>2. DOMAIN LinesOf(b) = 1..Cardinality(Places(b))
    BY LinesLength
  <1>3. DOMAIN RecordLines(b.records) = 1..Len(b.records) /\ Len(b.records) \in Nat
    BY BlockParts DEF RecordLines
  <1>4. RecordLines(b.records) = [k \in 1..Len(b.records) |-> RecordLines(b.records)[k]]
    BY DEF RecordLines
  <1> QED
    BY <1>1, <1>2, <1>3, <1>4

\* A section nothing was removed from.
LEMMA AllSurvives ==
  ASSUME NEW b \in Block
  PROVE  Survives(b, b)
  <1> DEFINE ls == LinesOf(b)
             rs == RecordLines(b.records)
  <1>1. /\ Cardinality(Places(b)) \in Nat
        /\ ls = [k \in 1..Cardinality(Places(b)) |-> ls[k]]
    BY LinesLength, LinesAreListed
  <1>2. Len(b.records) \in Nat /\ rs = [k \in 1..Len(b.records) |-> rs[k]]
    BY LinesAreListed
  <1> HIDE DEF ls, rs
  <1>3. Without(ls, {}) = ls
    BY <1>1, WithoutNone
  <1>4. Without(rs, {}) = rs
    BY <1>2, WithoutNone
  <1>5. {} \in SUBSET RecordIndices(ls) /\ {} \in SUBSET DOMAIN rs
    OBVIOUS
  <1>6. \E gone \in SUBSET RecordIndices(ls) : ls = Without(ls, gone)
    BY <1>3, <1>5
  <1>7. \E gone \in SUBSET DOMAIN rs : rs = Without(rs, gone)
    BY <1>4, <1>5
  <1> QED
    BY <1>6, <1>7 DEF Survives, ls, rs

\* A section one record was removed from.
LEMMA OneRemoved ==
  ASSUME NEW b \in Block, NEW index \in 0..Len(b.records) - 1
  PROVE  Survives(b, WithoutRecord(b, index))
  <1> DEFINE b2 == WithoutRecord(b, index)
  <1>1. /\ b2 \in Block /\ index \in 0..Len(b2.records) /\ RecordAdded(b2, b, index)
        /\ InOrder(b.comments) => InOrder(b2.comments)
    BY RemovedIsAdded
  <1> HIDE DEF b2
  <1>2. ASSUME InOrder(b.comments)
        PROVE  \E gone \in SUBSET RecordIndices(LinesOf(b)) :
                  LinesOf(b2) = Without(LinesOf(b), gone)
    <2>1. PICK i \in DOMAIN LinesOf(b) :
            ~LinesOf(b)[i].comment /\ Without(LinesOf(b), {i}) = LinesOf(b2)
      BY <1>1, <1>2, LineAdded
    <2>2. {i} \in SUBSET RecordIndices(LinesOf(b))
      BY <2>1 DEF RecordIndices
    <2> QED
      BY <2>1, <2>2
  <1>3. \E gone \in SUBSET DOMAIN RecordLines(b.records) :
           RecordLines(b2.records) = Without(RecordLines(b.records), gone)
    <2>1. /\ index + 1 \in DOMAIN RecordLines(b.records)
          /\ Without(RecordLines(b.records), {index + 1}) = RecordLines(b2.records)
      BY <1>1, RecordLinesAdded
    <2>2. {index + 1} \in SUBSET DOMAIN RecordLines(b.records)
      BY <2>1
    <2> QED
      BY <2>1, <2>2
  <1>4. /\ Len(b2.comments) = Len(b.comments)
        /\ \A i \in 1..Len(b.comments) : b2.comments[i].text = b.comments[i].text
    BY <1>1 DEF RecordAdded
  <1> QED
    BY <1>1, <1>2, <1>3, <1>4 DEF Survives, b2

\* Removals after removals.
LEMMA SurvivesTwice ==
  ASSUME NEW b \in Block, NEW b2, NEW b3, Survives(b, b2), Survives(b2, b3)
  PROVE  Survives(b, b3)
  <1>1. b2 \in Block /\ b3 \in Block
    BY DEF Survives
  <1>2. /\ Len(b3.comments) = Len(b.comments)
        /\ \A i \in 1..Len(b.comments) : b3.comments[i].text = b.comments[i].text
    BY DEF Survives
  <1>3. ASSUME InOrder(b.comments)
        PROVE  /\ InOrder(b3.comments)
               /\ \E gone \in SUBSET RecordIndices(LinesOf(b)) :
                     LinesOf(b3) = Without(LinesOf(b), gone)
    <2> DEFINE ls == LinesOf(b)
               ls2 == LinesOf(b2)
               ls3 == LinesOf(b3)
               N == Cardinality(Places(b))
    <2>1. InOrder(b2.comments) /\ InOrder(b3.comments)
      BY <1>3 DEF Survives
    <2>2. PICK gone \in SUBSET RecordIndices(ls) : ls2 = Without(ls, gone)
      BY <1>3 DEF Survives
    <2>3. PICK more \in SUBSET RecordIndices(ls2) : ls3 = Without(ls2, more)
      BY <2>1 DEF Survives
    <2>4. N \in Nat /\ DOMAIN ls = 1..N
      BY LinesLength
    <2> HIDE DEF ls, ls2, ls3, N
    <2>5. gone \in SUBSET (1..N) /\ more \in SUBSET DOMAIN Without(ls, gone)
      BY <2>2, <2>3, <2>4 DEF RecordIndices
    <2>6. PICK both \in SUBSET (1..N) :
            /\ Without(Without(ls, gone), more) = Without(ls, both)
            /\ \A i \in both : i \in gone \/ \E j \in more : Without(ls, gone)[j] = ls[i]
      BY <2>4, <2>5, WithoutTwice
    <2>7. both \in SUBSET RecordIndices(ls)
      <3> SUFFICES ASSUME NEW i \in both PROVE i \in RecordIndices(ls)
        OBVIOUS
      <3>1. i \in DOMAIN ls
        BY <2>4, <2>6
      <3>2. CASE i \in gone
        BY <2>2, <3>2
      <3>3. ASSUME NEW j \in more, Without(ls, gone)[j] = ls[i] PROVE i \in RecordIndices(ls)
        <4>1. ~ls2[j].comment
          BY <2>3 DEF RecordIndices
        <4>2. ~ls[i].comment
          BY <2>2, <3>3, <4>1
        <4> QED
          BY <3>1, <4>2 DEF RecordIndices
      <3> QED
        BY <2>6, <3>2, <3>3
    <2>8. ls3 = Without(ls, both)
      BY <2>2, <2>3, <2>6
    <2> QED
      BY <2>1, <2>7, <2>8 DEF ls, ls3
  <1>4. \E gone \in SUBSET DOMAIN RecordLines(b.records) :
           RecordLines(b3.records) = Without(RecordLines(b.records), gone)
    <2> DEFINE rs == RecordLines(b.records)
               rs2 == RecordLines(b2.records)
               rs3 == RecordLines(b3.records)
               n == Len(b.records)
    <2>1. PICK gone \in SUBSET DOMAIN rs : rs2 = Without(rs, gone)
      BY DEF Survives
    <2>2. PICK more \in SUBSET DOMAIN rs2 : rs3 = Without(rs2, more)
      BY DEF Survives
    <2>3. n \in Nat /\ DOMAIN rs = 1..n
      BY LinesAreListed
    <2> HIDE DEF rs, rs2, rs3, n
    <2>4. gone \in SUBSET (1..n) /\ more \in SUBSET DOMAIN Without(rs, gone)
      BY <2>1, <2>2, <2>3
    <2>5. PICK both \in SUBSET (1..n) : Without(Without(rs, gone), more) = Without(rs, both)
      BY <2>3, <2>4, WithoutTwice
    <2> QED
      BY <2>1, <2>2, <2>3, <2>5 DEF rs, rs3
  <1> QED
    BY <1>1, <1>2, <1>3, <1>4 DEF Survives

\* Every record of a key taken out.
LEMMA ScalarRemoved ==
  ASSUME NEW b \in Block, NEW key
  PROVE  Survives(b, WithoutScalar(b, key))
  <1> DEFINE n == Len(b.records)
  <1>1. PICK left \in [0..n -> Block] :
            /\ left[0] = b
            /\ \A k \in 1..n :
                  \/ left[k] = left[k - 1]
                  \/ /\ n - k \in 0..Len(left[k - 1].records) - 1
                     /\ left[k] = WithoutRecord(left[k - 1], n - k)
            /\ WithoutScalar(b, key) = left[n]
    BY RemovedOneByOne
  <1>2. n \in Nat
    BY BlockParts
  <1> HIDE DEF n
  <1> DEFINE S == {k \in 0..n : Survives(b, left[k])}
  <1>3. 0 \in S
    BY <1>1, <1>2, AllSurvives
  <1>4. ASSUME NEW k \in 0..n - 1, k \in S PROVE k + 1 \in S
    <2>1. k + 1 \in 1..n /\ k + 1 \in 0..n /\ (k + 1) - 1 = k /\ k \in 0..n
      BY <1>2
    <2>2. left[k] \in Block /\ Survives(b, left[k])
      BY <1>1, <1>4, <2>1
    <2>3. \/ left[k + 1] = left[k]
          \/ /\ n - (k + 1) \in 0..Len(left[k].records) - 1
             /\ left[k + 1] = WithoutRecord(left[k], n - (k + 1))
      BY <1>1, <2>1
    <2>4. Survives(left[k], left[k + 1])
      BY <2>2, <2>3, AllSurvives, OneRemoved
    <2>5. Survives(b, left[k + 1])
      BY <2>2, <2>4, SurvivesTwice
    <2> QED
      BY <2>1, <2>5
  <1>5. S \subseteq 0..n /\ (n \in S => Survives(b, left[n]))
    OBVIOUS
  <1> HIDE DEF S
  <1>6. 0..n \subseteq S
    BY <1>2, <1>3, <1>4, InductFrom
  <1>7. n \in 0..n
    BY <1>2
  <1> QED
    BY <1>1, <1>5, <1>6, <1>7

\* A comment put into a section whose comments are in order adds one line.
LEMMA CommentAdded ==
  ASSUME NEW b \in Block, NEW x \in Comment
  PROVE  /\ InOrder(WithComment(b, x).comments)
         /\ InOrder(b.comments) =>
               \E i \in DOMAIN LinesOf(WithComment(b, x)) :
                  /\ LinesOf(WithComment(b, x))[i].comment
                  /\ Without(LinesOf(WithComment(b, x)), {i}) = LinesOf(b)
         /\ Doc!ToSet(Doc!Comments(LinesOf(b)))
               \subseteq Doc!ToSet(Doc!Comments(LinesOf(WithComment(b, x))))
  <1> DEFINE b2 == WithComment(b, x)
             m == Len(b.comments)
             n == Len(b.records)
             M == m + 1
             pushed == Append(b.comments, x)
  <1>1. m \in Nat /\ n \in Nat /\ M \in Nat /\ b.comments \in Seq(Comment)
    BY BlockParts
  <1>2. /\ \A i \in 1..m : pushed[i] = b.comments[i]
        /\ \A i \in 1..M : pushed[i].before \in Nat
    <2>1. \A i \in 1..m : pushed[i] = b.comments[i]
      BY <1>1
    <2>2. pushed[M] = x
      BY <1>1
    <2>3. x.before \in Nat
      <3>1. x.before \in 0..MaxBefore
        BY DEF Comment
      <3> QED
        BY <3>1, EditingAssumption
    <2>4. \A i \in 1..m : b.comments[i].before \in Nat
      BY Slots
    <2>5. \A i \in 1..M : i \in 1..m \/ i = M
      BY <1>1
    <2> HIDE DEF pushed
    <2> QED
      BY <2>1, <2>2, <2>3, <2>4, <2>5
  <1>3. PICK at \in [1..M -> 1..M] :
            /\ b2.comments = [k \in 1..M |-> pushed[at[k]]]
            /\ \A j, k \in 1..M : j < k =>
                  \/ pushed[at[j]].before < pushed[at[k]].before
                  \/ pushed[at[j]].before = pushed[at[k]].before /\ at[j] < at[k]
            /\ \A i \in 1..M : \E k \in 1..M : at[k] = i
    BY AddedComment
  <1>4. b2 \in Block /\ b2.records = b.records
    BY AddedComment
  <1> HIDE DEF b2, pushed
  <1>5. DOMAIN b2.comments = 1..M /\ Len(b2.comments) = M
    <2>1. DOMAIN b2.comments = 1..M
      BY <1>3
    <2>2. DOMAIN b2.comments = 1..Len(b2.comments) /\ Len(b2.comments) \in Nat
      BY <1>4, BlockParts
    <2> QED
      BY <1>1, <2>1, <2>2
  <1>6. \A k \in 1..M : at[k] \in 1..M /\ b2.comments[k] = pushed[at[k]]
    BY <1>3
  <1> HIDE DEF M
  <1>7. InOrder(b2.comments)
    <2> SUFFICES ASSUME NEW i \in 1..M, NEW j \in 1..M, i < j
                 PROVE  b2.comments[i].before <= b2.comments[j].before
      BY <1>5 DEF InOrder
    <2>1. /\ b2.comments[i] = pushed[at[i]] /\ b2.comments[j] = pushed[at[j]]
          /\ pushed[at[i]].before \in Nat /\ pushed[at[j]].before \in Nat
      BY <1>2, <1>6
    <2>2. \/ pushed[at[i]].before < pushed[at[j]].before
          \/ pushed[at[i]].before = pushed[at[j]].before
      BY <1>3
    <2>3. pushed[at[i]].before <= pushed[at[j]].before
      BY <2>1, <2>2
    <2> QED
      BY <2>1, <2>3
  <1>8. \A j, k \in 1..M : at[j] = at[k] => j = k
    <2>1. ASSUME NEW j \in 1..M, NEW k \in 1..M, j < k PROVE at[j] # at[k]
      <3>1. pushed[at[j]].before \in Nat /\ pushed[at[k]].before \in Nat /\ at[j] \in 1..M /\ at[k] \in 1..M
        BY <1>2, <1>6
      <3>2. \/ pushed[at[j]].before < pushed[at[k]].before
            \/ at[j] < at[k]
        BY <1>3, <2>1
      <3> QED
        BY <1>1, <3>1, <3>2
    <2> QED
      BY <1>1, <2>1
  <1> DEFINE c == [i \in 1..m |-> CHOOSE k \in 1..M : at[k] = i]
  <1>9. \A i \in 1..m : c[i] \in 1..M /\ at[c[i]] = i
    <2> TAKE i \in 1..m
    <2>1. i \in 1..M
      BY <1>1 DEF M
    <2>2. \E k \in 1..M : at[k] = i
      BY <1>3, <2>1
    <2> QED
      BY <2>2
  <1>10. c = [i \in 1..m |-> c[i]]
    OBVIOUS
  <1> HIDE DEF c
  <1>11. \A i \in 1..m : b2.comments[c[i]] = b.comments[i]
    BY <1>2, <1>6, <1>9
  <1>12. ASSUME InOrder(b.comments)
         PROVE  \E i \in DOMAIN LinesOf(b2) :
                   LinesOf(b2)[i].comment /\ Without(LinesOf(b2), {i}) = LinesOf(b)
    <2> DEFINE r == [k \in 1..n |-> k]
    <2>1. r \in [1..n -> 1..n] /\ \A k \in 1..n : r[k] = k
      OBVIOUS
    <2> HIDE DEF r
    <2>2. PICK q \in 1..M : at[q] = M
      <3>1. M \in 1..M
        BY <1>1 DEF M
      <3> QED
        BY <1>3, <3>1
    <2> DEFINE new == CommentPlace(b2, q)
    <2>3. \A i, j \in 1..m : i < j => c[i] < c[j]
      <3> SUFFICES ASSUME NEW i \in 1..m, NEW j \in 1..m, i < j, ~(c[i] < c[j]) PROVE FALSE
        OBVIOUS
      <3>1. /\ c[i] \in 1..M /\ c[j] \in 1..M /\ at[c[i]] = i /\ at[c[j]] = j
            /\ pushed[i] = b.comments[i] /\ pushed[j] = b.comments[j]
        BY <1>2, <1>9
      <3>2. c[j] < c[i]
        <4>1. c[i] # c[j]
          BY <3>1
        <4>2. c[i] \in 1..M /\ c[j] \in 1..M
          BY <3>1
        <4>3. c[i] \in Nat /\ c[j] \in Nat
          BY <1>1, <4>2
        <4> QED
          BY <4>1, <4>3
      <3>3. \/ b.comments[j].before < b.comments[i].before
            \/ b.comments[j].before = b.comments[i].before /\ j < i
        <4>1. \/ pushed[at[c[j]]].before < pushed[at[c[i]]].before
              \/ /\ pushed[at[c[j]]].before = pushed[at[c[i]]].before
                 /\ at[c[j]] < at[c[i]]
          <5>1. c[j] \in 1..M /\ c[i] \in 1..M
            BY <3>1
          <5> QED
            BY ONLY <1>3, <3>2, <5>1
        <4>2. at[c[i]] = i /\ at[c[j]] = j /\ pushed[i] = b.comments[i] /\ pushed[j] = b.comments[j]
          BY <3>1
        <4> QED
          BY ONLY <4>1, <4>2
      <3>4. b.comments[i].before <= b.comments[j].before
        BY <1>12, BlockParts DEF InOrder
      <3>5. b.comments[i].before \in Nat /\ b.comments[j].before \in Nat
        BY Slots
      <3> QED
        BY <1>1, <3>3, <3>4, <3>5
    <2>4. Within(b, b2, c, r)
      <3>1. c \in [1..m -> 1..Len(b2.comments)] /\ r \in [1..n -> 1..Len(b2.records)]
        BY <1>4, <1>5, <1>9, <1>10, <2>1
      <3>2. \A i, j \in 1..m : Precedes(CommentPlace(b, i), CommentPlace(b, j))
                                  => Precedes(CommentPlace(b2, c[i]), CommentPlace(b2, c[j]))
        <4> SUFFICES ASSUME NEW i \in 1..m, NEW j \in 1..m,
                            Precedes(CommentPlace(b, i), CommentPlace(b, j))
                     PROVE  Precedes(CommentPlace(b2, c[i]), CommentPlace(b2, c[j]))
          OBVIOUS
        <4>1. i < j
          BY <1>12, CommentPlacesTell
        <4>2. c[i] < c[j] /\ c[i] \in 1..Len(b2.comments) /\ c[j] \in 1..Len(b2.comments)
          BY <1>5, <1>9, <2>3, <4>1
        <4> QED
          BY <1>4, <1>7, <4>2, CommentPlacesInOrder
      <3>3. \A k, l \in 1..n : k < l => r[k] < r[l]
        BY <2>1
      <3>4. ASSUME NEW i \in 1..m, NEW k \in 1..n
            PROVE  /\ Slot(b, b.comments[i]) < k => Slot(b2, b2.comments[c[i]]) < r[k]
                   /\ k <= Slot(b, b.comments[i]) => r[k] <= Slot(b2, b2.comments[c[i]])
        <4>1. Slot(b2, b2.comments[c[i]]) = Slot(b, b.comments[i]) /\ r[k] = k
          BY <1>4, <1>11, <2>1 DEF Slot
        <4> QED
          BY <4>1
      <3>5. \A i \in 1..m : CommentLine(b2.comments[c[i]]) = CommentLine(b.comments[i])
        BY <1>11
      <3>6. \A k \in 1..n : RecordLine(b2.records[r[k]]) = RecordLine(b.records[k])
        BY <1>4, <2>1
      <3> QED
        BY <3>1, <3>2, <3>3, <3>4, <3>5, <3>6 DEF Within
    <2>5. \A i \in 1..m : CommentPlace(b2, c[i]) # new
      <3> TAKE i \in 1..m
      <3>1. c[i] # q
        BY <1>1, <1>9, <2>2 DEF M
      <3> QED
        BY <3>1 DEF CommentPlace
    <2>6. \A k \in 1..n : RecordPlace(r[k]) # new
      BY <1>4, <1>5, <2>1, <2>2, PlacesBySlot
    <2>7. \A p \in Places(b2) : \/ p = new
                                \/ \E i \in 1..m : p = CommentPlace(b2, c[i])
                                \/ \E k \in 1..n : p = RecordPlace(r[k])
      <3> TAKE p \in Places(b2)
      <3>1. ASSUME NEW k \in 1..M, p = CommentPlace(b2, k)
            PROVE  p = new \/ \E i \in 1..m : p = CommentPlace(b2, c[i])
        <4>1. CASE at[k] = M
          BY <1>8, <2>2, <3>1, <4>1
        <4>2. CASE at[k] # M
          <5>1. at[k] \in 1..m
            <6>1. at[k] \in 1..M
              BY <1>6
            <6> QED
              BY <1>1, <4>2, <6>1 DEF M
          <5>2. c[at[k]] = k
            BY <1>8, <1>9, <5>1
          <5> QED
            BY <3>1, <5>1, <5>2
        <4> QED
          BY <4>1, <4>2
      <3>2. ASSUME NEW k \in 1..n, p = RecordPlace(k)
            PROVE  \E l \in 1..n : p = RecordPlace(r[l])
        BY <2>1, <3>2
      <3>3. \/ \E k \in 1..M : p = CommentPlace(b2, k)
            \/ \E k \in 1..n : p = RecordPlace(k)
        BY <1>4, <1>5, PlacesOf
      <3> HIDE DEF new
      <3> QED
        BY <3>1, <3>2, <3>3
    <2>8. new \in Places(b2)
      BY <1>4, <1>5, PlacesOf
    <2>9. OneLineAdded(b, b2, c, r, new)
      <3> HIDE DEF new
      <3> QED
        BY <2>4, <2>5, <2>6, <2>7, <2>8 DEF OneLineAdded
    <2>10. Places(b2) \in SUBSET Place /\ IsFiniteSet(Places(b2))
      BY <1>4, PlacesOf, PlacesFinite
    <2>11. PICK i \in 1..Cardinality(Places(b2)) : Listed[Places(b2)][i] = new
      BY <2>8, <2>10, ListedInOrder
    <2>12. DOMAIN LinesOf(b2) = 1..Cardinality(Places(b2))
      BY <1>4, LinesLength
    <2>13. LinesOf(b2)[i].comment
      BY <1>4, <1>5, <2>11, KindsOfLines
    <2>14. Without(LinesOf(b2), {i}) = LinesOf(b)
      <3> HIDE DEF new
      <3> QED
        BY <1>4, <2>9, <2>11, OneLineMore
    <2> QED
      BY <2>12, <2>13, <2>14
  <1>13. Doc!ToSet(Doc!Comments(LinesOf(b))) \subseteq Doc!ToSet(Doc!Comments(LinesOf(b2)))
    <2>1. Doc!ToSet(Doc!Comments(LinesOf(b))) = {CommentLine(b.comments[i]) : i \in 1..m}
      BY CommentsOfLines
    <2>2. Doc!ToSet(Doc!Comments(LinesOf(b2))) = {CommentLine(b2.comments[k]) : k \in 1..M}
      BY <1>4, <1>5, CommentsOfLines
    <2>3. \A i \in 1..m : c[i] \in 1..M /\ CommentLine(b2.comments[c[i]]) = CommentLine(b.comments[i])
      BY <1>9, <1>11
    <2> QED
      BY <2>1, <2>2, <2>3
  <1> QED
    BY <1>7, <1>12, <1>13 DEF b2

\* Every edit keeps the document's promise for it.
LEMMA InsertsRecord ==
  ASSUME block \in Block, NEW b \in Block, Edited("insert", b), Promised(block, b),
         InOrder(b.comments) <=> InOrder(block.comments)
  PROVE  Doc!InsertRecord
  <1>1. block' = b /\ method' = "insert"
    BY DEF Edited
  <1>2. LinesOf(block)' = LinesOf(b) /\ (InOrder(block.comments)' <=> InOrder(b.comments))
    BY <1>1
  <1>3. InOrder(block.comments)' = InOrder(block.comments)
    BY <1>2 DEF InOrder
  <1> QED
    BY <1>1, <1>2, <1>3 DEF Doc!InsertRecord, Promised, Doc!SameCommentSet

\* A step that removes records is one the document allows.
LEMMA RemovesRecords ==
  ASSUME block \in Block, NEW b, Edited("remove", b), Survives(block, b)
  PROVE  Doc!RemoveRecords
  <1>1. block' = b /\ method' = "remove" /\ b \in Block
    BY DEF Edited, Survives
  <1>2. LinesOf(block)' = LinesOf(b) /\ (InOrder(block.comments)' <=> InOrder(b.comments))
    BY <1>1
  <1>3. InOrder(block.comments) => InOrder(b.comments)
    BY DEF Survives
  <1>4. CASE InOrder(block.comments)
    <2>1. PICK gone \in SUBSET RecordIndices(LinesOf(block)) :
             LinesOf(b) = Without(LinesOf(block), gone)
      BY <1>4 DEF Survives
    <2>2. gone \in SUBSET {i \in DOMAIN LinesOf(block) : ~LinesOf(block)[i].comment}
      BY DEF RecordIndices
    <2>3. LinesOf(block)' = Doc!Without(LinesOf(block), gone)
      BY <1>2, <2>1, DocumentOperators
    <2> QED
      BY <1>1, <1>2, <1>3, <2>2, <2>3 DEF Doc!RemoveRecords
  <1>5. CASE ~InOrder(block.comments)
    <2>1. PICK gone \in SUBSET DOMAIN RecordLines(block.records) :
             RecordLines(b.records) = Without(RecordLines(block.records), gone)
      BY DEF Survives
    <2>2. /\ Doc!Records(LinesOf(block)) = RecordLines(block.records)
          /\ Doc!Records(LinesOf(b)) = RecordLines(b.records)
      BY <1>1, RecordsOfLines
    <2>3. /\ gone \in SUBSET DOMAIN Doc!Records(LinesOf(block))
          /\ Doc!Records(LinesOf(b)) = Doc!Without(Doc!Records(LinesOf(block)), gone)
      BY <2>1, <2>2, DocumentOperators
    <2>4. Doc!ToSet(Doc!Comments(LinesOf(b))) = Doc!ToSet(Doc!Comments(LinesOf(block)))
      BY <1>1, SameTexts DEF Survives
    <2>5. Doc!SameCommentSet
      BY <1>2, <2>4 DEF Doc!SameCommentSet
    <2>6. Doc!Records(LinesOf(block)') = Doc!Without(Doc!Records(LinesOf(block)), gone)
      BY <1>2, <2>3
    <2> QED
      BY <1>1, <1>2, <1>3, <1>5, <2>3, <2>5, <2>6 DEF Doc!RemoveRecords
  <1> QED
    BY <1>4, <1>5

\* A step that adds a comment is one the document allows.
LEMMA AddsComment ==
  ASSUME block \in Block, NEW x \in Comment, Edited("comment", WithComment(block, x))
  PROVE  Doc!AddComment
  <1> DEFINE b == WithComment(block, x)
  <1>1. block' = b /\ method' = "comment" /\ b \in Block /\ b.records = block.records
    BY AddedComment DEF Edited
  <1>2. /\ InOrder(b.comments)
        /\ InOrder(block.comments) =>
             \E i \in DOMAIN LinesOf(b) :
                LinesOf(b)[i].comment /\ Without(LinesOf(b), {i}) = LinesOf(block)
        /\ Doc!ToSet(Doc!Comments(LinesOf(block))) \subseteq Doc!ToSet(Doc!Comments(LinesOf(b)))
    BY CommentAdded
  <1> HIDE DEF b
  <1>3. LinesOf(block)' = LinesOf(b) /\ (InOrder(block.comments)' <=> InOrder(b.comments))
    BY <1>1
  <1>4. CASE InOrder(block.comments)
    <2>1. PICK i \in DOMAIN LinesOf(b) :
             LinesOf(b)[i].comment /\ Without(LinesOf(b), {i}) = LinesOf(block)
      BY <1>2, <1>4
    <2>2. Doc!OneMore(LinesOf(block), LinesOf(b), i)
      BY <2>1, DocumentOperators DEF Doc!OneMore
    <2> QED
      BY <1>1, <1>2, <1>3, <2>1, <2>2 DEF Doc!AddComment
  <1>5. CASE ~InOrder(block.comments)
    <2>1. Doc!Records(LinesOf(b)) = Doc!Records(LinesOf(block))
      BY <1>1, RecordsOfLines
    <2> QED
      BY <1>1, <1>2, <1>3, <1>5, <2>1 DEF Doc!AddComment
  <1> QED
    BY <1>4, <1>5

\* A step that assigns the records is one the document allows.
LEMMA ReplacesRecords ==
  ASSUME block \in Block, NEW b \in Block, Edited("records", b), b.comments = block.comments
  PROVE  Doc!ReplaceRecords
  <1>1. block' = b /\ method' = "records"
    BY DEF Edited
  <1>2. LinesOf(block)' = LinesOf(b) /\ InOrder(block.comments)' = InOrder(block.comments)
    BY <1>1
  <1>3. InOrder(block.comments) => Doc!Comments(LinesOf(b)) = Doc!Comments(LinesOf(block))
    BY CommentsOfLines
  <1>4. Doc!ToSet(Doc!Comments(LinesOf(b))) = Doc!ToSet(Doc!Comments(LinesOf(block)))
    BY CommentsOfLines
  <1> QED
    BY <1>1, <1>2, <1>3, <1>4 DEF Doc!ReplaceRecords, Doc!SameCommentSet

\* A step that assigns the comments is one the document allows.
LEMMA ReplacesComments ==
  ASSUME block \in Block, NEW b \in Block, Edited("comments", b), b.records = block.records
  PROVE  Doc!ReplaceComments
  <1>1. block' = b /\ method' = "comments"
    BY DEF Edited
  <1>2. LinesOf(block)' = LinesOf(b)
    BY <1>1
  <1>3. Doc!Records(LinesOf(b)) = Doc!Records(LinesOf(block))
    BY RecordsOfLines
  <1> QED
    BY <1>1, <1>2, <1>3 DEF Doc!ReplaceComments

\* A step that writes values over records is one the document allows.
LEMMA WritesValues ==
  ASSUME block \in Block, NEW b \in Block, Edited("write", b),
         b.comments = block.comments, Len(b.records) = Len(block.records),
         \A i \in 1..Len(block.records) : b.records[i].key = block.records[i].key
  PROVE  Doc!WriteValues
  <1> DEFINE ls == LinesOf(block)
             ls2 == LinesOf(b)
             P == Places(block)
  <1>1. block' = b /\ method' = "write"
    BY DEF Edited
  <1>2. LinesOf(block)' = ls2 /\ InOrder(block.comments)' = InOrder(block.comments)
    BY <1>1
  <1>3. Places(b) = P
    <2>1. \A i \in 1..Len(block.comments) : CommentPlace(b, i) = CommentPlace(block, i)
      BY DEF CommentPlace, Slot
    <2>2. Places(b) = {CommentPlace(b, i) : i \in 1..Len(block.comments)}
                      \union {RecordPlace(k) : k \in 1..Len(block.records)}
      BY BlockParts DEF Places
    <2>3. Places(block) = {CommentPlace(block, i) : i \in 1..Len(block.comments)}
                          \union {RecordPlace(k) : k \in 1..Len(block.records)}
      BY BlockParts DEF Places
    <2> QED
      BY <2>1, <2>2, <2>3
  <1>4. DOMAIN ls = 1..Cardinality(P) /\ DOMAIN ls2 = 1..Cardinality(P)
    BY <1>3, LinesLength
  <1>5. ASSUME NEW k \in DOMAIN ls
        PROVE  \/ ls2[k] = ls[k]
               \/ ~ls[k].comment /\ ls2[k] = [ls[k] EXCEPT !.value = ls2[k].value]
    <2> DEFINE p == Listed[P][k]
    <2>1. p \in P /\ ls[k] = LineFn(block)[p] /\ ls2[k] = LineFn(b)[p]
      <3>1. P \in SUBSET Place /\ IsFiniteSet(P) /\ k \in 1..Cardinality(P)
        BY <1>4, PlacesOf, PlacesFinite
      <3>2. p \in P
        BY <3>1, ListedInOrder
      <3>3. ls = Shown(P, LineFn(block)) /\ ls2 = Shown(P, LineFn(b))
        BY <1>3, LinesAtPlaces
      <3>4. /\ Shown(P, LineFn(block))[k] = LineFn(block)[Listed[P][k]]
            /\ Shown(P, LineFn(b))[k] = LineFn(b)[Listed[P][k]]
        BY <3>1, ShownIs
      <3> QED
        BY <3>2, <3>3, <3>4
    <2> HIDE DEF p, ls, ls2
    <2>2. ASSUME NEW i \in 1..Len(block.comments), p = CommentPlace(block, i)
          PROVE  ls2[k] = ls[k]
      <3>1. CommentPlace(b, i) = CommentPlace(block, i)
        BY DEF CommentPlace, Slot
      <3>2. LineFn(b)[CommentPlace(b, i)] = CommentLine(block.comments[i])
        BY LinesAtPlaces
      <3>3. LineFn(block)[CommentPlace(block, i)] = CommentLine(block.comments[i])
        BY LinesAtPlaces
      <3> QED
        BY <2>1, <2>2, <3>1, <3>2, <3>3
    <2>3. ASSUME NEW i \in 1..Len(block.records), p = RecordPlace(i)
          PROVE  ~ls[k].comment /\ ls2[k] = [ls[k] EXCEPT !.value = ls2[k].value]
      <3>1. LineFn(b)[RecordPlace(i)] = RecordLine(b.records[i])
        BY LinesAtPlaces
      <3>2. LineFn(block)[RecordPlace(i)] = RecordLine(block.records[i])
        BY LinesAtPlaces
      <3>3. ls2[k] = RecordLine(b.records[i]) /\ ls[k] = RecordLine(block.records[i])
        BY <2>1, <2>3, <3>1, <3>2
      <3>4. b.records[i].key = block.records[i].key
        OBVIOUS
      <3>5. RecordLine(b.records[i])
               = [RecordLine(block.records[i]) EXCEPT !.value = RecordLine(b.records[i]).value]
        <4> DEFINE k1 == block.records[i].key
                   v == block.records[i].value
                   w == b.records[i].value
                   x == RecordLine(block.records[i])
                   y == RecordLine(b.records[i])
        <4>1. x = [comment |-> FALSE, key |-> k1, value |-> v]
          BY DEF RecordLine
        <4>2. y = [comment |-> FALSE, key |-> k1, value |-> w] /\ y.value = w
          BY <3>4 DEF RecordLine
        <4> HIDE DEF k1, v, w, x, y
        <4>3. \A c : [comment |-> c, key |-> k1, value |-> w]
                 = [[comment |-> c, key |-> k1, value |-> v] EXCEPT !.value = w]
          OBVIOUS
        <4>4. y = [x EXCEPT !.value = y.value]
          BY ONLY <4>1, <4>2, <4>3, Zenon
        <4> QED
          BY <4>4 DEF x, y
      <3>6. ~RecordLine(block.records[i]).comment
        BY DEF RecordLine
      <3> QED
        BY <3>3, <3>5, <3>6
    <2> QED
      BY <2>1, <2>2, <2>3, PlacesOf DEF P
  <1> HIDE DEF ls2
  <1> QED
    BY <1>1, <1>2, <1>4, <1>5 DEF Doc!WriteValues, ls

\* A refused edit changes nothing.
LEMMA Refuses == Refused => Doc!Refuse
  BY DEF Refused, Doc!Refuse

\* The record put in, wherever a method puts it.
LEMMA RecordPutIn ==
  ASSUME EditTypeOK, NEW index \in 0..Len(block.records), NEW r \in Record, Room,
         Edited("insert", WithRecord(block, index, r))
  PROVE  Doc!InsertRecord
  <1> DEFINE b == WithRecord(block, index, r)
  <1>1. block \in Block /\ b \in Block
    BY Candidates
  <1>2. \A i \in DOMAIN block.comments : block.comments[i].before < MaxBefore
    BY DEF Room
  <1>3. /\ RecordAdded(block, b, index)
        /\ InOrder(b.comments) <=> InOrder(block.comments)
        /\ index < Len(block.records) =>
              \A j \in 1..Len(b.comments) : Slot(b, b.comments[j]) # index + 1
    BY <1>1, <1>2, InsertedIsAdded
  <1>4. Edited("insert", b)
    OBVIOUS
  <1> HIDE DEF b
  <1>5. Promised(block, b)
    BY <1>1, <1>3, InsertionKept
  <1> QED
    BY <1>1, <1>3, <1>4, <1>5, InsertsRecord

\* The record appended by an upsert of a key the section does not have.
LEMMA RecordAppended ==
  ASSUME EditTypeOK, NEW b \in Block, NEW r \in Record, b.records = Append(block.records, r),
         b.comments = block.comments, Edited("insert", b)
  PROVE  Doc!InsertRecord
  <1>1. block \in Block
    BY Candidates
  <1> DEFINE n == Len(block.records)
  <1>2. RecordAdded(block, b, n)
    BY <1>1, AppendedIsAdded
  <1>3. n \in 0..n /\ ~(n < n)
    BY <1>1, BlockParts
  <1>4. InOrder(b.comments) <=> InOrder(block.comments)
    OBVIOUS
  <1>5. Promised(block, b)
    BY <1>1, <1>2, <1>3, <1>4, InsertionKept
  <1> QED
    BY <1>1, <1>4, <1>5, InsertsRecord

\* Every step of the editors is a step the document allows.
LEMMA DocumentStep == EditTypeOK /\ [EditNext]_editVars => [Doc!DocNext]_(Doc!docVars)
  <1> SUFFICES ASSUME EditTypeOK, [EditNext]_editVars PROVE [Doc!DocNext]_(Doc!docVars)
    OBVIOUS
  <1>0. block \in Block
    BY Candidates
  <1>1. CASE UNCHANGED editVars
    <2>1. UNCHANGED Doc!docVars
      BY <1>1 DEF editVars, Doc!docVars
    <2> QED
      BY <2>1
  <1>2. Refused => Doc!DocNext
    BY Refuses DEF Doc!DocNext
  <1>3. \A cs \in CommentList : Edited("comments", [block EXCEPT !.comments = cs]) => Doc!DocNext
    <2> SUFFICES ASSUME NEW cs \in CommentList, Edited("comments", [block EXCEPT !.comments = cs])
                 PROVE  Doc!DocNext
      OBVIOUS
    <2> DEFINE b == [block EXCEPT !.comments = cs]
    <2>1. b \in Block
      BY Candidates
    <2>2. b.records = block.records
      BY <1>0 DEF Block
    <2> HIDE DEF b
    <2>3. Edited("comments", b)
      BY DEF b
    <2> QED
      BY <1>0, <2>1, <2>2, <2>3, ReplacesComments DEF Doc!DocNext
  <1>4. \A rs \in RecordList : Edited("records", [block EXCEPT !.records = rs]) => Doc!DocNext
    <2> SUFFICES ASSUME NEW rs \in RecordList, Edited("records", [block EXCEPT !.records = rs])
                 PROVE  Doc!DocNext
      OBVIOUS
    <2> DEFINE b == [block EXCEPT !.records = rs]
    <2>1. b \in Block
      BY Candidates
    <2>2. b.comments = block.comments
      BY <1>0 DEF Block
    <2> HIDE DEF b
    <2>3. Edited("records", b)
      BY DEF b
    <2> QED
      BY <1>0, <2>1, <2>2, <2>3, ReplacesRecords DEF Doc!DocNext
  <1>5. ASSUME NEW index \in 0..Len(block.records), NEW r \in Record, Room,
               Edited("insert", WithRecord(block, index, r))
        PROVE  Doc!DocNext
    BY <1>5, RecordPutIn DEF Doc!DocNext
  <1>6. ASSUME NEW index \in 0..Len(block.records) - 1,
               Edited("remove", WithoutRecord(block, index))
        PROVE  Doc!DocNext
    BY <1>0, <1>6, OneRemoved, RemovesRecords DEF Doc!DocNext
  <1>7. ASSUME NEW key \in Key, Edited("remove", WithoutScalar(block, key))
        PROVE  Doc!DocNext
    BY <1>0, <1>7, ScalarRemoved, RemovesRecords DEF Doc!DocNext
  <1>8. ASSUME NEW key \in Key, NEW value \in Value,
               NEW name \in {"write", "insert"},
               name = "write" <=> \E i \in DOMAIN block.records : block.records[i].key = key,
               Edited(name, WithScalar(block, key, value))
        PROVE  Doc!DocNext
    <2> DEFINE b == WithScalar(block, key, value)
               Found == \E i \in DOMAIN block.records : block.records[i].key = key
    <2>1. /\ b \in Block /\ b.comments = block.comments
          /\ Found => /\ Len(b.records) = Len(block.records)
                      /\ \A i \in 1..Len(block.records) : b.records[i].key = block.records[i].key
          /\ ~Found => b.records = Append(block.records, [key |-> key, value |-> value])
      BY <1>0, WrittenScalar
    <2>2. Edited(name, b) /\ (name = "write" <=> Found)
      BY <1>8
    <2> HIDE DEF b, Found
    <2>3. CASE Found
      <3>1. Edited("write", b)
        BY <2>2, <2>3
      <3>2. Doc!WriteValues
        BY <1>0, <2>1, <2>3, <3>1, WritesValues
      <3> QED
        BY <3>2 DEF Doc!DocNext
    <2>4. CASE ~Found
      <3>1. Edited("insert", b)
        BY <2>2, <2>4
      <3>2. [key |-> key, value |-> value] \in Record
        BY DEF Record
      <3>3. Doc!InsertRecord
        BY <2>1, <2>4, <3>1, <3>2, RecordAppended
      <3> QED
        BY <3>3 DEF Doc!DocNext
    <2> QED
      BY <2>3, <2>4
  <1>9. CASE DataEdit
    <2>1. CASE DataSetComments
      BY <1>3, <2>1 DEF DataSetComments
    <2>2. CASE DataSetRecords
      BY <1>4, <2>2 DEF DataSetRecords
    <2>3. CASE AddRecord
      <3>1. PICK r \in Record : Edited("insert", [block EXCEPT !.records = Append(@, r)])
        BY <2>3 DEF AddRecord
      <3> DEFINE b == [block EXCEPT !.records = Append(@, r)]
      <3>2. b \in Block
        BY Candidates
      <3>3. b.records = Append(block.records, r) /\ b.comments = block.comments
        BY <1>0 DEF Block
      <3> HIDE DEF b
      <3>4. Edited("insert", b)
        BY <3>1 DEF b
      <3>5. Doc!InsertRecord
        BY <3>2, <3>3, <3>4, RecordAppended
      <3> QED
        BY <3>5 DEF Doc!DocNext
    <2>4. ASSUME NEW index \in 0..MaxRecords + 1, InsertRecord(index) PROVE Doc!DocNext
      <3>1. ~(index > Len(block.records)) => index \in 0..Len(block.records)
        BY Indices
      <3> QED
        BY <1>2, <1>5, <2>4, <3>1 DEF InsertRecord
    <2>5. ASSUME NEW index \in 0..MaxRecords + 1, RemoveRecord(index) PROVE Doc!DocNext
      <3>1. ~(index >= Len(block.records)) => index \in 0..Len(block.records) - 1
        BY Indices
      <3> QED
        BY <1>2, <1>6, <2>5, <3>1 DEF RemoveRecord
    <2> QED
      BY <1>9, <2>1, <2>2, <2>3, <2>4, <2>5 DEF DataEdit
  <1>10. CASE MetadataEdit
    <2>1. CASE ReplaceRaw
      <3>1. CASE EditAtomic("both", [records : RecordList, comments : CommentList])
        <4>1. Refused \/ method' = "both"
          BY <3>1 DEF EditAtomic, Edited
        <4> QED
          BY <1>2, <4>1 DEF Doc!DocNext, Doc!ReplaceBoth
      <3>2. CASE EditAtomic("records", ReplacedRecords)
        BY <1>2, <1>4, <3>2 DEF EditAtomic, ReplacedRecords
      <3> QED
        BY <2>1, <3>1, <3>2 DEF ReplaceRaw
    <2>2. CASE SetFields
      BY <1>2, <1>4, <2>2 DEF SetFields, EditAtomic, ReplacedRecords
    <2>3. CASE SetComments
      BY <1>2, <1>3, <2>3 DEF SetComments, EditAtomic
    <2>4. ASSUME NEW index \in 0..Len(block.records), Room,
                 EditAtomic("insert", {WithRecord(block, index, r) : r \in Record})
          PROVE  Doc!DocNext
      <3>1. Refused \/ \E r \in Record : Edited("insert", WithRecord(block, index, r))
        BY <2>4 DEF EditAtomic
      <3> QED
        BY <1>2, <1>5, <2>4, <3>1
    <2>5. CASE AppendField
      <3>1. Len(block.records) \in 0..Len(block.records)
        BY <1>0, BlockParts
      <3> QED
        BY <1>2, <2>4, <2>5, <3>1 DEF AppendField, InsertField
    <2>6. ASSUME NEW key \in Key, SetScalar(key) PROVE Doc!DocNext
      <3> DEFINE Found == \E i \in DOMAIN block.records : block.records[i].key = key
                 name == IF Found THEN "write" ELSE "insert"
      <3>1. \/ Refused
            \/ \E value \in Value : Edited(name, WithScalar(block, key, value))
            \/ Edited("remove", WithoutScalar(block, key))
        BY <2>6 DEF SetScalar, EditAtomic
      <3>2. name \in {"write", "insert"} /\ (name = "write" <=> Found)
        OBVIOUS
      <3> HIDE DEF name
      <3> QED
        BY <1>2, <1>7, <1>8, <3>1, <3>2
    <2>7. ASSUME NEW key \in Key, RemoveField(key) PROVE Doc!DocNext
      BY <1>2, <1>7, <2>7 DEF RemoveField, EditAtomic
    <2>8. ASSUME NEW index \in 0..MaxRecords + 1, InsertField(index) PROVE Doc!DocNext
      <3>1. ~(index > Len(block.records)) => index \in 0..Len(block.records)
        BY Indices
      <3> QED
        BY <1>2, <2>4, <2>8, <3>1 DEF InsertField
    <2>9. ASSUME NEW index \in 0..MaxRecords + 1, RemoveFieldAt(index) PROVE Doc!DocNext
      <3>1. ~(index >= Len(block.records)) => index \in 0..Len(block.records) - 1
        BY Indices
      <3> QED
        BY <1>2, <1>6, <2>9, <3>1 DEF RemoveFieldAt, EditAtomic
    <2>10. ASSUME NEW text \in Text, NEW before \in 0..MaxBefore, AddComment(text, before)
           PROVE  Doc!DocNext
      <3>1. [text |-> text, before |-> before] \in Comment
        BY DEF Comment
      <3>2. Refused \/ Edited("comment", WithComment(block, [text |-> text, before |-> before]))
        BY <2>10 DEF AddComment, EditAtomic
      <3> QED
        BY <1>0, <1>2, <3>1, <3>2, AddsComment DEF Doc!DocNext
    <2> QED
      BY <1>10, <2>1, <2>2, <2>3, <2>5, <2>6, <2>7, <2>8, <2>9, <2>10 DEF MetadataEdit
  <1> QED
    BY <1>1, <1>9, <1>10 DEF EditNext

\* The editors implement the document: whatever was edited before, an edit moves no
\* line past another one that survives it, drops no comment and changes nothing it was
\* not asked to change.
THEOREM EditsKeepTheDocument == EditSpec => KeepsTheDocument
  <1>1. EditInit => Doc!DocInit
    BY DEF EditInit, Doc!DocInit
  <1> QED
    BY <1>1, EditTypeInit, EditTypeStep, DocumentStep, PTL DEF EditSpec, KeepsTheDocument, Doc!DocSpec

-----------------------------------------------------------------------------
\* All of them side by side.

\* Side by side each part behaves as it does alone, so that the promises of the four
\* hold of them together: of the publishing of an owner, the end of its ownership, the
\* scan of an archive, the document that is edited and the batches of a clock product.
THEOREM NativePartsKeepTheirPromises ==
  NativeSpec => /\ []HolderCanPublish
                /\ []OwnershipEndsWithBlock
                /\ []ScanJudgesArchives
                /\ KeepsTheDocument
                /\ BatchAllOrNothing
  <1> DEFINE Step == [NativeNext /\ UNCHANGED part]_<<part, flightVars, editVars, clockVars, scanVars>>
  <1>1. NativeInit => FlightInit /\ EditInit /\ ClockInit /\ CompressInit
    BY DEF NativeInit
  <1>2. Step => /\ [FlightNext]_flightVars /\ [EditNext]_editVars
                /\ [ClockNext]_clockVars /\ [CompressNext]_scanVars
    BY DEF NativeNext
  <1>3. NativeSpec => FlightSpec /\ EditSpec /\ ClockSpec /\ CompressSpec
    BY <1>1, <1>2, PTL DEF NativeSpec, FlightSpec, EditSpec, ClockSpec, CompressSpec
  <1> QED
    BY <1>3, HolderPublishes, OwnershipEnds, ArchivesAreJudged, EditsKeepTheDocument,
       BatchesAreAllOrNothing
==============================================================================
