--------------------------- MODULE RankingTheorems ---------------------------
(***************************************************************************)
(* Facts about the ranking of candidates, for any rank function.           *)
(***************************************************************************)
EXTENDS Ranking, FiniteSetTheorems, FunctionTheorems, TLAPS

\* Candidates are strictly and totally ordered, even when ranks collide.
LEMMA PrecedesIsStrictOrder ==
    ASSUME NEW seed \in Seeds
    PROVE  /\ \A v \in Wallets : ~Precedes(seed, v, v)
           /\ \A u, v, w \in Wallets :
                Precedes(seed, u, v) /\ Precedes(seed, v, w)
                    => Precedes(seed, u, w)
           /\ \A v, w \in Wallets :
                v # w => Precedes(seed, v, w) \/ Precedes(seed, w, v)
<1>1. \A w \in Wallets : w \in Nat /\ Rank(seed, w) \in Nat
  BY WalletsAssumption, RankAssumption
<1> QED
  BY <1>1 DEF Precedes

\* Sets of wallets are finite.
LEMMA WalletSetsFinite ==
    ASSUME NEW S \in SUBSET Wallets
    PROVE  IsFiniteSet(S) /\ Cardinality(S) \in Nat
BY WalletsAssumption, FS_Subset, FS_CardinalityType

\* Counting a wallet that was not counted before.
LEMMA CountOne ==
    ASSUME NEW S \in SUBSET Wallets, NEW w \in Wallets \ S
    PROVE  Cardinality(S \cup {w}) = Cardinality(S) + 1
BY WalletSetsFinite, FS_AddElement

LEMMA IntervalSize ==
    ASSUME NEW n \in Nat
    PROVE  IsFiniteSet(1..n) /\ Cardinality(1..n) = n
<1>1. IsFiniteSet(1..n) /\ Cardinality(1..n) = IF 1 > n THEN 0 ELSE n - 1 + 1
  BY FS_Interval
<1> QED  BY <1>1

\* Positions of a list without repetitions count the wallets at them.
LEMMA ImageSize ==
    ASSUME NEW n \in Nat, NEW list \in [1..n -> Wallets],
           \A i, j \in 1..n : list[i] = list[j] => i = j,
           NEW I \in SUBSET (1..n)
    PROVE  Cardinality({list[i] : i \in I}) = Cardinality(I)
<1> DEFINE T == {list[i] : i \in I}
           f == [i \in I |-> list[i]]
<1>1. IsFiniteSet(I)
  BY IntervalSize, FS_Subset
<1>2. f \in [I -> T]
  OBVIOUS
<1>3. \A i, j \in I : f[i] = f[j] => i = j
  OBVIOUS
<1>4. \A t \in T : \E i \in I : f[i] = t
  OBVIOUS
<1> HIDE DEF f, T
<1>5. f \in Bijection(I, T)
  BY <1>2, <1>3, <1>4, Fun_IsBij
<1>6. ExistsBijection(I, T)
  BY <1>5 DEF ExistsBijection
<1> QED  BY <1>1, <1>6, FS_Bijection DEF T

\* A wallet has strictly more predecessors than each of its predecessors, and
\* fewer than there are candidates.
LEMMA PredecessorsGrow ==
    ASSUME NEW seed \in Seeds, NEW S \in SUBSET Wallets, NEW w \in S
    PROVE  /\ Cardinality(Predecessors(seed, S, w)) \in 0..(Cardinality(S) - 1)
           /\ \A v \in S : Precedes(seed, v, w) =>
                Cardinality(Predecessors(seed, S, v))
                    < Cardinality(Predecessors(seed, S, w))
<1> DEFINE P(v) == Predecessors(seed, S, v)
<1>1. \A v \in S : /\ P(v) \in SUBSET S
                   /\ v \notin P(v)
                   /\ IsFiniteSet(P(v)) /\ Cardinality(P(v)) \in Nat
  <2> SUFFICES ASSUME NEW v \in S
               PROVE  P(v) \in SUBSET S /\ v \notin P(v)
    BY WalletSetsFinite
  <2> QED  BY PrecedesIsStrictOrder DEF Predecessors
<1>2. Cardinality(P(w)) \in 0..(Cardinality(S) - 1)
  <2>1. IsFiniteSet(S) /\ Cardinality(S) \in Nat
    BY WalletSetsFinite
  <2>2. Cardinality(P(w)) <= Cardinality(S)
    BY <1>1, <2>1, FS_Subset
  <2>3. Cardinality(S) # Cardinality(P(w))
    BY <1>1, <2>1, FS_Subset
  <2> QED  BY <1>1, <2>1, <2>2, <2>3
<1>3. ASSUME NEW v \in S, Precedes(seed, v, w)
      PROVE  Cardinality(P(v)) < Cardinality(P(w))
  <2>1. P(v) \in SUBSET P(w)
    BY <1>3, PrecedesIsStrictOrder DEF Predecessors
  <2>2. v \in P(w)
    BY <1>3 DEF Predecessors
  <2>3. Cardinality(P(v)) <= Cardinality(P(w))
    BY <1>1, <2>1, FS_Subset
  <2>4. Cardinality(P(w)) # Cardinality(P(v))
    BY <1>1, <2>1, <2>2, FS_Subset
  <2> QED  BY <1>1, <2>3, <2>4
<1> QED  BY <1>2, <1>3

\* Counting predecessors numbers the candidates without gaps or repetitions.
LEMMA PositionsAreBijective ==
    ASSUME NEW seed \in Seeds, NEW S \in SUBSET Wallets
    PROVE  /\ \A v, w \in S :
                Cardinality(Predecessors(seed, S, v))
                    = Cardinality(Predecessors(seed, S, w)) => v = w
           /\ \A i \in 1..Cardinality(S) : \E w \in S :
                Cardinality(Predecessors(seed, S, w)) = i - 1
<1> DEFINE n == Cardinality(S)
           pos == [w \in S |-> Cardinality(Predecessors(seed, S, w))]
<1>1. IsFiniteSet(S) /\ n \in Nat
  BY WalletSetsFinite
<1>2. pos \in [S -> 0..(n - 1)]
  BY PredecessorsGrow
<1>3. \A v, w \in S : pos[v] = pos[w] => v = w
  <2> SUFFICES ASSUME NEW v \in S, NEW w \in S, v # w
               PROVE  pos[v] # pos[w]
    OBVIOUS
  <2>1. pos[v] \in Int /\ pos[w] \in Int
    BY <1>1, <1>2
  <2>2. Precedes(seed, v, w) \/ Precedes(seed, w, v)
    BY PrecedesIsStrictOrder
  <2>3. pos[v] < pos[w] \/ pos[w] < pos[v]
    BY <2>2, PredecessorsGrow
  <2> QED  BY <2>1, <2>3
<1>4. pos \in Injection(S, 0..(n - 1))
  BY <1>2, <1>3 DEF Injection, IsInjective
<1>5. IsFiniteSet(0..(n - 1)) /\ Cardinality(0..(n - 1)) = n
  BY <1>1, FS_Interval
<1>6. pos \in Surjection(S, 0..(n - 1))
  BY <1>1, <1>4, <1>5, FS_Injection
<1>7. \A k \in 0..(n - 1) : \E w \in S : pos[w] = k
  BY <1>6 DEF Surjection
<1>8. \A i \in 1..n : i - 1 \in 0..(n - 1)
  BY <1>1
<1> QED  BY <1>3, <1>7, <1>8

\* The list of winners is a sequence without repetitions of exactly the
\* candidates, each placed after all the candidates that precede it.
THEOREM RankOrderIsSorted ==
    ASSUME NEW seed \in Seeds, NEW S \in SUBSET Wallets
    PROVE  LET list == InRankOrder(seed, S) IN
           /\ list \in [1..Cardinality(S) -> S]
           /\ \A w \in S : \E i \in 1..Cardinality(S) : list[i] = w
           /\ \A i, j \in 1..Cardinality(S) :
                i < j => Precedes(seed, list[i], list[j])
<1> DEFINE n == Cardinality(S)
           list == InRankOrder(seed, S)
           pos(w) == Cardinality(Predecessors(seed, S, w))
<1>0. n \in Nat
  BY WalletSetsFinite
<1>1. \A i \in 1..n : list[i] \in S /\ pos(list[i]) = i - 1
  <2> SUFFICES ASSUME NEW i \in 1..n
               PROVE  list[i] \in S /\ pos(list[i]) = i - 1
    OBVIOUS
  <2>1. PICK w \in S : pos(w) = i - 1
    BY PositionsAreBijective
  <2>2. list[i] = CHOOSE v \in S : pos(v) = i - 1
    BY DEF InRankOrder
  <2> QED  BY <2>1, <2>2
<1>2. list \in [1..n -> S]
  BY <1>1 DEF InRankOrder
<1>3. \A w \in S : \E i \in 1..n : list[i] = w
  <2> SUFFICES ASSUME NEW w \in S
               PROVE  \E i \in 1..n : list[i] = w
    OBVIOUS
  <2>1. pos(w) \in 0..(n - 1)
    BY PredecessorsGrow
  <2>2. pos(w) + 1 \in 1..n /\ (pos(w) + 1) - 1 = pos(w)
    BY <1>0, <2>1
  <2>3. list[pos(w) + 1] \in S /\ pos(list[pos(w) + 1]) = pos(w)
    BY <1>1, <2>2
  <2>4. list[pos(w) + 1] = w
    BY <2>3, PositionsAreBijective
  <2> QED  BY <2>2, <2>4
<1>4. ASSUME NEW i \in 1..n, NEW j \in 1..n, i < j
      PROVE  Precedes(seed, list[i], list[j])
  <2>1. list[i] \in S /\ list[j] \in S /\ pos(list[i]) = i - 1 /\ pos(list[j]) = j - 1
    BY <1>1
  <2>2. list[i] # list[j]
    BY <1>0, <1>4, <2>1
  <2>3. ~Precedes(seed, list[j], list[i])
    BY <1>0, <1>4, <2>1, PredecessorsGrow
  <2> QED  BY <2>1, <2>2, <2>3, PrecedesIsStrictOrder
<1> QED  BY <1>2, <1>3, <1>4

\* A list in rank order names no wallet twice.
LEMMA RankOrderIsInjective ==
    ASSUME NEW seed \in Seeds, NEW S \in SUBSET Wallets
    PROVE  LET list == InRankOrder(seed, S) IN
           /\ list \in [1..Cardinality(S) -> Wallets]
           /\ \A i, j \in 1..Cardinality(S) : list[i] = list[j] => i = j
<1> DEFINE n == Cardinality(S)
           list == InRankOrder(seed, S)
<1>1. n \in Nat
  BY WalletSetsFinite
<1>2. /\ list \in [1..n -> S]
      /\ \A i, j \in 1..n : i < j => Precedes(seed, list[i], list[j])
  BY RankOrderIsSorted
<1>3. \A i \in 1..n : list[i] \in Wallets
  BY <1>2
<1>4. \A w \in Wallets : ~Precedes(seed, w, w)
  BY PrecedesIsStrictOrder
<1> HIDE DEF list, n
<1>5. ASSUME NEW i \in 1..n, NEW j \in 1..n, list[i] = list[j]
      PROVE  i = j
  <2>1. ~(i < j) /\ ~(j < i)
    BY <1>2, <1>3, <1>4, <1>5
  <2> QED  BY <1>1, <2>1
<1>6. list \in [1..n -> Wallets]
  BY <1>2, <1>3
<1> QED  BY <1>5, <1>6 DEF list, n

-----------------------------------------------------------------------------
\* A set of more than k candidates has k best ones.
LEMMA TopKIsFull ==
    ASSUME NEW seed \in Seeds, NEW S \in SUBSET Wallets, NEW k \in Nat,
           Cardinality(S) >= k
    PROVE  Cardinality(TopK(seed, S, k)) = k
<1> DEFINE n == Cardinality(S)
           pos(w) == Cardinality(Predecessors(seed, S, w))
           T == TopK(seed, S, k)
           f == [w \in T |-> pos(w)]
<1>1. n \in Nat /\ T \in SUBSET Wallets
  BY WalletSetsFinite DEF TopK
<1>2. \A w \in T : w \in S /\ pos(w) \in 0..(k - 1)
  BY <1>1, PredecessorsGrow DEF TopK
<1>3. f \in [T -> 0..(k - 1)]
  BY <1>2
<1>4. \A v, w \in T : f[v] = f[w] => v = w
  BY <1>2, PositionsAreBijective
<1>5. \A i \in 0..(k - 1) : \E w \in T : f[w] = i
  <2> SUFFICES ASSUME NEW i \in 0..(k - 1)
               PROVE  \E w \in T : f[w] = i
    OBVIOUS
  <2>1. i + 1 \in 1..n /\ (i + 1) - 1 = i /\ i < k
    BY <1>1
  <2>2. PICK w \in S : pos(w) = i
    BY <2>1, PositionsAreBijective
  <2>3. w \in T
    BY <2>1, <2>2 DEF TopK
  <2> QED  BY <2>2, <2>3
<1>6. f \in Bijection(T, 0..(k - 1))
  BY <1>3, <1>4, <1>5 DEF Bijection, Injection, Surjection, IsInjective
<1>7. IsFiniteSet(T)
  BY <1>1, WalletSetsFinite
<1>8. Cardinality(0..(k - 1)) = k
  <2>1. 0 \in Int /\ k - 1 \in Int
    OBVIOUS
  <2>2. Cardinality(0..(k - 1)) = IF 0 > k - 1 THEN 0 ELSE (k - 1) - 0 + 1
    BY <2>1, FS_Interval
  <2> QED  BY <2>2
<1>9. ExistsBijection(T, 0..(k - 1))
  BY <1>6 DEF ExistsBijection
<1>10. Cardinality(0..(k - 1)) = Cardinality(T)
  <2> HIDE DEF T
  <2> QED  BY <1>7, <1>9, FS_Bijection
<1> QED  BY <1>8, <1>10

\* A candidate outside the best k of S is preceded by all k of them.
LEMMA TopKPrecedesRest ==
    ASSUME NEW seed \in Seeds, NEW S \in SUBSET Wallets, NEW k \in Nat,
           NEW x \in S \ TopK(seed, S, k)
    PROVE  /\ \A y \in TopK(seed, S, k) : Precedes(seed, y, x)
           /\ Cardinality(TopK(seed, S, k)) = k
<1> DEFINE pos(w) == Cardinality(Predecessors(seed, S, w))
<1>1. pos(x) \in 0..(Cardinality(S) - 1) /\ ~(pos(x) < k)
  BY PredecessorsGrow DEF TopK
<1>2. Cardinality(S) \in Nat /\ Cardinality(S) >= k
  BY <1>1, WalletSetsFinite
<1>3. ASSUME NEW y \in TopK(seed, S, k)
      PROVE  Precedes(seed, y, x)
  <2>1. y \in S /\ pos(y) < k /\ pos(y) \in Nat
    BY PredecessorsGrow DEF TopK
  <2>2. y # x
    BY <1>1, <2>1
  <2>3. ~Precedes(seed, x, y)
    BY <1>1, <2>1, PredecessorsGrow
  <2> QED  BY <2>1, <2>2, <2>3, PrecedesIsStrictOrder
<1> QED  BY <1>2, <1>3, TopKIsFull

\* The best k candidates can be kept chunk by chunk: merging a chunk into the
\* best k of what was seen gives the best k of everything seen.
THEOREM TopKMerges ==
    ASSUME NEW seed \in Seeds, NEW S \in SUBSET Wallets,
           NEW chunk \in SUBSET Wallets, NEW k \in Nat
    PROVE  TopK(seed, TopK(seed, S, k) \cup chunk, k) = TopK(seed, S \cup chunk, k)
<1> DEFINE T == TopK(seed, S, k)
           U == S \cup chunk
           V == T \cup chunk
           P(X, w) == Predecessors(seed, X, w)
<1>1. T \in SUBSET S /\ V \in SUBSET U /\ U \in SUBSET Wallets /\ V \in SUBSET Wallets
  BY DEF TopK
<1>2. \A w \in Wallets : \A X \in SUBSET Wallets :
        /\ P(X, w) \in SUBSET Wallets
        /\ IsFiniteSet(P(X, w)) /\ Cardinality(P(X, w)) \in Nat
  <2> SUFFICES ASSUME NEW w \in Wallets, NEW X \in SUBSET Wallets
               PROVE  P(X, w) \in SUBSET Wallets
    BY WalletSetsFinite
  <2> QED  BY DEF Predecessors
<1>3. \A w \in Wallets : \A X \in SUBSET Wallets : \A Y \in SUBSET X :
        Cardinality(P(Y, w)) <= Cardinality(P(X, w))
  <2> SUFFICES ASSUME NEW w \in Wallets, NEW X \in SUBSET Wallets, NEW Y \in SUBSET X
               PROVE  Cardinality(P(Y, w)) <= Cardinality(P(X, w))
    OBVIOUS
  <2>1. P(Y, w) \in SUBSET P(X, w)
    BY DEF Predecessors
  <2> QED  BY <1>2, <2>1, FS_Subset
<1>4. ASSUME NEW w \in TopK(seed, U, k)
      PROVE  w \in TopK(seed, V, k)
  <2>1. w \in U /\ w \in Wallets /\ Cardinality(P(U, w)) < k
    BY <1>1 DEF TopK
  <2>2. Cardinality(P(V, w)) < k
    BY <1>1, <1>2, <1>3, <2>1
  <2>3. w \in V
    <3>1. CASE w \in chunk
      BY <3>1
    <3>2. CASE w \in S
      <4>1. Cardinality(P(S, w)) < k
        BY <1>1, <1>2, <1>3, <2>1
      <4> QED  BY <3>2, <4>1 DEF TopK
    <3> QED  BY <2>1, <3>1, <3>2
  <2> QED  BY <2>2, <2>3 DEF TopK
<1>5. ASSUME NEW w \in TopK(seed, V, k)
      PROVE  w \in TopK(seed, U, k)
  <2>1. w \in V /\ w \in U /\ w \in Wallets /\ Cardinality(P(V, w)) < k
    BY <1>1 DEF TopK
  <2>2. CASE P(U, w) = P(V, w)
    BY <2>1, <2>2 DEF TopK
  <2>3. CASE P(U, w) # P(V, w)
    <3>1. PICK x \in S \ T : Precedes(seed, x, w)
      BY <1>1, <2>3 DEF Predecessors
    <3>2. \A y \in T : Precedes(seed, y, x)
      BY <3>1, TopKPrecedesRest
    <3>3. Cardinality(T) = k
      BY <3>1, TopKPrecedesRest
    <3>4. \A y \in T : Precedes(seed, y, w)
      <4> SUFFICES ASSUME NEW y \in T PROVE Precedes(seed, y, w)
        OBVIOUS
      <4>1. y \in Wallets /\ x \in Wallets
        BY <1>1, <3>1
      <4> QED  BY <2>1, <3>1, <3>2, <4>1, PrecedesIsStrictOrder
    <3>5. T \in SUBSET P(V, w)
      BY <3>4 DEF Predecessors
    <3>6. Cardinality(T) <= Cardinality(P(V, w))
      BY <1>1, <1>2, <2>1, <3>5, FS_Subset
    <3> QED  BY <1>1, <1>2, <2>1, <3>3, <3>6
  <2> QED  BY <2>2, <2>3
<1> QED  BY <1>4, <1>5
=============================================================================
