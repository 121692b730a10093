-------------------------- MODULE FinalizationProofs --------------------------
(***************************************************************************)
(* The bounded candidate array of FinalizationLedger is the set TopK that  *)
(* the draw of Giveaways is stated and proved with: growing, replacing the *)
(* worst entry and sorting keep it the best of what was recorded, for any  *)
(* ranks, any order of recording and any number of winners.                *)
(***************************************************************************)
EXTENDS FinalizationLedger, RankingTheorems

\* A list in which each entry precedes the next is in rank order: the order
\* of a set of candidates is unique.
LEMMA OrderIsUnique ==
    ASSUME NEW s \in Seeds, NEW n \in Nat, NEW list \in [1..n -> Wallets],
           \A i, j \in 1..n : i < j => Precedes(s, list[i], list[j])
    PROVE  LET S == {list[i] : i \in 1..n} IN
           Cardinality(S) = n /\ list = InRankOrder(s, S)
<1> DEFINE S == {list[i] : i \in 1..n}
           pos(w) == Cardinality(Predecessors(s, S, w))
           place(i) == CHOOSE w \in S : pos(w) = i - 1
<1>1. \A i, j \in 1..n : list[i] = list[j] => i = j
  <2> SUFFICES ASSUME NEW i \in 1..n, NEW j \in 1..n, i # j
               PROVE  list[i] # list[j]
    OBVIOUS
  <2>1. i < j \/ j < i
    OBVIOUS
  <2>2. Precedes(s, list[i], list[j]) \/ Precedes(s, list[j], list[i])
    BY <2>1
  <2> QED  BY <2>2, PrecedesIsStrictOrder
<1>2. Cardinality(S) = n
  <2>1. Cardinality({list[i] : i \in 1..n}) = Cardinality(1..n)
    BY <1>1, ImageSize
  <2> QED  BY <2>1, IntervalSize
<1>3. ASSUME NEW i \in 1..n
      PROVE  pos(list[i]) = i - 1
  <2>1. 1..(i - 1) \in SUBSET (1..n) /\ i - 1 \in Nat
    OBVIOUS
  <2>2. Predecessors(s, S, list[i]) = {list[j] : j \in 1..(i - 1)}
    <3>1. ASSUME NEW j \in 1..n
          PROVE  Precedes(s, list[j], list[i]) <=> j < i
      <4>1. CASE j < i
        BY <4>1
      <4>2. CASE j = i
        BY <4>2, PrecedesIsStrictOrder
      <4>3. CASE i < j
        <5>1. Precedes(s, list[i], list[j])
          BY <4>3
        <5> QED  BY <4>3, <5>1, PrecedesIsStrictOrder
      <4> QED  BY <4>1, <4>2, <4>3
    <3>2. \A j \in 1..n : j < i <=> j \in 1..(i - 1)
      OBVIOUS
    <3> QED  BY <2>1, <3>1, <3>2 DEF Predecessors
  <2>3. Cardinality({list[j] : j \in 1..(i - 1)}) = Cardinality(1..(i - 1))
    BY <1>1, <2>1, ImageSize
  <2> QED  BY <2>1, <2>2, <2>3, IntervalSize
<1>4. S \in SUBSET Wallets
  OBVIOUS
<1>5. ASSUME NEW i \in 1..n
      PROVE  list[i] = place(i)
  <2>1. list[i] \in S /\ pos(list[i]) = i - 1
    BY <1>3
  <2>2. \A w \in S : pos(w) = i - 1 => w = list[i]
    <3> HIDE DEF S
    <3> QED  BY <1>4, <2>1, PositionsAreBijective
  <2> QED  BY <2>1, <2>2
<1>6. InRankOrder(s, S) = [i \in 1..n |-> place(i)]
  <2> HIDE DEF S
  <2> QED  BY <1>2 DEF InRankOrder
<1>7. list = [i \in 1..n |-> list[i]]
  OBVIOUS
<1>8. list = InRankOrder(s, S)
  <2> HIDE DEF S, place
  <2> QED  BY <1>5, <1>6, <1>7
<1> QED  BY <1>2, <1>8

\* sort_candidates of distinct candidates is their rank order.
LEMMA SortingIsRankOrder ==
    ASSUME seed \in Seeds, NEW n \in Nat, NEW list \in [1..n -> Wallets],
           Cardinality(ToSet(list)) = n
    PROVE  Sorted(list) = InRankOrder(seed, ToSet(list))
<1> DEFINE S == ToSet(list)
           order == InRankOrder(seed, S)
           IsOrderOf(x) == /\ ToSet(x) = S
                           /\ \A i, j \in 1..n : i < j => Precedes(seed, x[i], x[j])
<1>1. S \in SUBSET Wallets /\ DOMAIN list = 1..n
  BY DEF ToSet
<1>2. /\ order \in [1..n -> S]
      /\ \A w \in S : \E i \in 1..n : order[i] = w
      /\ \A i, j \in 1..n : i < j => Precedes(seed, order[i], order[j])
  <2> HIDE DEF S
  <2> QED  BY <1>1, RankOrderIsSorted DEF S
<1>3. order \in [1..n -> S] /\ IsOrderOf(order)
  <2>1. ToSet(order) = S
    <3> HIDE DEF S, order
    <3> QED  BY <1>2 DEF ToSet
  <2> QED  BY <1>2, <2>1
<1>4. ASSUME NEW x \in [1..n -> S], IsOrderOf(x)
      PROVE  x = order
  <2>1. x \in [1..n -> Wallets]
    BY <1>1
  <2>2. {x[i] : i \in 1..n} = S
    BY <1>4 DEF ToSet
  <2>3. \A i, j \in 1..n : i < j => Precedes(seed, x[i], x[j])
    BY <1>4
  <2> HIDE DEF S, IsOrderOf
  <2>4. x = InRankOrder(seed, {x[i] : i \in 1..n})
    BY <2>1, <2>3, OrderIsUnique
  <2> QED  BY <2>2, <2>4
<1>5. Sorted(list) = CHOOSE x \in [1..n -> S] : IsOrderOf(x)
  BY <1>1 DEF Sorted
<1> HIDE DEF order, IsOrderOf
<1> QED  BY <1>3, <1>4, <1>5 DEF order

-----------------------------------------------------------------------------
\* Up to k candidates are all among the best k.
LEMMA FewAreAllBest ==
    ASSUME NEW s \in Seeds, NEW S \in SUBSET Wallets, NEW k \in Nat,
           Cardinality(S) <= k
    PROVE  TopK(s, S, k) = S
<1>1. Cardinality(S) \in Nat
  BY WalletSetsFinite
<1>2. \A w \in S : Cardinality(Predecessors(s, S, w)) \in 0..(Cardinality(S) - 1)
  BY PredecessorsGrow
<1>3. \A w \in S : Cardinality(Predecessors(s, S, w)) < k
  BY <1>1, <1>2
<1> QED  BY <1>3 DEF TopK

\* Recording one candidate: the best of those kept and it are the best of all.
LEMMA BestMerges ==
    ASSUME NEW s \in Seeds, NEW S \in SUBSET Wallets, NEW w \in Wallets, NEW k \in Nat
    PROVE  TopK(s, TopK(s, S, k) \cup {w}, k) = TopK(s, S \cup {w}, k)
<1> DEFINE chunk == {w}
<1>1. chunk \in SUBSET Wallets
  OBVIOUS
<1> HIDE DEF chunk
<1>2. TopK(s, TopK(s, S, k) \cup chunk, k) = TopK(s, S \cup chunk, k)
  BY <1>1, TopKMerges
<1> QED  BY <1>2 DEF chunk

\* Of k + 1 candidates the one that all others precede is not among the best k.
LEMMA WorstFallsOut ==
    ASSUME NEW s \in Seeds, NEW X \in SUBSET Wallets, NEW k \in Nat,
           Cardinality(X) = k + 1, NEW z \in X,
           \A w \in X \ {z} : Precedes(s, w, z)
    PROVE  TopK(s, X, k) = X \ {z}
<1> DEFINE rest == X \ {z}
<1>1. IsFiniteSet(X) /\ rest \in SUBSET Wallets /\ z \in Wallets
  BY WalletSetsFinite
<1>2. IsFiniteSet(rest) /\ Cardinality(rest) = k
  BY <1>1, FS_RemoveElement
<1>3. Predecessors(s, X, z) = rest
  BY <1>1, PrecedesIsStrictOrder DEF Predecessors
<1>4. ASSUME NEW w \in rest
      PROVE  Cardinality(Predecessors(s, X, w)) < k
  <2>1. w \in Wallets /\ Precedes(s, w, z)
    BY <1>1
  <2>2. ~Precedes(s, z, w)
    BY <1>1, <2>1, PrecedesIsStrictOrder
  <2>3. Predecessors(s, X, w) = Predecessors(s, rest, w)
    BY <2>2 DEF Predecessors
  <2>4. Cardinality(Predecessors(s, rest, w)) \in 0..(Cardinality(rest) - 1)
    BY <1>1, PredecessorsGrow
  <2> QED  BY <1>2, <2>3, <2>4
<1>5. ~(Cardinality(Predecessors(s, X, z)) < k)
  BY <1>2, <1>3
<1> QED  BY <1>4, <1>5 DEF TopK

-----------------------------------------------------------------------------
\* What the array is, as long as it holds the best seen.
BestSeen == TopK(seed, recorded, target_winners)

LedgerInvariant ==
    /\ seed \in Seeds /\ target_winners \in Nat /\ recorded \in SUBSET Wallets
    /\ CandidatesAreBestSeen

LEMMA ArrayOfBest ==
    ASSUME LedgerInvariant
    PROVE  /\ BestSeen \in SUBSET Wallets
           /\ Len(candidates) = Cardinality(BestSeen)
           /\ candidates \in [1..Len(candidates) -> Wallets]
           /\ ToSet(candidates) = BestSeen
           /\ \A i, j \in 1..Len(candidates) :
                i < j => Precedes(seed, candidates[i], candidates[j])
<1> DEFINE n == Cardinality(BestSeen)
<1>1. /\ seed \in Seeds /\ BestSeen \in SUBSET Wallets /\ n \in Nat
      /\ candidates = InRankOrder(seed, BestSeen)
  BY WalletSetsFinite DEF LedgerInvariant, CandidatesAreBestSeen, BestSeen, TopK
<1>2. /\ candidates \in [1..n -> BestSeen]
      /\ \A w \in BestSeen : \E i \in 1..n : candidates[i] = w
      /\ \A i, j \in 1..n : i < j => Precedes(seed, candidates[i], candidates[j])
  <2> HIDE DEF BestSeen
  <2> QED  BY <1>1, RankOrderIsSorted
<1> HIDE DEF n
<1>3. Len(candidates) = n
  <2>1. candidates \in Seq(BestSeen) /\ DOMAIN candidates = 1..n
    BY <1>1, <1>2 DEF n
  <2> QED  BY <1>1, <2>1
<1>4. ToSet(candidates) = BestSeen
  <2> HIDE DEF BestSeen
  <2> QED  BY <1>2 DEF ToSet
<1>5. candidates \in [1..n -> Wallets]
  <2> HIDE DEF BestSeen
  <2> QED  BY <1>1, <1>2
<1> QED  BY <1>1, <1>2, <1>3, <1>4, <1>5 DEF n

\* While the array has room nobody has been turned away.
LEMMA RoomMeansAll ==
    ASSUME LedgerInvariant, Len(candidates) < target_winners
    PROVE  BestSeen = recorded /\ Cardinality(recorded) < target_winners
<1>1. seed \in Seeds /\ target_winners \in Nat /\ recorded \in SUBSET Wallets
  BY DEF LedgerInvariant
<1>2. Cardinality(BestSeen) < target_winners
  BY ArrayOfBest
<1>3. Cardinality(recorded) \in Nat
  BY <1>1, WalletSetsFinite
<1>4. Cardinality(recorded) < target_winners
  <2>1. CASE Cardinality(recorded) >= target_winners
    <3>1. Cardinality(BestSeen) = target_winners
      BY <1>1, <2>1, TopKIsFull DEF BestSeen
    <3> QED  BY <1>1, <1>2, <3>1
  <2> QED  BY <1>1, <1>3, <2>1
<1> QED  BY <1>1, <1>3, <1>4, FewAreAllBest DEF BestSeen

\* A new entry in an array with room is sorted in.
LEMMA PushKeepsBest ==
    ASSUME LedgerInvariant, NEW w \in Wallets \ recorded, Push(w)
    PROVE  candidates' = InRankOrder(seed, TopK(seed, recorded \cup {w}, target_winners))
<1> DEFINE n == Len(candidates)
           list == Append(candidates, w)
           all == recorded \cup {w}
<1>1. /\ seed \in Seeds /\ target_winners \in Nat /\ recorded \in SUBSET Wallets
      /\ n < target_winners /\ candidates' = Sorted(list)
  BY DEF LedgerInvariant, Push
<1>2. BestSeen = recorded /\ Cardinality(recorded) < target_winners
  BY <1>1, RoomMeansAll
<1>3. /\ n = Cardinality(recorded) /\ candidates \in [1..n -> Wallets]
      /\ ToSet(candidates) = recorded /\ n \in Nat
  BY <1>1, <1>2, ArrayOfBest, WalletSetsFinite
<1>4. Cardinality(all) = n + 1 /\ all \in SUBSET Wallets
  BY <1>1, <1>3, CountOne
<1>5. TopK(seed, all, target_winners) = all
  <2> HIDE DEF all
  <2> QED  BY <1>1, <1>3, <1>4, FewAreAllBest
<1>6. list \in [1..(n + 1) -> Wallets]
  <2>1. candidates \in Seq(Wallets) /\ n = Len(candidates)
    BY <1>3
  <2>2. list \in Seq(Wallets) /\ Len(list) = n + 1
    BY <2>1
  <2> HIDE DEF list, n
  <2> QED  BY <2>2
<1>7. ToSet(list) = all
  <2>1. candidates \in Seq(Wallets)
    BY <1>3
  <2>2. /\ \A i \in 1..n : list[i] = candidates[i]
        /\ list[n + 1] = w /\ DOMAIN list = 1..(n + 1) /\ DOMAIN candidates = 1..n
    BY <1>6, <2>1
  <2>3. \A i \in 1..(n + 1) : i \in 1..n \/ i = n + 1
    BY <1>3
  <2>4. \A i \in 1..n : i \in 1..(n + 1)
    BY <1>3
  <2>5. n + 1 \in 1..(n + 1)
    BY <1>3
  <2> HIDE DEF list
  <2> QED  BY <1>3, <2>2, <2>3, <2>4, <2>5 DEF ToSet
<1> HIDE DEF list, all
<1>8. Sorted(list) = InRankOrder(seed, ToSet(list))
  <2>1. n + 1 \in Nat /\ Cardinality(ToSet(list)) = n + 1
    BY <1>3, <1>4, <1>7
  <2> HIDE DEF n
  <2> QED  BY <1>1, <1>6, <2>1, SortingIsRankOrder
<1> QED  BY <1>1, <1>5, <1>7, <1>8 DEF all

\* The entry chosen as the worst is the one that all others precede.
LEMMA WorstIsLast ==
    ASSUME LedgerInvariant, candidates # <<>>
    PROVE  LET z == WorstIndex(candidates) IN
           /\ z \in 1..Len(candidates)
           /\ \A j \in 1..Len(candidates) \ {z} :
                Precedes(seed, candidates[j], candidates[z])
<1> DEFINE n == Len(candidates)
           IsWorst(z) == \A j \in 1..n \ {z} :
                            Precedes(seed, candidates[j], candidates[z])
<1>1. /\ candidates \in [1..n -> Wallets]
      /\ \A i, j \in 1..n : i < j => Precedes(seed, candidates[i], candidates[j])
      /\ n = Cardinality(BestSeen) /\ BestSeen \in SUBSET Wallets
  BY ArrayOfBest
<1>2. n \in Nat
  BY <1>1, WalletSetsFinite
<1>3. n \in 1..n
  <2>1. candidates \in Seq(Wallets)
    BY <1>1, <1>2
  <2> QED  BY <1>2, <2>1
<1>4. IsWorst(n)
  BY <1>1, <1>2
<1>5. DOMAIN candidates = 1..n
  BY <1>1
<1>6. WorstIndex(candidates) = CHOOSE z \in 1..n : IsWorst(z)
  BY <1>5 DEF WorstIndex
<1> HIDE DEF n, IsWorst
<1>7. WorstIndex(candidates) \in 1..n /\ IsWorst(WorstIndex(candidates))
  BY <1>3, <1>4, <1>6
<1> QED  BY <1>7 DEF n, IsWorst

\* With the array full, the best of everything recorded, a new candidate
\* included, are the array and that candidate less the last of them.
LEMMA FullArrayDropsLast ==
    ASSUME LedgerInvariant, Len(candidates) = target_winners,
           NEW w \in Wallets, w \notin BestSeen,
           NEW z \in BestSeen \cup {w},
           \A v \in (BestSeen \cup {w}) \ {z} : Precedes(seed, v, z)
    PROVE  TopK(seed, recorded \cup {w}, target_winners) = (BestSeen \cup {w}) \ {z}
<1> DEFINE both == BestSeen \cup {w}
<1>1. /\ seed \in Seeds /\ target_winners \in Nat /\ recorded \in SUBSET Wallets
      /\ BestSeen \in SUBSET Wallets /\ Cardinality(BestSeen) = target_winners
  BY ArrayOfBest DEF LedgerInvariant
<1>2. TopK(seed, recorded \cup {w}, target_winners) = TopK(seed, both, target_winners)
  BY <1>1, BestMerges DEF BestSeen
<1>3. both \in SUBSET Wallets /\ Cardinality(both) = target_winners + 1
  <2> HIDE DEF BestSeen
  <2> QED  BY <1>1, CountOne
<1>4. TopK(seed, both, target_winners) = both \ {z}
  <2> HIDE DEF both
  <2>1. \A v \in both \ {z} : Precedes(seed, v, z)
    BY DEF both
  <2>2. z \in both
    BY DEF both
  <2> QED  BY <1>1, <1>3, <2>1, <2>2, WorstFallsOut
<1> QED  BY <1>2, <1>4

-----------------------------------------------------------------------------
\* The last of the array: every other entry precedes it.
LEMMA LastOfArray ==
    ASSUME LedgerInvariant, Len(candidates) = target_winners, target_winners > 0
    PROVE  LET z == candidates[WorstIndex(candidates)] IN
           /\ WorstIndex(candidates) \in 1..Len(candidates)
           /\ z \in BestSeen /\ z \in Wallets
           /\ BestSeen \ {z} =
                {candidates[j] : j \in 1..Len(candidates) \ {WorstIndex(candidates)}}
           /\ \A v \in BestSeen \ {z} : Precedes(seed, v, z)
<1> DEFINE worst == WorstIndex(candidates)
           z == candidates[worst]
           n == Len(candidates)
<1>1. /\ seed \in Seeds /\ BestSeen \in SUBSET Wallets
      /\ candidates \in [1..n -> Wallets] /\ ToSet(candidates) = BestSeen
  BY ArrayOfBest DEF LedgerInvariant
<1>2. /\ worst \in 1..n
      /\ \A j \in 1..n \ {worst} : Precedes(seed, candidates[j], z)
  <2>1. candidates # <<>>
    BY DEF LedgerInvariant
  <2> QED  BY <2>1, WorstIsLast
<1> HIDE DEF worst, n
<1>3. BestSeen = {candidates[j] : j \in 1..n}
  <2>1. DOMAIN candidates = 1..n
    BY <1>1
  <2> HIDE DEF BestSeen
  <2> QED  BY <1>1, <2>1 DEF ToSet
<1>4. z \in Wallets /\ \A j \in 1..n \ {worst} : candidates[j] # z
  <2>1. z \in Wallets
    BY <1>1, <1>2
  <2> QED  BY <1>1, <1>2, <2>1, PrecedesIsStrictOrder
<1>5. z \in BestSeen /\ BestSeen \ {z} = {candidates[j] : j \in 1..n \ {worst}}
  <2> HIDE DEF BestSeen
  <2> QED  BY <1>2, <1>3, <1>4
<1>6. \A v \in BestSeen \ {z} : Precedes(seed, v, z)
  <2> HIDE DEF BestSeen
  <2> QED  BY <1>2, <1>5
<1> QED  BY <1>2, <1>4, <1>5, <1>6 DEF worst, n

\* Replacing the worst entry of a full array by a better candidate.
LEMMA ReplaceKeepsBest ==
    ASSUME LedgerInvariant, NEW w \in Wallets, w \notin ToSet(candidates), ReplaceWorst(w)
    PROVE  candidates' = InRankOrder(seed, TopK(seed, recorded \cup {w}, target_winners))
<1> DEFINE worst == WorstIndex(candidates)
           z == candidates[worst]
           n == Len(candidates)
           list == [candidates EXCEPT ![worst] = w]
           best == (BestSeen \cup {w}) \ {z}
<1>1. /\ seed \in Seeds /\ target_winners \in Nat /\ target_winners > 0
      /\ n = target_winners /\ candidates' = Sorted(list) /\ Precedes(seed, w, z)
  BY DEF LedgerInvariant, ReplaceWorst, BeatsWorst
<1>2. /\ worst \in 1..n /\ z \in BestSeen /\ z \in Wallets
      /\ BestSeen \ {z} = {candidates[j] : j \in 1..n \ {worst}}
      /\ \A v \in BestSeen \ {z} : Precedes(seed, v, z)
  BY <1>1, LastOfArray
<1>3. /\ BestSeen \in SUBSET Wallets /\ Cardinality(BestSeen) = n
      /\ candidates \in [1..n -> Wallets] /\ w \notin BestSeen
  BY ArrayOfBest
<1> HIDE DEF z, worst, n, BestSeen
<1>4. TopK(seed, recorded \cup {w}, target_winners) = best
  <2>1. \A v \in (BestSeen \cup {w}) \ {z} : Precedes(seed, v, z)
    BY <1>1, <1>2
  <2>2. z \in BestSeen \cup {w} /\ Len(candidates) = target_winners
    BY <1>1, <1>2 DEF n
  <2> QED  BY <1>3, <2>1, <2>2, FullArrayDropsLast
<1>5. Cardinality(best) = n
  <2>1. Cardinality(BestSeen \cup {w}) = n + 1
    BY <1>3, CountOne
  <2>2. IsFiniteSet(BestSeen \cup {w}) /\ z \in BestSeen \cup {w}
    <3>1. IsFiniteSet(BestSeen)
      BY <1>3, WalletSetsFinite
    <3> QED  BY <1>2, <3>1, FS_AddElement
  <2>3. Cardinality(best) = Cardinality(BestSeen \cup {w}) - 1
    BY <2>2, FS_RemoveElement
  <2> QED  BY <1>1, <2>1, <2>3
<1>6. list \in [1..n -> Wallets]
  BY <1>3
<1>7. ToSet(list) = best
  <2>1. best = {candidates[j] : j \in 1..n \ {worst}} \cup {w}
    BY <1>2, <1>3
  <2>2. \A j \in 1..n : list[j] = IF j = worst THEN w ELSE candidates[j]
    BY <1>3
  <2>3. DOMAIN list = 1..n
    BY <1>6
  <2> HIDE DEF list, best
  <2> QED  BY <1>2, <2>1, <2>2, <2>3 DEF ToSet
<1> HIDE DEF list, best
<1>8. Sorted(list) = InRankOrder(seed, ToSet(list))
  BY <1>1, <1>5, <1>6, <1>7, SortingIsRankOrder
<1> QED  BY <1>1, <1>4, <1>7, <1>8

\* A candidate that does not precede the worst entry of a full array.
LEMMA DiscardKeepsBest ==
    ASSUME LedgerInvariant, NEW w \in Wallets, w \notin ToSet(candidates), Discard(w)
    PROVE  candidates' = InRankOrder(seed, TopK(seed, recorded \cup {w}, target_winners))
<1> DEFINE all == recorded \cup {w}
           z == candidates[WorstIndex(candidates)]
<1>1. /\ seed \in Seeds /\ target_winners \in Nat /\ recorded \in SUBSET Wallets
      /\ candidates = InRankOrder(seed, BestSeen) /\ candidates' = candidates
      /\ Len(candidates) = target_winners
  BY DEF LedgerInvariant, CandidatesAreBestSeen, Discard, BestSeen
<1>2. BestSeen \in SUBSET Wallets /\ w \notin BestSeen
  BY ArrayOfBest
<1>3. CASE target_winners = 0
  <2>1. ASSUME NEW S \in SUBSET Wallets
        PROVE  TopK(seed, S, 0) = {}
    <3>1. \A v \in S : Cardinality(Predecessors(seed, S, v)) \in 0..(Cardinality(S) - 1)
      BY <1>1, PredecessorsGrow
    <3>2. \A v \in S : ~(Cardinality(Predecessors(seed, S, v)) < 0)
      BY <3>1
    <3> QED  BY <3>2 DEF TopK
  <2>2. all \in SUBSET Wallets
    BY <1>1
  <2>3. BestSeen = {} /\ TopK(seed, all, target_winners) = {}
    <3> HIDE DEF all
    <3> QED  BY <1>1, <1>3, <2>1, <2>2 DEF BestSeen
  <2> QED  BY <1>1, <2>3
<1>4. CASE target_winners > 0
  <2>1. /\ z \in BestSeen /\ z \in Wallets
        /\ \A v \in BestSeen \ {z} : Precedes(seed, v, z)
    BY <1>1, <1>4, LastOfArray
  <2>2. ~Precedes(seed, w, z)
    BY <1>4 DEF Discard, BeatsWorst
  <2> HIDE DEF z, BestSeen
  <2>3. Precedes(seed, z, w)
    BY <1>1, <1>2, <2>1, <2>2, PrecedesIsStrictOrder
  <2>4. ASSUME NEW v \in BestSeen
        PROVE  Precedes(seed, v, w)
    <3>1. v \in Wallets /\ (v = z \/ Precedes(seed, v, z))
      BY <1>2, <2>1
    <3> QED  BY <1>1, <2>1, <2>3, <3>1, PrecedesIsStrictOrder
  <2>5. TopK(seed, all, target_winners) = (BestSeen \cup {w}) \ {w}
    <3>1. \A v \in (BestSeen \cup {w}) \ {w} : Precedes(seed, v, w)
      BY <2>4
    <3>2. w \in BestSeen \cup {w}
      OBVIOUS
    <3> QED  BY <1>1, <1>2, <3>1, <3>2, FullArrayDropsLast
  <2>6. (BestSeen \cup {w}) \ {w} = BestSeen
    BY <1>2
  <2> QED  BY <1>1, <2>5, <2>6
<1> QED  BY <1>1, <1>3, <1>4

\* Sorting an array that is in order changes nothing.
LEMMA CompleteKeepsBest ==
    ASSUME LedgerInvariant, Complete
    PROVE  candidates' = candidates
<1> DEFINE n == Len(candidates)
<1>1. /\ seed \in Seeds /\ candidates = InRankOrder(seed, BestSeen)
      /\ candidates' = Sorted(candidates)
  BY DEF LedgerInvariant, CandidatesAreBestSeen, Complete, BestSeen
<1>2. /\ n = Cardinality(BestSeen) /\ BestSeen \in SUBSET Wallets
      /\ candidates \in [1..n -> Wallets] /\ ToSet(candidates) = BestSeen
  BY ArrayOfBest
<1>3. n \in Nat
  BY <1>2, WalletSetsFinite
<1> HIDE DEF n, BestSeen
<1>4. Sorted(candidates) = InRankOrder(seed, ToSet(candidates))
  BY <1>1, <1>2, <1>3, SortingIsRankOrder
<1> QED  BY <1>1, <1>2, <1>4

LEMMA LedgerStep ==
    ASSUME LedgerInvariant, [LedgerNext]_ledgerVars
    PROVE  LedgerInvariant'
<1>1. ASSUME NEW w \in Wallets, RecordEligible(w)
      PROVE  LedgerInvariant'
  <2>1. /\ w \notin recorded /\ w \notin ToSet(candidates)
        /\ recorded' = recorded \cup {w}
        /\ UNCHANGED <<seed, target_winners>>
        /\ Push(w) \/ ReplaceWorst(w) \/ Discard(w)
    BY <1>1 DEF RecordEligible
  <2>2. candidates' = InRankOrder(seed, TopK(seed, recorded \cup {w}, target_winners))
    BY <2>1, PushKeepsBest, ReplaceKeepsBest, DiscardKeepsBest
  <2> QED  BY <2>1, <2>2 DEF LedgerInvariant, CandidatesAreBestSeen
<1>2. CASE Complete
  <2>1. UNCHANGED <<seed, target_winners, recorded>>
    BY <1>2 DEF Complete
  <2> QED  BY <1>2, <2>1, CompleteKeepsBest DEF LedgerInvariant, CandidatesAreBestSeen
<1>3. CASE UNCHANGED ledgerVars
  BY <1>3 DEF ledgerVars, LedgerInvariant, CandidatesAreBestSeen
<1> QED  BY <1>1, <1>2, <1>3 DEF LedgerNext

\* The array the program keeps is the best target_winners of all candidates
\* recorded, best first, for any ranks and any order of recording.
THEOREM ArrayIsBestSeen == LedgerSpec => []CandidatesAreBestSeen
<1>1. LedgerInit => LedgerInvariant
  <2> SUFFICES ASSUME LedgerInit PROVE LedgerInvariant
    OBVIOUS
  <2>1. /\ seed \in Seeds /\ target_winners \in Nat
        /\ candidates = <<>> /\ recorded = {}
    BY TargetsAssumption DEF LedgerInit
  <2>2. TopK(seed, {}, target_winners) = {}
    BY DEF TopK
  <2>3. InRankOrder(seed, {}) = <<>>
    <3>1. Cardinality({}) = 0
      BY FS_EmptySet
    <3> QED  BY <3>1 DEF InRankOrder
  <2> QED  BY <2>1, <2>2, <2>3 DEF LedgerInvariant, CandidatesAreBestSeen
<1>2. LedgerInvariant /\ [LedgerNext]_ledgerVars => LedgerInvariant'
  BY LedgerStep
<1>3. LedgerInvariant => CandidatesAreBestSeen
  BY DEF LedgerInvariant
<1> QED  BY <1>1, <1>2, <1>3, PTL DEF LedgerSpec
=============================================================================
