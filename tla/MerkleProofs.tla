---------------------------- MODULE MerkleProofs ----------------------------
(***************************************************************************)
(* The commitment to the winners is complete and sound for every list of   *)
(* winners: the proof built from the list verifies, and nothing that is    *)
(* not in the list ever does.                                              *)
(***************************************************************************)
EXTENDS MerkleTree, SetTheorems, SequenceTheorems

-----------------------------------------------------------------------------
(* Powers of two *)

LEMMA PowerIsNat == ASSUME NEW n \in Nat PROVE 2^n \in Nat \ {0}
<1>1. IsFiniteSet(1..n) /\ Cardinality(1..n) = n
  BY FS_Interval
<1>2. IsFiniteSet(SUBSET (1..n)) /\ Cardinality(SUBSET (1..n)) = 2^n
  BY <1>1, FS_SUBSET
<1>3. {} \in SUBSET (1..n)
  OBVIOUS
<1>4. Cardinality(SUBSET (1..n)) \in Nat /\ Cardinality(SUBSET (1..n)) # 0
  BY <1>2, <1>3, FS_CardinalityType, FS_EmptySet
<1> QED  BY <1>2, <1>4

\* Every subset of 1..n occurs twice among those of 1..n+1.
LEMMA PowerDoubles == ASSUME NEW n \in Nat PROVE 2^(n + 1) = 2 * 2^n
<1> DEFINE S == SUBSET (1..n)
           With(A) == A \cup {n + 1}
           T == {With(A) : A \in S}
           f == [A \in S |-> With(A)]
<1>1. /\ IsFiniteSet(S) /\ Cardinality(S) = 2^n
      /\ Cardinality(SUBSET (1..n + 1)) = 2^(n + 1)
  <2>1. /\ IsFiniteSet(1..n) /\ Cardinality(1..n) = n
        /\ IsFiniteSet(1..n + 1) /\ Cardinality(1..n + 1) = n + 1
    BY FS_Interval
  <2> QED  BY <2>1, FS_SUBSET
<1>2. SUBSET (1..n + 1) = S \cup T
  <2>1. ASSUME NEW B \in SUBSET (1..n + 1) PROVE B \in S \cup T
    <3>1. CASE n + 1 \in B
      <4>1. B \ {n + 1} \in S /\ B = With(B \ {n + 1})
        BY <3>1
      <4> QED  BY <4>1
    <3>2. CASE n + 1 \notin B
      BY <3>2
    <3> QED  BY <3>1, <3>2
  <2>2. S \subseteq SUBSET (1..n + 1)
    OBVIOUS
  <2>3. T \subseteq SUBSET (1..n + 1)
    <3>1. ASSUME NEW A \in S PROVE With(A) \in SUBSET (1..n + 1)
      OBVIOUS
    <3> QED  BY <3>1
  <2> HIDE DEF S, T
  <2> QED  BY <2>1, <2>2, <2>3, Zenon
<1>3. S \cap T = {}
  OBVIOUS
<1>4. f \in Bijection(S, T)
  <2>1. f \in [S -> T]
    OBVIOUS
  <2>2. ASSUME NEW A \in S, NEW B \in S, f[A] = f[B] PROVE A = B
    BY <2>2
  <2>3. \A C \in T : \E A \in S : f[A] = C
    OBVIOUS
  <2> QED  BY <2>1, <2>2, <2>3, Zenon DEF Bijection, Injection, Surjection, IsInjective
<1> HIDE DEF S, T, f
<1>5. IsFiniteSet(T) /\ Cardinality(T) = Cardinality(S)
  BY <1>1, <1>4, FS_Bijection, Zenon DEF ExistsBijection
<1>6. Cardinality(S \cup T) = Cardinality(S) + Cardinality(T) - Cardinality(S \cap T)
  BY <1>1, <1>5, FS_Union
<1>7. Cardinality(S \cap T) = 0
  BY <1>3, FS_EmptySet
<1>8. Cardinality(S) \in Nat /\ Cardinality(S \cup T) = Cardinality(S) + Cardinality(S)
  BY <1>1, <1>5, <1>6, <1>7, FS_CardinalityType
<1>9. 2^(n + 1) = Cardinality(S) + Cardinality(S)
  BY <1>1, <1>2, <1>8, Zenon
<1> QED  BY <1>1, <1>8, <1>9

\* Halving an index once more (path_index /= 2).
LEMMA HalvingPath ==
    ASSUME NEW index \in Nat, NEW k \in Nat
    PROVE  /\ index \div 2^k \in Nat
           /\ index \div 2^(k + 1) = (index \div 2^k) \div 2
<1> DEFINE p == 2^k
           q == index \div p
           r == q \div 2
<1>1. p \in Nat \ {0} /\ 2^(k + 1) = 2 * p
  BY PowerIsNat, PowerDoubles
<1> HIDE DEF p
<1>2. q \in Nat /\ p * q <= index /\ index < p * q + p
  BY <1>1
<1> HIDE DEF q
<1>3. r \in Nat /\ (q = 2 * r \/ q = 2 * r + 1)
  BY <1>2
<1> HIDE DEF r
<1>4. p * (2 * r) = (2 * p) * r /\ p * (2 * r + 1) = (2 * p) * r + p
  BY <1>1, <1>3
<1>5. (2 * p) * r <= index /\ index < (2 * p) * r + 2 * p
  BY <1>1, <1>2, <1>3, <1>4
<1>6. index \div (2 * p) = r
  BY <1>1, <1>3, <1>5
<1> QED  BY <1>1, <1>2, <1>6 DEF q, r, p

-----------------------------------------------------------------------------
(* Hashes *)

LEMMA LeavesAndNodes ==
    /\ \A i, w, a, l, r : WinnerLeaf(i, w, a) # Node(l, r)
    /\ \A i, w, a, j, v, b :
            WinnerLeaf(i, w, a) = WinnerLeaf(j, v, b) => i = j /\ w = v /\ a = b
    /\ \A l, r, m, s : Node(l, r) = Node(m, s) => l = m /\ r = s
    /\ \A i, w, a : WinnerLeaf(i, w, a) # MalformedHash
    /\ \A l, r : Node(l, r) # MalformedHash
BY DEF WinnerLeaf, Node, MalformedHash

-----------------------------------------------------------------------------
(* The recursive functions are what their definitions say *)

LEMMA PassesDef ==
    ASSUME NEW winners, Len(winners) \in Nat
    PROVE  /\ Passes(winners)[0] = WinnerLeaves(winners)
           /\ \A k \in 1..Len(winners) :
                Passes(winners)[k] = NextLevel(Passes(winners)[k - 1])
<1> DEFINE n == Len(winners)
           leaves == WinnerLeaves(winners)
           Has(m) == \E f : f = [k \in 0..m |-> IF k = 0 THEN leaves ELSE NextLevel(f[k - 1])]
           S == {m \in Nat : Has(m)}
           p == CHOOSE f : f = [k \in 0..n |-> IF k = 0 THEN leaves ELSE NextLevel(f[k - 1])]
<1> HIDE DEF leaves
<1>1. 0 \in S
  <2> DEFINE f == [k \in 0..0 |-> leaves]
  <2>1. f = [k \in 0..0 |-> IF k = 0 THEN leaves ELSE NextLevel(f[k - 1])]
    OBVIOUS
  <2>2. Has(0)
    BY <2>1
  <2> QED  BY <2>2
<1>2. ASSUME NEW m \in Nat, m \in S PROVE m + 1 \in S
  <2>1. PICK f : f = [k \in 0..m |-> IF k = 0 THEN leaves
                                     ELSE NextLevel(f[k - 1])]
    BY <1>2
  <2> DEFINE g == [k \in 0..m + 1 |-> IF k = m + 1 THEN NextLevel(f[m]) ELSE f[k]]
  <2>2. ASSUME NEW k \in 0..m + 1
        PROVE  g[k] = IF k = 0 THEN leaves ELSE NextLevel(g[k - 1])
    <3>1. CASE k = 0
      BY <2>1, <3>1
    <3>2. CASE k \in 1..m
      <4>1. g[k] = f[k] /\ g[k - 1] = f[k - 1] /\ f[k] = NextLevel(f[k - 1])
        BY <2>1, <3>2
      <4> QED  BY <3>2, <4>1
    <3>3. CASE k = m + 1
      <4>1. g[k] = NextLevel(f[m]) /\ g[k - 1] = f[m]
        BY <3>3
      <4> QED  BY <3>3, <4>1
    <3> QED  BY <3>1, <3>2, <3>3
  <2>3. g = [k \in 0..m + 1 |-> IF k = 0 THEN leaves
                                ELSE NextLevel(g[k - 1])]
    BY <2>2
  <2>4. Has(m + 1)
    BY <2>3
  <2> QED  BY <2>4
<1>3. n \in S
  <2> HIDE DEF S
  <2> QED  BY <1>1, <1>2, NatSetInduction
<1>4. p = [k \in 0..n |-> IF k = 0 THEN leaves ELSE NextLevel(p[k - 1])]
  <2>1. Has(n)
    BY <1>3
  <2> QED  BY <2>1
<1>5. Passes(winners) = p
  BY DEF Passes, leaves
<1> HIDE DEF p
<1>6. p[0] = leaves /\ \A k \in 1..n : p[k] = NextLevel(p[k - 1])
  BY <1>4
<1> QED  BY <1>5, <1>6 DEF leaves

LEMMA HashesDef ==
    ASSUME NEW index, NEW winner, NEW amount, NEW proof, Len(proof) \in Nat
    PROVE  LET c == HashesAlong(index, winner, amount, proof)
           IN /\ c[0] = WinnerLeaf(index, winner, amount)
              /\ \A k \in 1..Len(proof) :
                    c[k] = HashWith(index \div 2^(k - 1), c[k - 1], proof[k])
<1> DEFINE n == Len(proof)
           leaf == WinnerLeaf(index, winner, amount)
           Along(k, h) == HashWith(index \div 2^(k - 1), h, proof[k])
           Has(m) == \E f : f = [k \in 0..m |-> IF k = 0 THEN leaf ELSE Along(k, f[k - 1])]
           S == {m \in Nat : Has(m)}
           p == CHOOSE f : f = [k \in 0..n |-> IF k = 0 THEN leaf ELSE Along(k, f[k - 1])]
<1> HIDE DEF leaf, Along
<1>1. 0 \in S
  <2> DEFINE f == [k \in 0..0 |-> leaf]
  <2>1. f = [k \in 0..0 |-> IF k = 0 THEN leaf ELSE Along(k, f[k - 1])]
    OBVIOUS
  <2>2. Has(0)
    BY <2>1
  <2> QED  BY <2>2
<1>2. ASSUME NEW m \in Nat, m \in S PROVE m + 1 \in S
  <2>1. PICK f : f = [k \in 0..m |-> IF k = 0 THEN leaf ELSE Along(k, f[k - 1])]
    BY <1>2
  <2> DEFINE g == [k \in 0..m + 1 |-> IF k = m + 1 THEN Along(k, f[m]) ELSE f[k]]
  <2>2. ASSUME NEW k \in 0..m + 1
        PROVE  g[k] = IF k = 0 THEN leaf ELSE Along(k, g[k - 1])
    <3>1. CASE k = 0
      BY <2>1, <3>1
    <3>2. CASE k \in 1..m
      <4>1. g[k] = f[k] /\ g[k - 1] = f[k - 1] /\ f[k] = Along(k, f[k - 1])
        BY <2>1, <3>2
      <4> QED  BY <3>2, <4>1
    <3>3. CASE k = m + 1
      <4>1. g[k] = Along(k, f[m]) /\ g[k - 1] = f[m]
        BY <3>3
      <4> QED  BY <3>3, <4>1
    <3> QED  BY <3>1, <3>2, <3>3
  <2>3. g = [k \in 0..m + 1 |-> IF k = 0 THEN leaf ELSE Along(k, g[k - 1])]
    BY <2>2
  <2>4. Has(m + 1)
    BY <2>3
  <2> QED  BY <2>4
<1>3. n \in S
  <2> HIDE DEF S
  <2> QED  BY <1>1, <1>2, NatSetInduction
<1>4. p = [k \in 0..n |-> IF k = 0 THEN leaf ELSE Along(k, p[k - 1])]
  <2>1. Has(n)
    BY <1>3
  <2> QED  BY <2>1
<1>5. HashesAlong(index, winner, amount, proof) = p
  BY DEF HashesAlong, leaf, Along
<1> HIDE DEF p
<1>6. p[0] = leaf /\ \A k \in 1..n : p[k] = Along(k, p[k - 1])
  BY <1>4
<1> QED  BY <1>5, <1>6 DEF leaf, Along

-----------------------------------------------------------------------------
(* The shape of the tree *)

\* A level is a non-empty list.
IsLevel(level) == Len(level) \in Nat \ {0} /\ DOMAIN level = 1..Len(level)

LEMMA NextLevelShape ==
    ASSUME NEW level, IsLevel(level)
    PROVE  /\ IsLevel(NextLevel(level))
           /\ Len(NextLevel(level)) = (Len(level) + 1) \div 2
<1> DEFINE m == (Len(level) + 1) \div 2
           next == NextLevel(level)
<1>1. m \in Nat \ {0}
  BY DEF IsLevel
<1>2. next = [j \in 1..m |-> next[j]]
  BY DEF NextLevel
<1> HIDE DEF m, next
<1>3. next \in Seq({next[j] : j \in 1..m}) /\ Len(next) = m
  <2>1. next \in [1..m -> {next[j] : j \in 1..m}]
    BY <1>2
  <2> QED  BY <1>1, <2>1, SeqDef
<1>4. DOMAIN next = 1..m
  BY <1>2
<1> QED  BY <1>1, <1>3, <1>4 DEF IsLevel, m, next

\* Every pass shortens the list until one hash is left.
LEMMA PassesShape ==
    ASSUME NEW winners, IsLevel(winners)
    PROVE  \A k \in 0..Len(winners) :
                /\ IsLevel(Passes(winners)[k])
                /\ \/ Len(Passes(winners)[k]) = 1
                   \/ Len(Passes(winners)[k]) <= Len(winners) - k
<1> DEFINE n == Len(winners)
           level(k) == Passes(winners)[k]
           Shaped(k) == IsLevel(level(k)) /\ (Len(level(k)) = 1 \/ Len(level(k)) <= n - k)
           S == {k \in Nat : k <= n => Shaped(k)}
<1>1. n \in Nat \ {0}
  BY DEF IsLevel
<1>2. level(0) = WinnerLeaves(winners) /\ \A k \in 1..n : level(k) = NextLevel(level(k - 1))
  BY <1>1, PassesDef
<1> HIDE DEF level
<1>3. Shaped(0)
  <2> DEFINE leaves == WinnerLeaves(winners)
  <2>1. leaves = [j \in 1..n |-> leaves[j]]
    BY DEF WinnerLeaves, IsLevel
  <2> HIDE DEF leaves
  <2>2. leaves \in [1..n -> {leaves[j] : j \in 1..n}]
    BY <2>1
  <2>3. leaves \in Seq({leaves[j] : j \in 1..n}) /\ Len(leaves) = n /\ DOMAIN leaves = 1..n
    BY <1>1, <2>2, SeqDef
  <2> QED  BY <1>1, <1>2, <2>3 DEF IsLevel, leaves
<1>4. ASSUME NEW k \in Nat, k \in S PROVE k + 1 \in S
  <2>1. SUFFICES ASSUME k + 1 <= n PROVE Shaped(k + 1)
    OBVIOUS
  <2>2. Shaped(k) /\ level(k + 1) = NextLevel(level(k))
    BY <1>1, <1>2, <1>4, <2>1
  <2>3. IsLevel(level(k + 1)) /\ Len(level(k + 1)) = (Len(level(k)) + 1) \div 2
    BY <2>2, NextLevelShape
  <2> DEFINE a == Len(level(k))
             b == Len(level(k + 1))
  <2>4. a \in Nat \ {0} /\ b = (a + 1) \div 2 /\ (a = 1 \/ a <= n - k)
    BY <2>2, <2>3 DEF IsLevel
  <2> HIDE DEF a, b, n
  <2>5. b = 1 \/ b <= n - (k + 1)
    BY <1>1, <2>4
  <2> QED  BY <2>3, <2>5 DEF b
<1>5. 0 \in S
  BY <1>3
<1> HIDE DEF S
<1>6. Nat \subseteq S
  BY <1>4, <1>5, NatSetInduction
<1> QED  BY <1>1, <1>6 DEF S, level

\* The loop ends, and the root is what it leaves.
LEMMA LevelsDef ==
    ASSUME NEW winners, IsLevel(winners)
    PROVE  \E h \in 0..Len(winners) :
                /\ Len(Passes(winners)[h]) = 1
                /\ Levels(winners) = [k \in 1..h + 1 |-> Passes(winners)[k - 1]]
                /\ Len(Levels(winners)) = h + 1
                /\ MerkleRoot(winners) = Passes(winners)[h][1]
<1> DEFINE n == Len(winners)
           level == Passes(winners)
           First(k) == Len(level[k]) = 1 /\ \A j \in 0..k - 1 : Len(level[j]) > 1
           height == CHOOSE k \in 0..n : First(k)
           S == {k \in 0..n : Len(level[k]) = 1}
<1>1. n \in Nat \ {0}
  BY DEF IsLevel
<1> HIDE DEF n, level
<1>2. \A k \in 0..n : Len(level[k]) \in Nat \ {0} /\ (Len(level[k]) = 1 \/ Len(level[k]) <= n - k)
  BY PassesShape DEF level, n, IsLevel
<1>3. n \in S
  BY <1>1, <1>2
<1>4. PICK x \in S : \A y \in S : x <= y
  <2>1. S \in SUBSET Nat /\ S # {}
    BY <1>1, <1>3
  <2> HIDE DEF S
  <2> QED  BY <2>1, LeastNat
<1>5. x \in 0..n /\ First(x)
  <2>1. x \in 0..n /\ Len(level[x]) = 1
    BY <1>4
  <2>2. ASSUME NEW j \in 0..x - 1 PROVE Len(level[j]) > 1
    <3>1. j \in 0..n /\ j < x
      BY <1>1, <2>1
    <3>2. j \notin S
      BY <1>4, <2>1, <3>1
    <3>3. Len(level[j]) # 1
      BY <3>1, <3>2
    <3>4. Len(level[j]) \in Nat \ {0}
      BY <1>2, <3>1
    <3> DEFINE a == Len(level[j])
    <3>5. a \in Nat \ {0} /\ a # 1
      BY <3>3, <3>4
    <3> HIDE DEF a
    <3>6. a > 1
      BY <3>5
    <3> QED  BY <3>6 DEF a
  <2> QED  BY <2>1, <2>2
<1> HIDE DEF S, First
<1>6. height \in 0..n /\ First(height)
  BY <1>5
<1>7. Levels(winners) = [k \in 1..height + 1 |-> level[k - 1]]
  BY DEF Levels, level, n, First
<1> HIDE DEF height
<1>8. Len(Levels(winners)) = height + 1
  <2> DEFINE L == Levels(winners)
  <2>1. L \in [1..height + 1 -> {level[k] : k \in 0..n}]
    <3>1. \A k \in 1..height + 1 : k - 1 \in 0..n
      BY <1>1, <1>6
    <3> QED  BY <1>7, <3>1
  <2> HIDE DEF L
  <2>2. Len(L) = height + 1
    BY <1>6, <2>1, SeqDef
  <2> QED  BY <2>2 DEF L
<1>9. Last(Levels(winners)) = level[height]
  BY <1>6, <1>7, <1>8 DEF Last
<1> QED  BY <1>6, <1>7, <1>8, <1>9 DEF MerkleRoot, First, level, n

LeafOf(entry) == WinnerLeaf(entry.index, entry.recipient, entry.amount)

\* What is hashed into each node.
LEMMA TreeNodes ==
    ASSUME NEW winners, IsLevel(winners)
    PROVE  /\ DOMAIN Passes(winners)[0] = DOMAIN winners
           /\ \A x \in DOMAIN winners : Passes(winners)[0][x] = LeafOf(winners[x])
           /\ \A k \in 1..Len(winners) :
                LET below == Passes(winners)[k - 1]
                IN \A x \in DOMAIN Passes(winners)[k] :
                    /\ 2 * x - 1 \in DOMAIN below
                    /\ 2 * x <= Len(below) => 2 * x \in DOMAIN below
                    /\ Passes(winners)[k][x] =
                        Node(below[2 * x - 1],
                             IF 2 * x <= Len(below) THEN below[2 * x] ELSE below[2 * x - 1])
<1> DEFINE n == Len(winners)
           level == Passes(winners)
<1>1. n \in Nat \ {0} /\ level[0] = WinnerLeaves(winners)
      /\ \A k \in 1..n : level[k] = NextLevel(level[k - 1])
  BY PassesDef DEF IsLevel
<1>2. \A k \in 0..n : IsLevel(level[k])
  BY PassesShape
<1> HIDE DEF level, n
<1>3. /\ DOMAIN level[0] = DOMAIN winners
      /\ \A x \in DOMAIN winners : level[0][x] = LeafOf(winners[x])
  BY <1>1 DEF WinnerLeaves, LeafOf
<1>4. ASSUME NEW k \in 1..n, NEW x \in DOMAIN level[k]
      PROVE  /\ 2 * x - 1 \in DOMAIN level[k - 1]
             /\ 2 * x <= Len(level[k - 1]) => 2 * x \in DOMAIN level[k - 1]
             /\ level[k][x] =
                  Node(level[k - 1][2 * x - 1],
                       IF 2 * x <= Len(level[k - 1]) THEN level[k - 1][2 * x]
                       ELSE level[k - 1][2 * x - 1])
  <2> DEFINE below == level[k - 1]
             len == Len(below)
  <2>1. k - 1 \in 0..n
    BY <1>1
  <2>2. IsLevel(below) /\ level[k] = NextLevel(below)
    BY <1>1, <1>2, <2>1
  <2> HIDE DEF below
  <2>3. len \in Nat \ {0} /\ DOMAIN below = 1..len
    BY <2>2 DEF IsLevel
  <2>4. x \in 1..(len + 1) \div 2
        /\ level[k][x] = Node(below[2 * x - 1],
                              IF 2 * x <= len THEN below[2 * x] ELSE below[2 * x - 1])
    BY <2>2 DEF NextLevel
  <2> HIDE DEF len
  <2>5. 2 * x - 1 \in 1..len /\ (2 * x <= len => 2 * x \in 1..len)
    BY <2>3, <2>4
  <2> QED  BY <2>3, <2>4, <2>5 DEF len, below
<1> QED  BY <1>3, <1>4 DEF level, n

-----------------------------------------------------------------------------
(* Soundness *)

\* Whatever is offered as a proof for whatever index, winner and amount, if it
\* leads to the root of the winners then some entry of theirs is hashed into
\* the very leaf it starts from (verify_merkle_proof).
THEOREM OnlyEntriesVerify ==
    ASSUME NEW winners, IsLevel(winners),
           NEW index, NEW winner, NEW amount, NEW proof, Len(proof) \in Nat,
           VerifyMerkleProof(index, winner, amount, proof, MerkleRoot(winners))
    PROVE  \E x \in DOMAIN winners : /\ winners[x].index = index
                                     /\ winners[x].recipient = winner
                                     /\ winners[x].amount = amount
<1> DEFINE n == Len(winners)
           m == Len(proof)
           level == Passes(winners)
           c == HashesAlong(index, winner, amount, proof)
           Occurs(hash, k) == \E x \in DOMAIN level[k] : level[k][x] = hash
           Sound(j) == \A k \in 0..n : Occurs(c[j], k) => Occurs(c[0], 0)
           S == {j \in Nat : j <= m => Sound(j)}
<1>1. PICK h \in 0..n : MerkleRoot(winners) = level[h][1]
  BY LevelsDef
<1>2. n \in Nat \ {0} /\ \A k \in 0..n : 1 \in DOMAIN level[k]
  <2>1. n \in Nat \ {0} /\ \A k \in 0..n : IsLevel(level[k])
    BY PassesShape DEF IsLevel
  <2> HIDE DEF level, n
  <2> QED  BY <2>1 DEF IsLevel
<1>3. c[0] = WinnerLeaf(index, winner, amount)
  BY HashesDef
<1>4. \A j \in 1..m : c[j] = Node(c[j - 1], proof[j]) \/ c[j] = Node(proof[j], c[j - 1])
  BY HashesDef DEF HashWith
<1>5. Occurs(c[m], h)
  BY <1>1, <1>2 DEF VerifyMerkleProof
<1>6. \A k \in 1..n : \A x \in DOMAIN level[k] :
        \E y, z \in DOMAIN level[k - 1] :
            level[k][x] = Node(level[k - 1][y], level[k - 1][z])
  BY TreeNodes
<1> HIDE DEF level, c, n, m
<1>7. Sound(0)
  <2>1. ASSUME NEW k \in 1..n PROVE ~Occurs(c[0], k)
    BY <1>3, <1>6, <2>1, LeavesAndNodes
  <2>2. \A k \in 0..n : k = 0 \/ k \in 1..n
    BY <1>2
  <2> QED  BY <2>1, <2>2
<1>8. ASSUME NEW j \in Nat, j \in S PROVE j + 1 \in S
  <2>1. SUFFICES ASSUME j + 1 <= m, NEW k \in 0..n, Occurs(c[j + 1], k)
                 PROVE  Occurs(c[0], 0)
    OBVIOUS
  <2>2. m \in Nat /\ j <= m /\ j + 1 \in 1..m /\ (j + 1) - 1 = j
    BY <2>1 DEF m
  <2>3. Sound(j)
    BY <1>8, <2>2
  <2>4. c[j + 1] = Node(c[j], proof[j + 1]) \/ c[j + 1] = Node(proof[j + 1], c[j])
    BY <1>4, <2>2
  <2>5. CASE k = 0
    <3>1. \A x \in DOMAIN level[0] : \E w \in DOMAIN winners : level[0][x] = LeafOf(winners[w])
      BY TreeNodes DEF level
    <3> QED  BY <2>1, <2>4, <2>5, <3>1, LeavesAndNodes DEF LeafOf
  <2>6. CASE k \in 1..n
    <3>1. PICK y, z \in DOMAIN level[k - 1] :
                c[j + 1] = Node(level[k - 1][y], level[k - 1][z])
      BY <1>6, <2>1, <2>6
    <3>2. Occurs(c[j], k - 1)
      BY <2>4, <3>1, LeavesAndNodes
    <3>3. k - 1 \in 0..n
      BY <1>2, <2>6
    <3> QED  BY <2>3, <3>2, <3>3
  <2> QED  BY <1>2, <2>5, <2>6
<1>9. 0 \in S
  BY <1>7
<1>10. m \in S
  <2> HIDE DEF S
  <2> QED  BY <1>8, <1>9, NatSetInduction DEF m
<1>11. Occurs(c[0], 0)
  BY <1>1, <1>5, <1>10 DEF m
<1>12. PICK x \in DOMAIN winners : LeafOf(winners[x]) = WinnerLeaf(index, winner, amount)
  BY <1>3, <1>11, TreeNodes DEF level
<1> QED  BY <1>12, LeavesAndNodes DEF LeafOf

-----------------------------------------------------------------------------
(* Completeness *)

\* The proof a client builds from the list of winners verifies for each of
\* them, whatever their number: where a level is odd (2 * x > Len), the client
\* and build_merkle_tree take the same hash twice.
THEOREM DerivedProofVerifies ==
    ASSUME NEW winners, IsLevel(winners),
           NEW index \in Nat, index + 1 \in DOMAIN winners,
           winners[index + 1].index = index
    PROVE  VerifyMerkleProof(index, winners[index + 1].recipient,
                             winners[index + 1].amount,
                             ProofOf(winners, index), MerkleRoot(winners))
<1> DEFINE n == Len(winners)
           level == Passes(winners)
           entry == winners[index + 1]
           proof == ProofOf(winners, index)
           c == HashesAlong(index, entry.recipient, entry.amount, proof)
           at(k) == index \div 2^k
           SiblingOf(k) == IF at(k) % 2 = 0 THEN at(k) + 1 ELSE at(k) - 1
           Meets(k) == at(k) + 1 \in DOMAIN level[k] /\ c[k] = level[k][at(k) + 1]
<1>1. PICK h \in 0..n :
            /\ Len(level[h]) = 1
            /\ Levels(winners) = [k \in 1..h + 1 |-> level[k - 1]]
            /\ Len(Levels(winners)) = h + 1
            /\ MerkleRoot(winners) = level[h][1]
  BY LevelsDef
<1> DEFINE S == {k \in Nat : k <= h => Meets(k)}
<1>2. n \in Nat \ {0} /\ h \in Nat /\ h <= n /\ \A k \in 0..n : IsLevel(level[k])
  <2>1. n \in Nat \ {0}
    BY DEF IsLevel
  <2>2. \A k \in 0..n : IsLevel(level[k])
    BY PassesShape
  <2> HIDE DEF n, level
  <2>3. h \in Nat /\ h <= n
    BY <2>1
  <2> QED  BY <2>1, <2>2, <2>3
<1>3. \A k \in Nat : at(k) \in Nat /\ at(k + 1) = at(k) \div 2
  BY HalvingPath
<1>4. /\ \A k \in 1..h :
            proof[k] = IF SiblingOf(k - 1) < Len(level[k - 1])
                       THEN level[k - 1][SiblingOf(k - 1) + 1]
                       ELSE level[k - 1][at(k - 1) + 1]
      /\ proof = [k \in 1..h |-> proof[k]]
  <2> HIDE DEF level
  <2> QED  BY <1>1, <1>2 DEF ProofOf
<1> HIDE DEF proof
<1>5. Len(proof) = h /\ DOMAIN proof = 1..h
  <2>1. proof \in [1..h -> {proof[k] : k \in 1..h}]
    BY <1>4
  <2> QED  BY <1>2, <2>1, SeqDef
<1>6. /\ c[0] = WinnerLeaf(index, entry.recipient, entry.amount)
      /\ \A k \in 1..h : c[k] = HashWith(at(k - 1), c[k - 1], proof[k])
  <2>1. Len(proof) \in Nat
    BY <1>2, <1>5
  <2>2. /\ c[0] = WinnerLeaf(index, entry.recipient, entry.amount)
        /\ \A k \in 1..Len(proof) : c[k] = HashWith(at(k - 1), c[k - 1], proof[k])
    BY <2>1, HashesDef
  <2> QED  BY <1>5, <2>2
<1>7. at(0) = index
  <2>1. 2^0 = 1
    OBVIOUS
  <2> QED  BY <2>1
<1> HIDE DEF level, n, c, at
<1>8. Meets(0)
  BY <1>6, <1>7, TreeNodes DEF LeafOf, level
<1>9. ASSUME NEW k \in Nat, k \in S PROVE k + 1 \in S
  <2>1. SUFFICES ASSUME k + 1 <= h PROVE Meets(k + 1)
    OBVIOUS
  <2> DEFINE below == level[k]
             pos == at(k)
             up == at(k + 1)
             len == Len(below)
             sibling == IF SiblingOf(k) < len THEN below[SiblingOf(k) + 1] ELSE below[pos + 1]
  <2>2. k \in 0..n /\ k + 1 \in 1..h /\ k + 1 \in 1..n /\ k + 1 \in 0..n /\ (k + 1) - 1 = k
    BY <1>2, <2>1
  <2>3. pos \in Nat /\ up = pos \div 2
    BY <1>3
  <2>4. IsLevel(below) /\ IsLevel(level[k + 1]) /\ Len(level[k + 1]) = (len + 1) \div 2
    BY <1>2, <2>2, PassesDef, NextLevelShape DEF level, n
  <2>5. pos + 1 \in DOMAIN below /\ c[k] = below[pos + 1]
    BY <1>9, <2>1
  <2>6. c[k + 1] = HashWith(pos, c[k], sibling)
    BY <1>4, <1>6, <2>2
  <2>7. \A x \in DOMAIN level[k + 1] :
            level[k + 1][x] =
                Node(below[2 * x - 1],
                     IF 2 * x <= len THEN below[2 * x] ELSE below[2 * x - 1])
    BY <2>2, TreeNodes DEF level, n
  <2> HIDE DEF below
  <2>8. len \in Nat \ {0} /\ DOMAIN below = 1..len
        /\ DOMAIN level[k + 1] = 1..(len + 1) \div 2
    BY <2>4 DEF IsLevel
  <2> HIDE DEF pos, up, len
  <2>9. pos < len /\ up \in Nat /\ (pos = 2 * up \/ pos = 2 * up + 1)
    BY <2>3, <2>5, <2>8
  <2>10. up + 1 \in DOMAIN level[k + 1]
    BY <2>8, <2>9
  <2>11. level[k + 1][up + 1] =
            Node(below[2 * up + 1], IF 2 * up + 2 <= len THEN below[2 * up + 2] ELSE below[2 * up + 1])
    <3>1. 2 * (up + 1) - 1 = 2 * up + 1 /\ 2 * (up + 1) = 2 * up + 2
      BY <2>9
    <3> QED  BY <2>7, <2>10, <3>1
  <2>12. CASE pos = 2 * up
    <3>1. pos % 2 = 0
      BY <2>9, <2>12
    <3>2. sibling = IF 2 * up + 2 <= len THEN below[2 * up + 2] ELSE below[2 * up + 1]
      BY <2>8, <2>9, <2>12, <3>1 DEF pos
    <3> QED  BY <2>5, <2>6, <2>10, <2>11, <2>12, <3>1, <3>2 DEF HashWith, up, pos
  <2>13. CASE pos = 2 * up + 1
    <3>1. pos % 2 # 0
      BY <2>9, <2>13
    <3>2. sibling = below[2 * up + 1] /\ 2 * up + 2 <= len
      BY <2>8, <2>9, <2>13, <3>1 DEF pos
    <3>3. c[k] = below[2 * up + 2]
      <4>1. pos + 1 = 2 * up + 2
        BY <2>9, <2>13
      <4> QED  BY <2>5, <4>1
    <3>4. c[k + 1] = Node(below[2 * up + 1], below[2 * up + 2])
      BY <2>6, <3>1, <3>2, <3>3 DEF HashWith
    <3> QED  BY <2>10, <2>11, <3>2, <3>4 DEF up
  <2> QED  BY <2>9, <2>12, <2>13
<1>10. \A k \in 0..h : Meets(k)
  <2>1. 0 \in S
    BY <1>8
  <2>2. Nat \subseteq S
    <3> HIDE DEF S
    <3> QED  BY <1>9, <2>1, NatSetInduction
  <2> QED  BY <1>2, <2>2
<1> HIDE DEF S
<1>11. c[h] = level[h][1]
  <2>1. DOMAIN level[h] = 1..1
    BY <1>1, <1>2 DEF IsLevel
  <2>2. at(h) + 1 \in 1..1 /\ c[h] = level[h][at(h) + 1]
    BY <1>2, <1>10, <2>1
  <2>3. at(h) + 1 = 1
    BY <2>2
  <2> QED  BY <2>2, <2>3
<1>12. MalformedHash \notin ToSet(proof)
  <2>1. \A k \in 0..n : \A x \in DOMAIN level[k] : level[k][x] # MalformedHash
    <3>1. \A k \in 0..n : k = 0 \/ k \in 1..n
      BY <1>2
    <3> QED  BY <3>1, TreeNodes, LeavesAndNodes DEF LeafOf, level, n
  <2>2. ASSUME NEW k \in 1..h PROVE proof[k] # MalformedHash
    <3> DEFINE below == level[k - 1]
               pos == at(k - 1)
               len == Len(below)
    <3>1. k - 1 \in 0..n /\ k - 1 \in 0..h /\ k - 1 \in Nat
      BY <1>2
    <3>2. pos + 1 \in DOMAIN below
      BY <1>10, <3>1
    <3>3. len \in Nat \ {0} /\ DOMAIN below = 1..len
      BY <1>2, <3>1 DEF IsLevel
    <3>4. \/ proof[k] = below[pos + 1]
          \/ SiblingOf(k - 1) < len /\ proof[k] = below[SiblingOf(k - 1) + 1]
      BY <1>4
    <3>5. pos \in Nat /\ SiblingOf(k - 1) \in {pos + 1, pos - 1}
          /\ (SiblingOf(k - 1) = pos - 1 => pos % 2 # 0)
      BY <1>3, <3>1
    <3>6. SiblingOf(k - 1) \in Nat
      BY <3>5
    <3>7. SiblingOf(k - 1) < len => SiblingOf(k - 1) + 1 \in DOMAIN below
      BY <3>3, <3>6
    <3> QED  BY <2>1, <3>1, <3>2, <3>4, <3>7
  <2> QED  BY <1>5, <2>2 DEF ToSet
<1>13. VerifyMerkleProof(index, entry.recipient, entry.amount, proof, MerkleRoot(winners))
  BY <1>1, <1>5, <1>11, <1>12 DEF VerifyMerkleProof, c
<1> QED  BY <1>13 DEF proof
=============================================================================
