------------------------------- MODULE Ranking -------------------------------
(***************************************************************************)
(* Winner ranking: the order in which finalization compares candidates and *)
(* the reference definition of "the best k candidates of a set".           *)
(*                                                                         *)
(* A wallet is a natural number, its place in the byte order of public     *)
(* keys.  A reveal is the pair of a wallet and the commitment its plaintext*)
(* hashes to: the SHA-256 digest of one reveal is treated as injective in  *)
(* that pair.  The XOR of digests is a set of reveals, and the             *)
(* finalization seed, a hash of the giveaway id and that XOR, is the set.  *)
(* Rank stands for the SHA-256 rank of a wallet under a seed: an arbitrary *)
(* function, so nothing below depends on ranks being distinct.             *)
(***************************************************************************)
EXTENDS Integers, FiniteSets, Sequences

CONSTANTS
    Wallets,        \* public keys that may take part, numbered in byte order
    Commitments,    \* non-zero commitment hashes
    Rank(_, _)      \* compute_candidate_rank(seed, wallet)

ZeroHash == 0       \* the all-zero hash, which participate rejects
Reveals == Wallets \X Commitments
Seeds == SUBSET Reveals

ASSUME WalletsAssumption == Wallets \subseteq Nat /\ IsFiniteSet(Wallets)
ASSUME CommitmentsAssumption == ZeroHash \notin Commitments
ASSUME RankAssumption == \A s \in Seeds : \A w \in Wallets : Rank(s, w) \in Nat

-----------------------------------------------------------------------------
\* candidate_ordering(v, w).is_lt(): by rank, ties broken by the wallet bytes.
Precedes(seed, v, w) ==
    \/ Rank(seed, v) < Rank(seed, w)
    \/ Rank(seed, v) = Rank(seed, w) /\ v < w

\* The members of S that precede w: its position when S is sorted, from 0.
Predecessors(seed, S, w) == {v \in S : Precedes(seed, v, w)}

\* The wallets of S that fewer than k wallets of S precede.
TopK(seed, S, k) == {w \in S : Cardinality(Predecessors(seed, S, w)) < k}

\* winner_wallets: the candidates, best ranked first.
InRankOrder(seed, S) ==
    [i \in 1..Cardinality(S) |->
        CHOOSE w \in S : Cardinality(Predecessors(seed, S, w)) = i - 1]
=============================================================================
