------------------------------ MODULE MerkleTree ------------------------------
(***************************************************************************)
(* The commitment to the winners: building the root of the indexed Merkle  *)
(* tree and verifying one winner's proof (utils/crypto.rs).                *)
(*                                                                         *)
(* SHA-256 is treated as injective: a hash is the term it was computed     *)
(* from, a leaf or a pair of hashes.  The 44 bytes of a leaf and the 64 of *)
(* a pair are never equal, and neither are the two kinds of term.          *)
(***************************************************************************)
EXTENDS Integers, SequencesExt

MalformedHash == <<>>       \* proof bytes whose length is not 32

\* Mutant: the index of the winner is not part of what is hashed.
WinnerLeafWithoutIndex(index, winner, amount) == <<"leaf", 0, winner, amount>>

\* create_winner_leaf
WinnerLeaf(index, winner, amount) == <<"leaf", index, winner, amount>>
Node(left, right) == <<"node", left, right>>

\* Mutant: the last node of an odd level moves up unhashed.
NextLevelPromoting(level) ==
    [j \in 1..(Len(level) + 1) \div 2 |->
        IF 2 * j <= Len(level) THEN Node(level[2 * j - 1], level[2 * j])
        ELSE level[2 * j - 1]]

\* Pairs from the left; the last node of an odd level is its own sibling.
NextLevel(level) ==
    [j \in 1..(Len(level) + 1) \div 2 |->
        Node(level[2 * j - 1],
             IF 2 * j <= Len(level) THEN level[2 * j] ELSE level[2 * j - 1])]

WinnerLeaves(winners) ==
    [i \in DOMAIN winners |->
        WinnerLeaf(winners[i].index, winners[i].recipient, winners[i].amount)]

\* The leaves, and what each further pass of the loop makes of them.
Passes(winners) ==
    LET level[k \in 0..Len(winners)] ==
            IF k = 0 THEN WinnerLeaves(winners) ELSE NextLevel(level[k - 1])
    IN level

\* The levels of the tree, the leaves of the winners first, its root last.
Levels(winners) ==
    LET level == Passes(winners)
        height == CHOOSE k \in 0..Len(winners) :
                    /\ Len(level[k]) = 1
                    /\ \A j \in 0..k - 1 : Len(level[j]) > 1
    IN [k \in 1..height + 1 |-> level[k - 1]]

\* build_merkle_tree of at least one winner
MerkleRoot(winners) == Last(Levels(winners))[1]

\* A sibling lies on the side that the parity of the path index says.
HashWith(path_index, hash, sibling) ==
    IF path_index % 2 = 0 THEN Node(hash, sibling) ELSE Node(sibling, hash)

\* Each sibling is hashed with what the siblings before it gave.
HashesAlong(index, winner, amount, proof) ==
    LET current[k \in 0..Len(proof)] ==
            IF k = 0 THEN WinnerLeaf(index, winner, amount)
            ELSE HashWith(index \div 2^(k - 1), current[k - 1], proof[k])
    IN current

\* verify_merkle_proof
VerifyMerkleProof(index, winner, amount, proof, root) ==
    /\ MalformedHash \notin ToSet(proof)
    /\ HashesAlong(index, winner, amount, proof)[Len(proof)] = root

\* The proof an off-chain client builds from the winners the program emitted.
ProofOf(winners, index) ==
    LET levels == Levels(winners)
    IN [k \in 1..Len(levels) - 1 |->
            LET position == index \div 2^(k - 1)
                sibling == IF position % 2 = 0 THEN position + 1 ELSE position - 1
            IN IF sibling < Len(levels[k]) THEN levels[k][sibling + 1]
               ELSE levels[k][position + 1]]
=============================================================================
