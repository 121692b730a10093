--------------------------- MODULE PayoutProperties ---------------------------
(***************************************************************************)
(* What paying in batches promises, whatever batches are sent, resent or   *)
(* refused.                                                                *)
(***************************************************************************)
EXTENDS PayoutLedger

Indices == 0..winners_count - 1
WalletOf(index) == winner_wallets[index + 1]
IsPaid(index) == IsWinnerPaid(paid_bitmap, index)

\* The packed bits are the payments: a winner's bit is set exactly if the
\* winner has received one share, the counter counts them, and the giveaway is
\* settled with the last of them, also across byte boundaries and however
\* batches were cut, repeated or refused half way.
BitmapIsPayments ==
    /\ \A i \in Indices : received[WalletOf(i)] =
                            IF IsPaid(i) THEN per_winner_lamports ELSE 0
    /\ paid_count = Cardinality({i \in Indices : IsPaid(i)})
    /\ settled <=> paid_count = winners_count
    /\ settled => vault = 0

TypeOK ==
    /\ winners_count \in WinnerCounts
    /\ per_winner_lamports \in Nat \ {0} /\ service_fee \in Nat
    /\ locked \in BOOLEAN /\ settled \in BOOLEAN
    /\ paid_bitmap \in [1..BitmapBytes(winners_count) -> 0..255]
    /\ paid_count \in Nat /\ vault \in Nat
    /\ received \in [Payees -> Nat]
    /\ funded \subseteq Payees \cup {Authority}

\* The published terms and the proofs that clients derived from them.
TermsAsPublished ==
    LET winners == WinnerEntries(winner_wallets, per_winner_lamports)
    IN /\ winner_wallets = [i \in 1..winners_count |-> i]
       /\ merkle_root = MerkleRoot(winners)
       /\ proofs = [i \in DOMAIN winners |-> ProofOf(winners, i - 1)]

\* Why: no batch changes the terms or pays an account that did not win, and
\* until the last winner is paid the vault covers its rent, the fee and a share
\* for each winner whose bit is clear.
PayoutInvariant ==
    /\ TypeOK /\ TermsAsPublished /\ BitmapIsPayments
    /\ \A w \in Payees \ ToSet(winner_wallets) : received[w] = 0
    /\ ~settled =>
            vault >= RENT + service_fee
                        + per_winner_lamports * (winners_count - paid_count)

\* Nobody is left behind: at any time every unpaid winner could be paid next
\* with the proof derived from the list, odd levels of the tree included,
\* unless the runtime refuses that winner's account or, for the last winner,
\* the authority's.
UnpaidWinnerIsPayable ==
    locked =>
        \A i \in Indices :
            ~IsPaid(i) /\ {WalletOf(i), Authority} \subseteq funded =>
                \E pay \in {PayClaims(<<ClaimOf(i)>>)} : Succeeds(<<ClaimOf(i)>>, pay)

\* The hashes a client could mix up: all those of the tree.
TreeHashes ==
    UNION {ToSet(level) :
            level \in ToSet(Levels(WinnerEntries(winner_wallets, per_winner_lamports)))}

\* Whatever hashes of the tree are offered in whatever order, only the entries
\* of the winners list verify, each at its own index.
OnlyListedWinnersVerify ==
    ~locked /\ winners_count <= 3 =>
        \A index \in 0..winners_count + 1, w \in 1..winners_count,
           amount \in {per_winner_lamports, per_winner_lamports + 1},
           proof \in SeqOf(TreeHashes \cup {MalformedHash}, 3) :
            VerifyMerkleProof(index, w, amount, proof, merkle_root) =>
                /\ index \in Indices
                /\ w = WalletOf(index)
                /\ amount = per_winner_lamports

-----------------------------------------------------------------------------
(* Refused recipients *)

\* One winner's refused account does not hold back the others: whoever can be
\* credited from some time on is paid, whatever happens to the accounts of the
\* other winners, if the authority keeps sending claims one by one.  (The last
\* payment also credits the authority.)
CreditableWinnerIsPaid ==
    \A w \in Payees :
        <>[]({w, Authority} \subseteq funded)
            => <>(w \in ToSet(winner_wallets) => received[w] > 0)

\* Nor does it end the settlement for good: once every account can be
\* credited, all are paid and the vault is closed.
SettledOnceAllCreditable == <>[](funded = Payees \cup {Authority}) => <>settled

-----------------------------------------------------------------------------
(* The escrow *)

E == INSTANCE Escrow WITH
        People <- Payees,
        status <- IF settled THEN "distributed" ELSE "drawn",
        held <- vault, fee <- service_fee,
        beneficiaries <- ToSet(winner_wallets), share <- per_winner_lamports,
        paid <- {w \in Payees : received[w] > 0}

\* Bits, batches, retries and refusals are steps of the same escrow that
\* Giveaways implements: every batch pays shares to unpaid beneficiaries, and
\* the vault is closed in the step that pays the last one and the fee.
PaysAsEscrow == [][E!EscrowNext]_(E!escrowVars)
=============================================================================
