----------------------------- MODULE PayoutLedger -----------------------------
(***************************************************************************)
(* Paying the winners of one giveaway, as state/winners_ledger.rs and      *)
(* settle_payout_batch do it: a packed bitmap of paid winners, a batch of  *)
(* claims checked and paid one after the other, and a transaction that     *)
(* takes effect as a whole or not at all.                                  *)
(*                                                                         *)
(* Giveaways pays a set of positions.  Here the authority sends lists of   *)
(* claims in any order, again after a failure or a lost answer, and the    *)
(* runtime refuses to credit accounts that would stay below the rent       *)
(* minimum, so that a batch may fail because of one winner in it.          *)
(***************************************************************************)
EXTENDS MerkleTree

CONSTANTS
    Payees,                 \* wallets that may have won
    Authority,              \* receives the service fee
    RENT,                   \* lamports below which no account may be left
    MAX_WINNERS_PER_BATCH,
    WinnerCounts, Totals, FeeRates,     \* bounds: what the draw may publish
    Fragile                 \* bound: accounts their owners may empty

VARIABLES
    winner_wallets, winners_count, per_winner_lamports, merkle_root,
    service_fee,            \* calculate_service_fee of the giveaway
    proofs,                 \* what clients computed from the published winners
    locked, paid_bitmap, paid_count, settled,
    vault,                  \* lamports of the vault
    received,               \* lamports each payee got from the vault
    funded                  \* accounts that hold at least RENT

termVars == <<winner_wallets, winners_count, per_winner_lamports, merkle_root,
              service_fee, proofs>>
ledgerVars == <<paid_bitmap, paid_count>>
payoutVars == <<termVars, locked, ledgerVars, settled, vault, received, funded>>

ASSUME PayeesAssumption ==
    /\ IsFiniteSet(Payees) /\ Payees = 1..Cardinality(Payees)
    /\ Authority \notin Payees
ASSUME BoundsAssumption ==
    /\ WinnerCounts \subseteq 1..Cardinality(Payees)
    /\ Totals \subseteq Nat /\ FeeRates \subseteq 0..9999
    /\ RENT \in Nat \ {0} /\ MAX_WINNERS_PER_BATCH \in Nat \ {0}
    /\ Fragile \subseteq Payees \cup {Authority}

MIN_WINNER_PAYOUT_LAMPORTS == 1
BITS == 8

-----------------------------------------------------------------------------
(* The bitmap *)

\* Mutant: the bitmap has only as many bytes as its bits fill.
FullBytesOnly(n) == n \div BITS

\* winners_count.div_ceil(8)
BitmapBytes(n) == (n + BITS - 1) \div BITS

ByteIndex(index) == index \div BITS

\* Mutant: seven positions to a byte of eight bits.
BitIndexOfSeven(index) == index % (BITS - 1)
BitIndex(index) == index % BITS

BitIsSet(byte, bit) == (byte \div 2^bit) % 2 = 1

\* is_winner_paid
IsWinnerPaid(bitmap, index) ==
    /\ index < winners_count
    /\ ByteIndex(index) < Len(bitmap)
    /\ BitIsSet(bitmap[ByteIndex(index) + 1], BitIndex(index))

\* mark_winner_paid of an index that is not marked
SetBit(bitmap, index) ==
    [bitmap EXCEPT ![ByteIndex(index) + 1] = @ + 2^BitIndex(index)]

-----------------------------------------------------------------------------
(* What the draw publishes *)

WinnerEntries(wallets, share) ==
    [i \in DOMAIN wallets |->
        [index |-> i - 1, recipient |-> wallets[i], amount |-> share]]

\* Mutant: the share is taken of the total, the fee included.
ShareOfTotal(total, fee, n) == total \div n

\* per_winner_payout of finalize_winners, from the pool without the fee
ShareOfPool(total, fee, n) == (total - fee) \div n

\* WinnersLedger::initialize by the last finalization chunk.
Init ==
    /\ winners_count \in WinnerCounts
    /\ winner_wallets = [i \in 1..winners_count |-> i]
    /\ \E total \in Totals, bps \in FeeRates :
            /\ service_fee = (total * bps) \div 10000
            /\ per_winner_lamports = ShareOfPool(total, service_fee, winners_count)
            /\ vault = total + RENT
    /\ per_winner_lamports >= MIN_WINNER_PAYOUT_LAMPORTS
    /\ LET winners == WinnerEntries(winner_wallets, per_winner_lamports)
       IN /\ merkle_root = MerkleRoot(winners)
          /\ proofs = [i \in DOMAIN winners |-> ProofOf(winners, i - 1)]
    /\ locked = FALSE
    /\ paid_bitmap = [b \in 1..BitmapBytes(winners_count) |-> 0]
    /\ paid_count = 0
    /\ settled = FALSE
    /\ received = [w \in Payees |-> 0]
    /\ funded = Payees \cup {Authority}

\* lock_winners; the creator may take any time to send it.
LockWinners ==
    /\ ~locked
    /\ locked' = TRUE
    /\ UNCHANGED <<termVars, ledgerVars, settled, vault, received, funded>>

-----------------------------------------------------------------------------
(* settle_payout_batch *)

\* The checks made of one claim, on the accounts as the claims before it in
\* the batch have left them; mark_winner_paid repeats the test of the bit.
Accepts(pay, claim) ==
    /\ claim.winner_index < winners_count
    /\ claim.amount = per_winner_lamports
    /\ claim.amount >= MIN_WINNER_PAYOUT_LAMPORTS
    /\ winner_wallets[claim.winner_index + 1] = claim.winner
    /\ ~IsWinnerPaid(pay.paid_bitmap, claim.winner_index)
    /\ VerifyMerkleProof(claim.winner_index, claim.winner, claim.amount,
                         claim.merkle_proof, merkle_root)
    /\ claim.account = claim.winner
    /\ pay.vault >= claim.amount
    /\ ByteIndex(claim.winner_index) < Len(pay.paid_bitmap)

PayClaim(pay, claim) ==
    LET credited == [pay.received EXCEPT ![claim.winner] = @ + claim.amount]
    IN IF ~pay.ok \/ ~Accepts(pay, claim) THEN [pay EXCEPT !.ok = FALSE]
       ELSE [pay EXCEPT
                !.paid_bitmap = SetBit(@, claim.winner_index),
                !.paid_count = @ + 1,
                !.vault = @ - claim.amount,
                !.received = credited]

PayClaims(batch) ==
    FoldLeft(PayClaim,
             [ok |-> TRUE, paid_bitmap |-> paid_bitmap, paid_count |-> paid_count,
              vault |-> vault, received |-> received],
             batch)

\* Mutant: the vault is closed with one winner still unpaid.
CompleteOneEarly(pay) == pay.paid_count + 1 >= winners_count

\* Mutant: settlement completes when one batch paid as many winners as there are.
CompleteAfter(pay) == pay.paid_count - paid_count = winners_count

\* is_settlement_complete
IsSettlementComplete(pay) == pay.paid_count = winners_count

\* At the end of a transaction the runtime refuses an account that was empty
\* and now holds something below the rent minimum.
RentRuleHolds(account, credit) == account \in funded \/ credit = 0 \/ credit >= RENT

Credited(pay) == {w \in Payees : pay.received[w] # received[w]}

\* No claim, nor the transaction as a whole, is refused.
Succeeds(batch, pay) ==
    /\ locked /\ ~settled
    /\ Len(batch) \in 1..MAX_WINNERS_PER_BATCH
    /\ pay.ok
    /\ \A w \in Credited(pay) : RentRuleHolds(w, pay.received[w] - received[w])
    /\ IsSettlementComplete(pay) => /\ pay.vault >= service_fee
                                   /\ RentRuleHolds(Authority, service_fee)

\* The last batch pays the fee and returns the rest, the vault's rent
\* included, to the creator, whom that rent keeps above the minimum.
SettlePayoutBatch(batch) ==
    \E pay \in {PayClaims(batch)} :
        LET complete == IsSettlementComplete(pay)
            fee_paid == complete /\ service_fee > 0
        IN
        /\ Succeeds(batch, pay)
        /\ paid_bitmap' = pay.paid_bitmap
        /\ paid_count' = pay.paid_count
        /\ received' = pay.received
        /\ vault' = IF complete THEN 0 ELSE pay.vault
        /\ settled' = complete
        /\ funded' = funded \cup Credited(pay)
                            \cup (IF fee_paid THEN {Authority} ELSE {})
        /\ UNCHANGED <<termVars, locked>>

-----------------------------------------------------------------------------
(* The accounts' owners, and the claims the authority sends *)

EmptyAccount(a) ==
    /\ a \in funded
    /\ funded' = funded \ {a}
    /\ UNCHANGED <<termVars, locked, ledgerVars, settled, vault, received>>

FundAccount(a) ==
    /\ a \notin funded
    /\ funded' = funded \cup {a}
    /\ UNCHANGED <<termVars, locked, ledgerVars, settled, vault, received>>

\* The claim a client derives from the list of winners.
ClaimOf(index) ==
    [winner_index |-> index, winner |-> winner_wallets[index + 1],
     amount |-> per_winner_lamports, account |-> winner_wallets[index + 1],
     merkle_proof |-> proofs[index + 1]]

\* A client may also be wrong: about the index, the amount or the account.
WrongClaims(claims) ==
    {[c EXCEPT !.winner_index = @ + 1] : c \in claims}
    \cup {[c EXCEPT !.amount = @ + 1] : c \in {d \in claims : d.winner_index = 0}}
    \cup {[c EXCEPT !.account = Authority] :
            c \in {d \in claims : d.winner_index = 0}}

RightClaims == {ClaimOf(i) : i \in 0..winners_count - 1}
Claims == RightClaims \cup WrongClaims(RightClaims)
Batches ==
    {<<c>> : c \in Claims} \cup {<<c, d>> : c \in RightClaims, d \in Claims}

\* The authority's persistence: one unpaid winner after the other.
PaySomeWinner == \E i \in 0..winners_count - 1 : SettlePayoutBatch(<<ClaimOf(i)>>)

Next ==
    \/ LockWinners
    \/ \E batch \in Batches : SettlePayoutBatch(batch)
    \/ \E a \in Fragile : EmptyAccount(a) \/ FundAccount(a)

Spec == Init /\ [][Next]_payoutVars
FairSpec == Spec /\ WF_payoutVars(LockWinners) /\ WF_payoutVars(PaySomeWinner)
=============================================================================
