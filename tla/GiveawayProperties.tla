-------------------------- MODULE GiveawayProperties --------------------------
(***************************************************************************)
(* What a giveaway promises its participants, its creator and its          *)
(* winners, stated over the accounts of Giveaways.                         *)
(***************************************************************************)
EXTENDS Giveaways

\* Every account field keeps its type, whatever instructions run.
TypeOK ==
    /\ now \in Nat \ {0}
    /\ config \in ConfigType
    /\ created \in BOOLEAN
    /\ terms \in TermsType
    /\ active_deadline_unix \in Nat
    /\ upload_start_unix \in Nat
    /\ upload_deadline_unix \in Nat
    /\ remediation_start_unix \in Nat
    /\ remediation_deadline_unix \in Nat
    /\ participants_count \in Nat
    /\ attested_count \in Nat
    /\ provider_uploaded_count \in Nat
    /\ disqualified_count \in Nat
    /\ poc_aggregate_hash \in Seeds
    /\ uploads_complete \in BOOLEAN
    /\ winners_computed \in BOOLEAN
    /\ winners_locked \in BOOLEAN
    /\ recompute_version \in Nat
    /\ settled \in BOOLEAN
    /\ enrolled \subseteq Wallets
    /\ commitment_hash \in [Wallets -> Commitments \cup {ZeroHash}]
    /\ attested_uploaded \subseteq Wallets
    /\ reveal_included \subseteq Wallets
    /\ disqualified \subseteq Wallets
    /\ finalization_version \in [Wallets -> Nat]
    /\ receipts \subseteq Wallets \X (Commitments \cup {ZeroHash})
    /\ finalization_ledger \in FinalizationLedgerType
    /\ winners_ledger \in WinnersLedgerType
    /\ lamports \in [Accounts -> Int]

-----------------------------------------------------------------------------
(* Counters and accounts *)

Finalised == {w \in Wallets : finalization_version[w] # 0}

\* The counters of the giveaway and of its ledgers, each advanced by a
\* different instruction, equal the number of participant accounts (or paid
\* bits) in the state they count; a chunk that finalized a participant twice,
\* or a reveal included twice, would break it.
CountersMatchAccounts ==
    /\ participants_count = Cardinality(enrolled)
    /\ attested_count = Cardinality(attested_uploaded)
    /\ provider_uploaded_count = Cardinality(reveal_included)
    /\ disqualified_count = Cardinality(disqualified)
    /\ finalization_ledger.processed_count = Cardinality(Finalised)
    /\ winners_ledger.paid_count = Cardinality(winners_ledger.paid)

-----------------------------------------------------------------------------
(* Entropy *)

\* The creator disqualifies nobody who has attested, and nobody attests once
\* disqualified: disqualify_participant closes before attest_uploaded opens,
\* however the deadlines were moved.
DisqualifiedNeverAttested == disqualified \cap attested_uploaded = {}

\* A participant who has attested can no longer change the commitment: the
\* entry and the attestation windows never overlap, so reveals seen by the
\* provider cannot be answered with a new entry.
CommitmentFrozenByAttestation ==
    [][\A w \in attested_uploaded : commitment_hash'[w] = commitment_hash[w]]_vars

\* Every reveal mixed into the entropy is one for which the provider signed a
\* receipt, for the commitment that was revealed and not for an earlier one.
EntropyIsReceipted == poc_aggregate_hash \subseteq receipts

\* The aggregate is exactly the XOR of the included participants' reveals:
\* none is mixed in twice (which would cancel it) and none is left out.
AggregateIsIncludedReveals ==
    poc_aggregate_hash = {<<w, commitment_hash[w]>> : w \in reveal_included}

\* Why: nobody attests before the upload window, which no instruction moves
\* below the entry deadline, and only receipted commitments are attested.
EntropyInvariant ==
    /\ active_deadline_unix <= upload_start_unix
    /\ ~created => enrolled = {}
    /\ attested_uploaded \subseteq enrolled \ disqualified
    /\ attested_uploaded # {} => now >= upload_start_unix
    /\ \A w \in attested_uploaded : <<w, commitment_hash[w]>> \in receipts
    /\ reveal_included \subseteq attested_uploaded
    /\ AggregateIsIncludedReveals

-----------------------------------------------------------------------------
(* The draw *)

\* Once winners are computed, however the participants were split into chunks,
\* the list is the best number_of_winners of all included participants under
\* the seed of the finalization ledger, in rank order, and stays so.
WinnersAreTopKOfIncluded ==
    winners_computed =>
        LET seed == finalization_ledger.seed IN
        winners_ledger.winner_wallets =
            InRankOrder(seed, TopK(seed, reveal_included \ disqualified,
                                   terms.number_of_winners))

\* The draw happens once: a second finalization cannot replace the winners.
DrawnOnce ==
    /\ recompute_version <= 1
    /\ finalization_ledger.completed <=> recompute_version = 1

\* Every chunk, the first one above all, finds the reveals of everybody who
\* has attested so far included: finalize_winners recomputes what is missing
\* and does not go by uploads_complete, which an attestation leaves stale.
DrawStartsFromAllReveals ==
    [][finalization_ledger' # finalization_ledger =>
            attested_uploaded \subseteq reveal_included]_vars

\* Why: the ledger is started once, with version 1 and the terms' number of
\* winners; a participant is finalized when its version becomes 1, and only
\* after its reveal was included; publishing completes the ledger for good.
LedgerInvariant ==
    LET ledger == finalization_ledger IN
    /\ winners_computed <=> recompute_version = 1
    /\ winners_ledger.computed = winners_computed
    /\ \A w \in Wallets : finalization_version[w] \in {0, 1}
    /\ Finalised \subseteq reveal_included
    /\ ledger.candidates = TopK(ledger.seed, Finalised, ledger.target_winners)
    /\ ledger.completed => ledger.started
    /\ ledger.started =>
            /\ created
            /\ ledger.recompute_version = 1
            /\ ledger.target_winners = terms.number_of_winners
    /\ ~ledger.started => ledger.processed_count = 0 /\ Finalised = {}

\* What is inductive of the draw, relative to EntropyInvariant.
DrawInvariant ==
    /\ CountersMatchAccounts
    /\ DrawnOnce
    /\ LedgerInvariant
    /\ WinnersAreTopKOfIncluded
    /\ winners_ledger.paid \subseteq 1..winners_ledger.winners_count

-----------------------------------------------------------------------------
(* Time *)

\* A step that settles without every winner having been paid.
RefundStep ==
    /\ ~settled /\ settled'
    /\ \/ ~winners_computed
       \/ winners_ledger'.paid_count < winners_ledger.winners_count
       \/ winners_ledger.winners_count = 0

\* With attested participants, the creator gets the vault back only after the
\* full remediation window past the upload deadline, and only while some
\* attested reveal is still missing.  (Builds without early upload.)
RefundWaitsForRemediation ==
    [][RefundStep /\ attested_count > 0 =>
            /\ now > upload_deadline_unix + DEFAULT_REMEDIATION_WINDOW_SECS
            /\ attested_uploaded \ reveal_included # {}]_vars

\* Why: remediation opens once, not before the upload deadline, and that
\* deadline can no longer move then, because the entry deadline is past too.
\* (begin_upload_phase, of early-upload builds, may move it all the same.)
RemediationInvariant ==
    /\ upload_start_unix <= upload_deadline_unix
    /\ ~created => remediation_start_unix = 0
    /\ remediation_start_unix = 0 => remediation_deadline_unix = 0
    /\ remediation_start_unix # 0 =>
            /\ remediation_start_unix <= now
            /\ remediation_deadline_unix =
                    remediation_start_unix + DEFAULT_REMEDIATION_WINDOW_SECS
            /\ ~AllowEarlyUpload => upload_deadline_unix <= remediation_start_unix

-----------------------------------------------------------------------------
(* Money *)

Deposit == RENT + terms.total_payout_lamports
Fee == (terms.total_payout_lamports * terms.service_fee_bps) \div 10000
Share == winners_ledger.per_winner_lamports
PaidWallets == {winners_ledger.winner_wallets[i] : i \in winners_ledger.paid}

\* Every winner was paid, and then the fee.
Distributed ==
    settled /\ winners_ledger.winners_count > 0
            /\ winners_ledger.paid_count = winners_ledger.winners_count

FeePaid == IF Distributed THEN Fee ELSE 0
PaidOut == Share * winners_ledger.paid_count
CreatorOutlay ==
    IF ~created THEN 0 ELSE IF settled THEN PaidOut + FeePaid ELSE Deposit

ExpectedBalance(a) ==
    (IF a = Creator THEN CreatorFunds - CreatorOutlay ELSE 0)
    + (IF a = Authority THEN FeePaid ELSE 0)
    + (IF a = Vault /\ created /\ ~settled THEN Deposit - PaidOut ELSE 0)
    + (IF a \in PaidWallets THEN Share ELSE 0)

\* Every lamport is where the payments recorded in the winners ledger say it
\* is: one share per paid winner, the snapshot fee only when all are paid, the
\* rest (rent and rounding dust included) back with the creator, even when
\* creator, authority and winners are the same wallet.
BooksBalance == \A a \in Accounts : lamports[a] = ExpectedBalance(a)

\* The vault can always pay the winners still unpaid and then the fee, so no
\* payout batch fails for lack of funds, whatever update_service_charge did
\* after the giveaway was created.
VaultCoversObligations ==
    winners_computed /\ ~settled =>
        lamports[Vault] >=
            Share * (winners_ledger.winners_count - winners_ledger.paid_count)
                + ServiceFee

\* Why: shares are fixed once, by the draw, for a list of distinct wallets and
\* from what the fee leaves of the total; a draw has at least one winner, and
\* the batch that pays the last one settles.
SharesInvariant ==
    LET ledger == winners_ledger IN
    /\ ~created => ~settled
    /\ created => terms.number_of_winners >= MIN_WINNERS
    /\ ~winners_computed => ledger = NoWinnersLedger
    /\ winners_computed =>
            /\ ledger.winners_count > 0
            /\ ledger.winner_wallets \in [1..ledger.winners_count -> Wallets]
            /\ \A i, j \in 1..ledger.winners_count :
                    ledger.winner_wallets[i] = ledger.winner_wallets[j] => i = j
            /\ Share >= MIN_WINNER_PAYOUT_LAMPORTS
            /\ Share * ledger.winners_count + Fee <= terms.total_payout_lamports
            /\ ~settled => ledger.paid_count < ledger.winners_count

-----------------------------------------------------------------------------
(* Progress *)

\* A giveaway in which nobody attests is settled without the authority, which
\* may have stopped: settle_giveaway needs the creator only.
CreatorCanRecover == created ~> settled \/ attested_count > 0

\* If the authority too keeps sending its instructions, a created giveaway is
\* settled in the end, by payout or by refund, whatever participants and
\* uploaders do or omit.
EventuallySettled == AuthorityFairness => (created ~> settled)
=============================================================================
