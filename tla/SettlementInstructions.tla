----------------------- MODULE SettlementInstructions -----------------------
(***************************************************************************)
(* The instructions after attestation: inclusion of reveals by the         *)
(* provider or by a remediator, chunked finalization, locking, payout in   *)
(* batches, and the refund of a giveaway that draws no winners.            *)
(***************************************************************************)
EXTENDS GiveawayState

frameVars == <<now, config, receipts, windowVars, originVars, entryVars,
               disqualificationVars, attestationVars>>

-----------------------------------------------------------------------------
(* upload_reveals *)

\* Who may upload: the provider, or anyone once attested reveals are overdue.
CanUpload(by_authority) ==
    /\ ~RemediationExpired
    /\ \/ by_authority
       \/ now >= upload_deadline_unix /\ HasMissingAttestedReveals

\* Mutant: a reveal that is already included may be uploaded again.
ValidRevealAgain(r) ==
    LET w == r[1] IN
        /\ w \in enrolled \ disqualified
        /\ w \in attested_uploaded
        /\ commitment_hash[w] = r[2]

\* An attested reveal that opens the participant's commitment, not yet in.
ValidReveal(r) ==
    LET w == r[1] IN
        /\ w \in enrolled \ (reveal_included \cup disqualified)
        /\ w \in attested_uploaded
        /\ commitment_hash[w] = r[2]

\* Mutant: the digest binds the wallet but not the revealed plaintext.
XorWallets(digests, more) ==
    digests \cup {<<r[1], ZeroHash>> : r \in more}

\* xor_reveal_digests
XorDigests(digests, more) == (digests \cup more) \ (digests \cap more)

UploadReveals(by_authority, batch) ==
    LET revealed == {r[1] : r \in batch} IN
    /\ created /\ ~settled /\ ~winners_computed
    /\ Cardinality(batch) \in 1..MAX_REVEALS_PER_BATCH
    /\ CanUpload(by_authority)
    /\ now >= upload_start_unix \/ AllAttested
    /\ \A r \in batch : ValidReveal(r)
    /\ Cardinality(revealed) = Cardinality(batch)
    /\ reveal_included' = reveal_included \cup revealed
    /\ provider_uploaded_count' = provider_uploaded_count + Cardinality(batch)
    /\ poc_aggregate_hash' = XorDigests(poc_aggregate_hash, batch)
    /\ uploads_complete' =
            (attested_count > 0 /\ provider_uploaded_count' >= attested_count)
    /\ IF by_authority THEN UNCHANGED remediationVars ELSE BeginRemediation
    /\ UNCHANGED <<frameVars, drawVars, payoutVars>>

-----------------------------------------------------------------------------
(* finalize_winners *)

FinalizeGuard ==
    /\ created /\ ~settled /\ ~winners_locked
    /\ WinnersLedgerAllocatable /\ FinalizationLedgerAllocatable
    /\ IsReadyForSettlement
    /\ attested_count > 0

\* Attested reveals are missing at the deadline: open remediation, return Ok.
FinalizeOpensRemediation ==
    /\ FinalizeGuard
    /\ HasMissingAttestedReveals
    /\ now >= upload_deadline_unix
    /\ remediation_start_unix = 0
    /\ BeginRemediation
    /\ UNCHANGED <<frameVars, uploads_complete, revealVars, drawVars, payoutVars>>

\* Mutant: a ledger that is completed is started over.
RestartedLedger ==
    IF finalization_ledger.started /\ ~finalization_ledger.completed
    THEN finalization_ledger
    ELSE [started |-> TRUE, recompute_version |-> recompute_version + 1,
          target_winners |-> terms.number_of_winners,
          seed |-> poc_aggregate_hash, processed_count |-> 0,
          eligible_count |-> 0, candidates |-> {}, completed |-> FALSE]

\* The ledger a chunk works on: the first chunk fixes seed and version.
StartedLedger ==
    IF finalization_ledger.started THEN finalization_ledger
    ELSE [started |-> TRUE, recompute_version |-> recompute_version + 1,
          target_winners |-> terms.number_of_winners,
          seed |-> poc_aggregate_hash, processed_count |-> 0,
          eligible_count |-> 0, candidates |-> {}, completed |-> FALSE]

\* Mutant: a participant may be finalized by several chunks.
FinalisedAgain(chunk, version) == TRUE

\* finalization_version() of every participant of the chunk is another one.
Unfinalised(chunk, version) ==
    \A w \in chunk : finalization_version[w] # version

\* Mutant: the candidates of earlier chunks are forgotten.
RecordOnlyChunk(ledger, chunk, eligible) ==
    [ledger EXCEPT
        !.processed_count = @ + Cardinality(chunk),
        !.eligible_count = @ + Cardinality(eligible),
        !.candidates = TopK(ledger.seed, eligible, ledger.target_winners)]

\* record_processed and record_eligible for every participant of the chunk.
RecordChunk(ledger, chunk, eligible) ==
    [ledger EXCEPT
        !.processed_count = @ + Cardinality(chunk),
        !.eligible_count = @ + Cardinality(eligible),
        !.candidates = TopK(ledger.seed, @ \cup eligible, ledger.target_winners)]

\* Mutant: the shares are computed before the fee is deducted.
PayoutBeforeFee(n) ==
    IF n > 0 THEN terms.total_payout_lamports \div n ELSE 0

PerWinnerPayout(n) == IF n > 0 THEN WinnersPool \div n ELSE 0

\* WinnersLedger::initialize, or ::recompute of a ledger that has winners.
PublishWinners(ledger) ==
    LET n == Cardinality(ledger.candidates) IN
    /\ n > 0 => PerWinnerPayout(n) >= MIN_WINNER_PAYOUT_LAMPORTS
    /\ winners_ledger.computed =>
            /\ ~winners_ledger.locked /\ winners_ledger.paid_count = 0
            /\ ~winners_ledger.settlement_started
    /\ winners_ledger' =
            [NoWinnersLedger EXCEPT
                !.computed = TRUE,
                !.winner_wallets = InRankOrder(ledger.seed, ledger.candidates),
                !.winners_count = n,
                !.per_winner_lamports = PerWinnerPayout(n)]
    /\ winners_computed' = TRUE
    /\ recompute_version' = recompute_version + 1

FinalizeChunk(chunk) ==
    LET start == StartedLedger
        eligible == (chunk \cap reveal_included) \ disqualified
        ledger == RecordChunk(start, chunk, eligible)
        completed == ledger.processed_count = provider_uploaded_count
    IN
    /\ FinalizeGuard
    /\ ~HasMissingAttestedReveals
    /\ start.recompute_version = recompute_version + 1
    /\ ~start.completed
    /\ chunk # {}
    /\ chunk \subseteq reveal_included
    /\ Unfinalised(chunk, start.recompute_version)
    /\ eligible \cap start.candidates = {}
    /\ ledger.processed_count <= provider_uploaded_count
    /\ finalization_ledger' = [ledger EXCEPT !.completed = completed]
    /\ finalization_version' =
            [w \in Wallets |-> IF w \in chunk THEN start.recompute_version
                               ELSE finalization_version[w]]
    /\ uploads_complete' = (uploads_complete \/ AttestedRevealsComplete)
    /\ IF completed THEN PublishWinners(ledger)
       ELSE UNCHANGED <<winners_ledger, winners_computed, recompute_version>>
    /\ UNCHANGED <<frameVars, remediationVars, revealVars, winners_locked,
                   settled, lamports>>

-----------------------------------------------------------------------------
(* lock_winners, settle_payout_batch, settle_giveaway *)

LockWinners ==
    /\ created /\ ~settled /\ winners_computed /\ ~winners_locked
    /\ winners_ledger.computed
    /\ winners_locked' = TRUE
    /\ winners_ledger' = [winners_ledger EXCEPT !.locked = TRUE]
    /\ UNCHANGED <<frameVars, uploads_complete, remediationVars, revealVars,
                   drawVars, settled, lamports>>

\* Balances after the winners at these positions have been paid.
PayWinners(batch) ==
    LET per == winners_ledger.per_winner_lamports
        recipients == {winners_ledger.winner_wallets[i] : i \in batch}
    IN [a \in Accounts |->
            IF a = Vault THEN lamports[a] - per * Cardinality(batch)
            ELSE IF a \in recipients THEN lamports[a] + per ELSE lamports[a]]

\* Mutant: the fee stays with the rest and goes back to the creator.
CloseVaultWithoutFee(balance) ==
    Transfer(balance, Vault, Creator, balance[Vault])

\* Balances after the last batch: fee to the authority, the rest to the creator.
CloseVault(balance) ==
    LET charged == Transfer(balance, Vault, Authority, ServiceFee)
    IN Transfer(charged, Vault, Creator, charged[Vault])

\* Mutant: the paid bitmap is not consulted.
PayableTwice(batch) == batch \subseteq 1..winners_ledger.winners_count

\* validate_winner_index and is_winner_paid; index i of the program is the
\* position i + 1 of winner_wallets.
Payable(batch) ==
    batch \subseteq (1..winners_ledger.winners_count) \ winners_ledger.paid

SettlePayoutBatch(batch) ==
    LET after == PayWinners(batch)
        paid == winners_ledger.paid_count + Cardinality(batch)
        complete == paid = winners_ledger.winners_count
    IN
    /\ created /\ ~settled /\ winners_computed /\ winners_locked
    /\ winners_ledger.locked
    /\ Cardinality(batch) \in 1..MAX_WINNERS_PER_BATCH
    /\ Payable(batch)
    /\ winners_ledger.per_winner_lamports >= MIN_WINNER_PAYOUT_LAMPORTS
    /\ after[Vault] >= 0
    /\ winners_ledger' = [winners_ledger EXCEPT !.paid = @ \cup batch,
                                                !.paid_count = paid,
                                                !.settlement_started = TRUE]
    /\ settled' = complete
    /\ IF complete
       THEN after[Vault] >= ServiceFee /\ lamports' = CloseVault(after)
       ELSE lamports' = after
    /\ UNCHANGED <<frameVars, uploads_complete, remediationVars, revealVars,
                   drawVars, winners_locked>>

\* Mutant: without attesters the refund waits for remediation like any other.
RefundDueAfterRemediation ==
    IF participants_count = 0 THEN now >= active_deadline_unix
    ELSE \/ RemediationExpired
         \/ /\ winners_computed /\ winners_ledger.computed
            /\ winners_ledger.winners_count = 0

\* The reasons for which settle_giveaway returns the vault to the creator.
RefundDue ==
    IF participants_count = 0 THEN now >= active_deadline_unix
    ELSE IF attested_count = 0 THEN now >= upload_deadline_unix
    ELSE \/ RemediationExpired
         \/ /\ winners_computed /\ winners_ledger.computed
            /\ winners_ledger.winners_count = 0

SettleGiveaway ==
    /\ created /\ ~settled
    /\ WinnersLedgerAllocatable
    /\ RefundDue
    /\ settled' = TRUE
    /\ lamports' = Transfer(lamports, Vault, Creator, lamports[Vault])
    /\ UNCHANGED <<frameVars, uploads_complete, remediationVars, revealVars,
                   drawVars, winners_ledger, winners_locked>>
=============================================================================
