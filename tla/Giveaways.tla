------------------------------ MODULE Giveaways ------------------------------
(***************************************************************************)
(* One giveaway from its creation to its settlement: the instructions of   *)
(* the program, executed one transaction at a time in any order by the     *)
(* authority, the creator, the participants and third parties, while the   *)
(* clock of the chain advances.                                            *)
(***************************************************************************)
EXTENDS EntryInstructions, SettlementInstructions

\* The config account as initialize leaves it, and no giveaway.
Init ==
    /\ now = 1
    /\ config \in [service_fee_bps : FeeRates,
                   default_upload_duration_secs : UploadDurations]
    /\ created = FALSE
    /\ terms = [total_payout_lamports |-> 0, number_of_winners |-> 0,
                service_fee_bps |-> 0, active_start_unix |-> 0]
    /\ active_deadline_unix = 0
    /\ upload_start_unix = 0
    /\ upload_deadline_unix = 0
    /\ remediation_start_unix = 0
    /\ remediation_deadline_unix = 0
    /\ participants_count = 0
    /\ attested_count = 0
    /\ provider_uploaded_count = 0
    /\ disqualified_count = 0
    /\ poc_aggregate_hash = {}
    /\ uploads_complete = FALSE
    /\ winners_computed = FALSE
    /\ winners_locked = FALSE
    /\ recompute_version = 0
    /\ settled = FALSE
    /\ enrolled = {}
    /\ commitment_hash = [w \in Wallets |-> ZeroHash]
    /\ attested_uploaded = {}
    /\ reveal_included = {}
    /\ disqualified = {}
    /\ finalization_version = [w \in Wallets |-> 0]
    /\ receipts = {}
    /\ finalization_ledger = NoFinalizationLedger
    /\ winners_ledger = NoWinnersLedger
    /\ lamports = [a \in Accounts |-> IF a = Creator THEN CreatorFunds ELSE 0]

-----------------------------------------------------------------------------
\* The clock may run until every window the inputs can open has closed.
Horizon ==
    IF remediation_deadline_unix < MaxTime THEN MaxTime
    ELSE remediation_deadline_unix + 1

Tick ==
    /\ now < Horizon
    /\ now' = now + 1
    /\ UNCHANGED <<config, receipts, uploads_complete, windowVars,
                   remediationVars, originVars, entryVars,
                   disqualificationVars, attestationVars, revealVars,
                   drawVars, payoutVars>>

\* Inputs are bounded so that every upload window closes by MaxTime.
CreatorInstruction ==
    \/ \E total \in Payouts, n \in WinnerCounts, start, deadline \in Instants,
          duration \in UploadDurations :
            /\ deadline + duration <= MaxTime
            /\ CreateGiveaway(total, n, start, deadline, duration)
    \/ \E new_deadline \in Instants :
            /\ new_deadline + MAX_UPLOAD_DURATION_SECS <= MaxTime
            /\ ExtendActiveDeadline(new_deadline)
    \/ \E w \in Wallets : DisqualifyParticipant(w)
    \/ LockWinners
    \/ SettleGiveaway

FinalizeWinners ==
    \/ FinalizeOpensRemediation
    \/ \E chunk \in SUBSET Wallets : FinalizeChunk(chunk)

PayoutBatch == \E batch \in SUBSET (1..winners_ledger.winners_count) :
                    SettlePayoutBatch(batch)

AuthorityInstruction ==
    \/ \E bps \in FeeRates : UpdateServiceCharge(bps)
    \/ now + MAX_UPLOAD_DURATION_SECS <= MaxTime /\ BeginUploadPhase
    \/ \E w \in Wallets : IssueReceipt(w)
    \/ \E batch \in SUBSET Reveals : UploadReveals(TRUE, batch)
    \/ FinalizeWinners
    \/ PayoutBatch

ParticipantInstruction ==
    \E w \in Wallets :
        \/ \E commitment \in Commitments : Participate(w, commitment)
        \/ AttestUploaded(w)

ThirdPartyInstruction ==
    \E batch \in SUBSET Reveals : UploadReveals(FALSE, batch)

Next ==
    \/ Tick
    \/ CreatorInstruction
    \/ AuthorityInstruction
    \/ ParticipantInstruction
    \/ ThirdPartyInstruction

Spec == Init /\ [][Next]_vars

\* Time passes and the creator keeps sending the instructions that end a
\* giveaway.  Nobody is obliged to enter, to attest or to upload a reveal.
CreatorFairness ==
    /\ WF_vars(Tick)
    /\ WF_vars(LockWinners)
    /\ WF_vars(SettleGiveaway)

\* The authority keeps drawing and paying.
AuthorityFairness ==
    /\ WF_vars(FinalizeWinners)
    /\ WF_vars(PayoutBatch)

CreatorSpec == Spec /\ CreatorFairness
FairSpec == CreatorSpec /\ AuthorityFairness
=============================================================================
