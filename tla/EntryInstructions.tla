-------------------------- MODULE EntryInstructions --------------------------
(***************************************************************************)
(* The instructions up to and including attestation: creating and funding  *)
(* a giveaway, changing its windows, entering it, being disqualified from  *)
(* it, and attesting that the provider holds the reveal.  An instruction   *)
(* whose guards fail is a rejected transaction and changes nothing.        *)
(***************************************************************************)
EXTENDS GiveawayState

settlementVars == <<remediationVars, revealVars, drawVars, winners_ledger,
                    winners_locked, settled>>

-----------------------------------------------------------------------------
(* The creator and the authority *)

\* validate_minimum_winners_pool
PoolCoversWinners(total, bps, n) ==
    WinnersPoolOf(total, bps) >= n * MIN_WINNER_PAYOUT_LAMPORTS

\* Giveaway::validate_timing and validate_duration
ValidTiming(start, deadline, duration) ==
    /\ start < deadline
    /\ deadline - start \in MIN_ACTIVE_DURATION_SECS..MAX_ACTIVE_DURATION_SECS
    /\ duration \in UploadDurations

CreateGiveaway(total, n, start, deadline, duration) ==
    /\ ~created
    /\ n \in MIN_WINNERS..MAX_WINNERS
    /\ ValidTiming(start, deadline, duration)
    /\ total > 0
    /\ PoolCoversWinners(total, config.service_fee_bps, n)
    /\ lamports[Creator] >= total + RENT
    /\ created' = TRUE
    /\ terms' = [total_payout_lamports |-> total, number_of_winners |-> n,
                 service_fee_bps |-> config.service_fee_bps,
                 active_start_unix |-> start]
    /\ active_deadline_unix' = deadline
    /\ upload_start_unix' = deadline
    /\ upload_deadline_unix' = deadline + duration
    /\ lamports' = Transfer(lamports, Creator, Vault, total + RENT)
    /\ UNCHANGED <<now, config, receipts, uploads_complete, remediationVars,
                   entryVars, disqualificationVars, attestationVars,
                   revealVars, drawVars, winners_ledger, winners_locked, settled>>

UpdateServiceCharge(bps) ==
    /\ bps <= MAX_SERVICE_FEE_BPS
    /\ config' = [config EXCEPT !.service_fee_bps = bps]
    /\ UNCHANGED <<now, receipts, uploads_complete, windowVars, originVars,
                   entryVars, disqualificationVars, attestationVars,
                   settlementVars, lamports>>

\* Mutant: the deadline can be extended after it has passed.
CanExtendAnyTime(new_deadline) ==
    /\ new_deadline > active_deadline_unix
    /\ new_deadline - terms.active_start_unix
            \in MIN_ACTIVE_DURATION_SECS..MAX_ACTIVE_DURATION_SECS

CanExtend(new_deadline) ==
    /\ now < active_deadline_unix
    /\ new_deadline > active_deadline_unix
    /\ new_deadline - terms.active_start_unix
            \in MIN_ACTIVE_DURATION_SECS..MAX_ACTIVE_DURATION_SECS

\* The upload window moves with the deadline and keeps its length.
ExtendActiveDeadline(new_deadline) ==
    /\ created /\ ~settled
    /\ CanExtend(new_deadline)
    /\ upload_deadline_unix - upload_start_unix \in UploadDurations
    /\ active_deadline_unix' = new_deadline
    /\ upload_start_unix' = new_deadline
    /\ upload_deadline_unix' =
            new_deadline + (upload_deadline_unix - upload_start_unix)
    /\ UNCHANGED <<now, config, receipts, uploads_complete, originVars,
                   entryVars, disqualificationVars, attestationVars,
                   settlementVars, lamports>>

\* Mutant: an early upload phase leaves the entry window open.
ActiveDeadlineKept == active_deadline_unix

EarlyActiveDeadline ==
    IF active_deadline_unix > now THEN now ELSE active_deadline_unix

\* Compiled in only with the allow-early-upload feature.
BeginUploadPhase ==
    /\ AllowEarlyUpload
    /\ created /\ ~settled
    /\ upload_start_unix' = now
    /\ upload_deadline_unix' = now + config.default_upload_duration_secs
    /\ active_deadline_unix' = EarlyActiveDeadline
    /\ UNCHANGED <<now, config, receipts, uploads_complete, originVars,
                   entryVars, disqualificationVars, attestationVars,
                   settlementVars, lamports>>

\* Mutant: disqualification stays open while participants attest.
EligibilityOpenDuringUpload == now < upload_deadline_unix

\* Eligibility is locked once the upload phase starts.
EligibilityOpen == now < upload_start_unix

DisqualifyParticipant(w) ==
    /\ created /\ ~settled /\ ~winners_locked
    /\ w \in enrolled \ disqualified
    /\ EligibilityOpen
    /\ disqualified' = disqualified \cup {w}
    /\ disqualified_count' = disqualified_count + 1
    /\ UNCHANGED <<now, config, receipts, uploads_complete, windowVars,
                   originVars, entryVars, attestationVars, settlementVars,
                   lamports>>

-----------------------------------------------------------------------------
(* The participants *)

\* init_if_needed: a first entry counts, a later one replaces the commitment.
Participate(w, commitment) ==
    /\ created /\ ~settled
    /\ IsInActivePhase
    /\ commitment_hash' = [commitment_hash EXCEPT ![w] = commitment]
    /\ enrolled' = enrolled \cup {w}
    /\ participants_count' =
            IF w \in enrolled THEN participants_count ELSE participants_count + 1
    /\ UNCHANGED <<now, config, receipts, uploads_complete, windowVars,
                   originVars, disqualificationVars, attestationVars,
                   settlementVars, lamports>>

\* Off chain: the provider signs for the reveal behind w's current commitment.
IssueReceipt(w) ==
    /\ created /\ ~settled
    /\ w \in enrolled
    /\ receipts' = receipts \cup {<<w, commitment_hash[w]>>}
    /\ UNCHANGED <<now, config, uploads_complete, windowVars, originVars,
                   entryVars, disqualificationVars, attestationVars,
                   settlementVars, lamports>>

\* Mutant: a receipt for an earlier commitment of w is accepted.
HoldsAnyReceipt(w) == \E c \in Commitments : <<w, c>> \in receipts

\* verify_provider_receipt: signed for w and for the current commitment.
HoldsReceipt(w) == <<w, commitment_hash[w]>> \in receipts

AttestUploaded(w) ==
    /\ created /\ ~settled
    /\ IsInUploadPhase
    /\ w \in enrolled \ (attested_uploaded \cup disqualified)
    /\ HoldsReceipt(w)
    /\ attested_uploaded' = attested_uploaded \cup {w}
    /\ attested_count' = attested_count + 1
    /\ UNCHANGED <<now, config, receipts, uploads_complete, windowVars,
                   originVars, entryVars, disqualificationVars,
                   settlementVars, lamports>>
=============================================================================
