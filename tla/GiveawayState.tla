---------------------------- MODULE GiveawayState ----------------------------
(***************************************************************************)
(* The accounts behind one giveaway and the predicates and amounts that    *)
(* state/giveaway.rs computes from them.                                   *)
(*                                                                         *)
(* The fields of the Giveaway account are variables of their own, under    *)
(* the names of the source.  The boolean fields of the Participant         *)
(* accounts are the sets of wallets for which they are true.  The two      *)
(* ledgers are records, and lamports is the balance of every account that  *)
(* the program debits or credits on behalf of this giveaway.               *)
(***************************************************************************)
EXTENDS Ranking

CONSTANTS
    Creator, Authority, Vault,          \* public keys of the fixed accounts
    AllowEarlyUpload,                   \* the allow-early-upload cargo feature
    MIN_ACTIVE_DURATION_SECS, MAX_ACTIVE_DURATION_SECS,
    MIN_UPLOAD_DURATION_SECS, MAX_UPLOAD_DURATION_SECS,
    DEFAULT_REMEDIATION_WINDOW_SECS,
    MAX_REVEALS_PER_BATCH, MAX_WINNERS_PER_BATCH,
    RENT,                               \* rent.minimum_balance(0), of the vault
    MAX_PERMITTED_DATA_INCREASE,        \* bytes the runtime lets a CPI allocate
    \* Bounds on the inputs that are enumerated
    Payouts, WinnerCounts, FeeRates,    \* arguments of create_giveaway / config
    CreatorFunds,                       \* lamports the creator starts with
    MaxTime                             \* last instant an input may name

VARIABLES
    now,                                \* Clock::unix_timestamp
    config,                             \* Config account
    created,                            \* the Giveaway account exists
    terms,                              \* fields fixed by create_giveaway
    active_deadline_unix, upload_start_unix, upload_deadline_unix,
    remediation_start_unix, remediation_deadline_unix,
    participants_count, attested_count, provider_uploaded_count,
    disqualified_count, poc_aggregate_hash, uploads_complete,
    winners_computed, winners_locked, recompute_version, settled,
    enrolled,                           \* wallets with a Participant account
    commitment_hash, attested_uploaded, reveal_included, disqualified,
    finalization_version,               \* version kept in Participant.reserved
    receipts,                           \* (wallet, commitment) the provider signed
    finalization_ledger, winners_ledger,
    lamports

windowVars == <<active_deadline_unix, upload_start_unix, upload_deadline_unix>>
remediationVars == <<remediation_start_unix, remediation_deadline_unix>>
originVars == <<created, terms>>
entryVars == <<enrolled, commitment_hash, participants_count>>
disqualificationVars == <<disqualified, disqualified_count>>
attestationVars == <<attested_uploaded, attested_count>>
revealVars == <<reveal_included, provider_uploaded_count, poc_aggregate_hash>>
drawVars == <<finalization_version, finalization_ledger, recompute_version,
              winners_computed>>
payoutVars == <<winners_ledger, winners_locked, settled, lamports>>

vars == <<now, config, receipts, uploads_complete, windowVars, remediationVars,
          originVars, entryVars, disqualificationVars, attestationVars,
          revealVars, drawVars, payoutVars>>

-----------------------------------------------------------------------------
MIN_WINNERS == 1
MAX_WINNERS == 1000
MAX_SERVICE_FEE_BPS == 9999
MIN_WINNER_PAYOUT_LAMPORTS == 1

Accounts == {Creator, Authority, Vault} \cup Wallets
Instants == 0..MaxTime
UploadDurations == MIN_UPLOAD_DURATION_SECS..MAX_UPLOAD_DURATION_SECS

ASSUME AccountsAssumption == Vault \notin {Creator, Authority} \cup Wallets
ASSUME DurationsAssumption ==
    /\ MIN_ACTIVE_DURATION_SECS \in Nat \ {0}
    /\ MAX_ACTIVE_DURATION_SECS \in Nat
    /\ MIN_UPLOAD_DURATION_SECS \in Nat \ {0}
    /\ MAX_UPLOAD_DURATION_SECS \in Nat
    /\ DEFAULT_REMEDIATION_WINDOW_SECS \in Nat \ {0}
    /\ MaxTime \in Nat
ASSUME AmountsAssumption ==
    /\ Payouts \subseteq Nat /\ WinnerCounts \subseteq Nat
    /\ FeeRates \subseteq 0..MAX_SERVICE_FEE_BPS
    /\ RENT \in Nat /\ CreatorFunds \in Nat
    /\ MAX_REVEALS_PER_BATCH \in Nat /\ MAX_WINNERS_PER_BATCH \in Nat
    /\ MAX_PERMITTED_DATA_INCREASE \in Nat
    /\ AllowEarlyUpload \in BOOLEAN

-----------------------------------------------------------------------------
(* Phases *)

IsInActivePhase == terms.active_start_unix <= now /\ now < active_deadline_unix

IsInUploadPhase == upload_start_unix <= now /\ now < upload_deadline_unix

AllAttested == participants_count > 0 /\ attested_count = participants_count

IsReadyForSettlement ==
    now >= upload_deadline_unix \/ AllAttested \/ uploads_complete

\* Mutant: the flag that the last upload left is taken for the answer.
FlagSaysMissing == attested_count > 0 /\ ~uploads_complete

HasMissingAttestedReveals ==
    attested_count > 0 /\ provider_uploaded_count < attested_count

AttestedRevealsComplete ==
    attested_count > 0 /\ provider_uploaded_count >= attested_count

\* Mutant: an expired window refunds even if every reveal came in.
RemediationWindowOver ==
    remediation_deadline_unix > 0 /\ now > remediation_deadline_unix

RemediationExpired ==
    /\ remediation_deadline_unix > 0
    /\ now > remediation_deadline_unix
    /\ HasMissingAttestedReveals

\* Mutant: the window is opened without a deadline.
BeginRemediationForever ==
    IF remediation_start_unix = 0
    THEN remediation_start_unix' = now /\ UNCHANGED remediation_deadline_unix
    ELSE UNCHANGED remediationVars

\* begin_remediation: opens the window once, 0 meaning "not opened".
BeginRemediation ==
    IF remediation_start_unix = 0
    THEN /\ remediation_start_unix' = now
         /\ remediation_deadline_unix' = now + DEFAULT_REMEDIATION_WINDOW_SECS
    ELSE UNCHANGED remediationVars

-----------------------------------------------------------------------------
(* Amounts *)

ServiceFeeOf(total, bps) == (total * bps) \div 10000
WinnersPoolOf(total, bps) == total - ServiceFeeOf(total, bps)

\* Mutant: the fee is charged at the rate in force at settlement.
CurrentServiceFee ==
    ServiceFeeOf(terms.total_payout_lamports, config.service_fee_bps)

ServiceFee == ServiceFeeOf(terms.total_payout_lamports, terms.service_fee_bps)
WinnersPool == WinnersPoolOf(terms.total_payout_lamports, terms.service_fee_bps)

\* transfer_lamports(from, to, amount); its callers guard the balance.
Transfer(balance, from, to, amount) ==
    [[balance EXCEPT ![from] = @ - amount] EXCEPT ![to] = @ + amount]

-----------------------------------------------------------------------------
(* Ledgers *)

\* The state of an account that init_if_needed has not filled yet.
NoFinalizationLedger ==
    [started |-> FALSE, recompute_version |-> 0, target_winners |-> 0,
     seed |-> {}, processed_count |-> 0, eligible_count |-> 0,
     candidates |-> {}, completed |-> FALSE]

NoWinnersLedger ==
    [computed |-> FALSE, winner_wallets |-> <<>>, winners_count |-> 0,
     per_winner_lamports |-> 0, paid |-> {}, paid_count |-> 0,
     locked |-> FALSE, settlement_started |-> FALSE]

\* WinnersLedger::calculate_size and FinalizationLedger::calculate_size.
WinnersLedgerSize(n) == 273 + (n + 7) \div 8 + 32 * n
FinalizationLedgerSize(n) == 181 + 64 * n

\* init_if_needed allocates through a CPI to the system program, which the
\* runtime refuses beyond MAX_PERMITTED_DATA_INCREASE bytes.
WinnersLedgerAllocatable ==
    WinnersLedgerSize(terms.number_of_winners) <= MAX_PERMITTED_DATA_INCREASE
FinalizationLedgerAllocatable ==
    FinalizationLedgerSize(terms.number_of_winners) <= MAX_PERMITTED_DATA_INCREASE

-----------------------------------------------------------------------------
TermsType == [total_payout_lamports : Nat, number_of_winners : Nat,
              service_fee_bps : 0..MAX_SERVICE_FEE_BPS, active_start_unix : Nat]

ConfigType == [service_fee_bps : 0..MAX_SERVICE_FEE_BPS,
               default_upload_duration_secs : UploadDurations]

FinalizationLedgerType ==
    [started : BOOLEAN, recompute_version : Nat, target_winners : Nat,
     seed : Seeds, processed_count : Nat, eligible_count : Nat,
     candidates : SUBSET Wallets, completed : BOOLEAN]

WinnersLedgerType ==
    [computed : BOOLEAN, winner_wallets : Seq(Wallets), winners_count : Nat,
     per_winner_lamports : Nat, paid : SUBSET Nat, paid_count : Nat,
     locked : BOOLEAN, settlement_started : BOOLEAN]
=============================================================================
