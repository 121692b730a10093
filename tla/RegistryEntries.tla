--------------------------- MODULE RegistryEntries ---------------------------
(***************************************************************************)
(* Many giveaways under one config account, up to the upload of reveals:   *)
(* sequential ids, fees that change between giveaways, and instructions    *)
(* that name their accounts one by one, so that nothing but the checks of  *)
(* the program keeps the entry, the vault or the ledger of one giveaway    *)
(* out of an instruction for another.                                      *)
(*                                                                         *)
(* Giveaways models the timing of one giveaway second by second.  Here a   *)
(* giveaway is in its active or upload window or past both, and windows    *)
(* close at any moment.  A program-derived address is named by its seeds:  *)
(* a giveaway, its vault and its ledgers by the id, an entry by giveaway   *)
(* and wallet.                                                             *)
(***************************************************************************)
EXTENDS FiniteSetsExt, ProviderReceipt

CONSTANTS
    Authority, Creators, Wallets, Commitments,
    RENT,                               \* of a vault
    Payouts, WinnerCounts, FeeRates,    \* bounds on the arguments
    CreatorFunds,                       \* lamports each creator starts with
    MaxGiveaways, MaxEntries            \* bounds on the accounts created

VARIABLES
    config,         \* Config account, or NoConfig
    giveaways,      \* Giveaway accounts
    window,         \* the clock against their deadlines: active, upload, over
    entries,        \* Participant accounts
    draws,          \* FinalizationLedger accounts
    ledgers,        \* WinnersLedger accounts that hold winners
    vaults,         \* lamports of each vault
    lamports,       \* lamports of everybody else
    receipts        \* messages the provider has signed

vars == <<config, giveaways, window, entries, draws, ledgers, vaults, lamports, receipts>>

\* Roles are kept apart here; the money run of Giveaways combines them.
ASSUME PartiesAssumption ==
    Authority \notin Creators \cup Wallets /\ Creators \cap Wallets = {}
ASSUME AmountsAssumption ==
    /\ RENT \in Nat /\ CreatorFunds \in Nat /\ MaxGiveaways \in Nat
    /\ Payouts \subseteq Nat /\ WinnerCounts \subseteq Nat /\ FeeRates \subseteq Nat

NoConfig == [service_fee_bps |-> 0, next_giveaway_id |-> 0]
MAX_SERVICE_FEE_BPS == 9999
MIN_WINNER_PAYOUT_LAMPORTS == 1
MIN_WINNERS == 1
MAX_WINNERS == 1000

\* The account at address a now exists and holds this.
Put(accounts, a, value) ==
    [x \in DOMAIN accounts \cup {a} |-> IF x = a THEN value ELSE accounts[x]]

Add(accounts, a, amount) == [accounts EXCEPT ![a] = @ + amount]

Marked(addresses, field) ==
    [e \in DOMAIN entries |-> IF e \in addresses
                              THEN [entries[e] EXCEPT ![field] = TRUE]
                              ELSE entries[e]]

FeeOf(g) ==
    (giveaways[g].total_payout_lamports * giveaways[g].service_fee_bps) \div 10000

Init ==
    /\ config = NoConfig
    /\ giveaways = <<>> /\ window = <<>> /\ entries = <<>> /\ draws = <<>> /\ ledgers = <<>>
    /\ vaults = <<>>
    /\ lamports = [a \in Creators \cup Wallets \cup {Authority} |->
                        IF a \in Creators THEN CreatorFunds ELSE 0]
    /\ receipts = {}

-----------------------------------------------------------------------------
(* The checks that tie the accounts of an instruction together *)

\* Mutant: any Participant account is taken.
AnyEntry(g, e) == TRUE

\* participant_account.giveaway == giveaway.key()
LinkedEntry(g, e) == entries[e].giveaway = g

\* Mutant: neither the address of a Participant account nor the giveaway that it
\* names is checked.
AnyPda(g, e) == TRUE

\* assert_pda_owned and the key comparison next to it
OwnedEntry(g, e) == e = <<g, entries[e].wallet>> /\ entries[e].giveaway = g

\* Mutant: any vault is taken.
AnyVault(g, v) == TRUE

LinkedVault(g, v) == v = giveaways[g].vault

\* Mutant: any winners ledger is taken.
AnyLedger(g, l) == TRUE

LinkedLedger(g, l) == ledgers[l].giveaway = g

\* Mutant: anybody may be named as the creator.
AnyCreator(g, c) == TRUE

LinkedCreator(g, c) == c = giveaways[g].creator

-----------------------------------------------------------------------------
(* Config *)

Initialize(bps) ==
    /\ config = NoConfig
    /\ bps <= MAX_SERVICE_FEE_BPS
    /\ config' = [service_fee_bps |-> bps, next_giveaway_id |-> 1]
    /\ UNCHANGED <<giveaways, window, entries, draws, ledgers, vaults, lamports, receipts>>

UpdateServiceCharge(bps) ==
    /\ config # NoConfig
    /\ bps <= MAX_SERVICE_FEE_BPS
    /\ config' = [config EXCEPT !.service_fee_bps = bps]
    /\ UNCHANGED <<giveaways, window, entries, draws, ledgers, vaults, lamports, receipts>>

\* Mutant: the id is only required to be fresh.
NotUsedBefore(id) == id > 0

NextInSequence(id) == id = config.next_giveaway_id

NewGiveaway(id, creator, total, n) ==
    [creator |-> creator, vault |-> id, total_payout_lamports |-> total,
     number_of_winners |-> n, service_fee_bps |-> config.service_fee_bps,
     remediation |-> "none", participants_count |-> 0, attested_count |-> 0,
     provider_uploaded_count |-> 0, uploads_complete |-> FALSE,
     winners_computed |-> FALSE, winners_locked |-> FALSE, settled |-> FALSE]

\* The id was read when the creator signed; until the transaction runs others
\* may have used it, and the same transaction may be sent again.
CreateGiveaway(creator, id, total, n) ==
    /\ config # NoConfig
    /\ id \notin DOMAIN giveaways           \* init
    /\ NextInSequence(id)
    /\ n \in MIN_WINNERS..MAX_WINNERS
    /\ total > 0
    /\ total - (total * config.service_fee_bps) \div 10000
            >= n * MIN_WINNER_PAYOUT_LAMPORTS
    /\ lamports[creator] >= total + RENT
    /\ giveaways' = Put(giveaways, id, NewGiveaway(id, creator, total, n))
    /\ window' = Put(window, id, "active")
    /\ vaults' = Put(vaults, id, total + RENT)
    /\ lamports' = Add(lamports, creator, -(total + RENT))
    /\ config' = [config EXCEPT !.next_giveaway_id = @ + 1]
    /\ UNCHANGED <<entries, draws, ledgers, receipts>>

-----------------------------------------------------------------------------
(* Entries.  Each action is one handler on the accounts it is given. *)

EntryFrame == UNCHANGED <<config, window, draws, ledgers, vaults, lamports>>

NewEntry(g, w, commitment) ==
    [giveaway |-> g, wallet |-> w, commitment_hash |-> commitment,
     disqualified |-> FALSE, attested_uploaded |-> FALSE,
     reveal_included |-> FALSE, finalized |-> FALSE]

Participate(g, w, commitment) ==
    LET e == <<g, w>> IN
    /\ ~giveaways[g].settled /\ window[g] = "active"
    /\ IF e \in DOMAIN entries
       THEN /\ entries' = [entries EXCEPT ![e].commitment_hash = commitment]
            /\ UNCHANGED giveaways
       ELSE /\ entries' = Put(entries, e, NewEntry(g, w, commitment))
            /\ giveaways' = [giveaways EXCEPT ![g].participants_count = @ + 1]
    /\ EntryFrame /\ UNCHANGED receipts

DisqualifyParticipant(g, e, signer) ==
    /\ LinkedCreator(g, signer)
    /\ LinkedEntry(g, e)
    /\ ~giveaways[g].settled /\ ~giveaways[g].winners_locked
    /\ ~entries[e].disqualified
    /\ window[g] = "active"
    /\ entries' = [entries EXCEPT ![e].disqualified = TRUE]
    /\ EntryFrame /\ UNCHANGED <<giveaways, receipts>>

\* Off chain: the provider signs for an entry as it stands.
IssueReceipt(e) ==
    /\ receipts' = receipts \cup
            {ExpectedMessage(entries[e].giveaway, entries[e].wallet,
                             entries[e].commitment_hash)}
    /\ EntryFrame /\ UNCHANGED <<giveaways, entries>>

\* The provider signs receipts only; a participant's key may sign anything.
Signed(w, messages) ==
    {<<Authority, r>> : r \in receipts} \cup {<<w, msg>> : msg \in messages}

AttestUploaded(g, e, w) ==
    LET expected == ExpectedMessage(g, w, entries[e].commitment_hash)
        messages == receipts \cup {expected}
    IN
    /\ LinkedEntry(g, e)
    /\ entries[e].wallet = w
    /\ ~giveaways[g].settled /\ window[g] = "upload"
    /\ ~entries[e].attested_uploaded /\ ~entries[e].disqualified
    /\ \E tx \in Transactions({Authority, w}, messages) :
            /\ Executes(tx, Signed(w, messages))
            /\ VerifyProviderReceipt(tx, Authority, expected)
    /\ entries' = [entries EXCEPT ![e].attested_uploaded = TRUE]
    /\ giveaways' = [giveaways EXCEPT ![g].attested_count = @ + 1]
    /\ EntryFrame /\ UNCHANGED receipts

AllAttested(g) ==
    /\ giveaways[g].participants_count > 0
    /\ giveaways[g].attested_count = giveaways[g].participants_count

HasMissingAttestedReveals(g) ==
    giveaways[g].provider_uploaded_count < giveaways[g].attested_count

RemediationExpired(g) ==
    giveaways[g].remediation = "expired" /\ HasMissingAttestedReveals(g)

Begun(remediation) == IF remediation = "none" THEN "open" ELSE remediation

UploadReveals(g, batch, by_authority) ==
    LET count == giveaways[g].provider_uploaded_count + Cardinality(batch)
        remediation == giveaways[g].remediation
    IN
    /\ ~giveaways[g].settled /\ ~giveaways[g].winners_computed
    /\ ~RemediationExpired(g)
    /\ \/ by_authority
       \/ window[g] = "over" /\ HasMissingAttestedReveals(g)
    /\ window[g] # "active" \/ AllAttested(g)
    /\ \A e \in batch :
            /\ OwnedEntry(g, e)
            /\ ~entries[e].reveal_included /\ ~entries[e].disqualified
            /\ entries[e].attested_uploaded
    /\ entries' = Marked(batch, "reveal_included")
    /\ giveaways' = [giveaways EXCEPT ![g] = [@ EXCEPT
            !.provider_uploaded_count = count,
            !.uploads_complete = (giveaways[g].attested_count \in 1..count),
            !.remediation = IF by_authority THEN remediation ELSE Begun(remediation)]]
    /\ EntryFrame /\ UNCHANGED receipts
=============================================================================
