-------------------------- MODULE RegistryProperties --------------------------
(***************************************************************************)
(* What holds of many giveaways under one config account.                  *)
(***************************************************************************)
EXTENDS Registry, Functions

EntryType ==
    [giveaway : Nat, wallet : Wallets, commitment_hash : Commitments,
     disqualified : BOOLEAN, attested_uploaded : BOOLEAN,
     reveal_included : BOOLEAN, finalized : BOOLEAN]

\* Every account lies at its address, every entry in an existing giveaway.
TypeOK ==
    /\ config \in [service_fee_bps : Nat, next_giveaway_id : Nat]
    /\ DOMAIN giveaways \subseteq Nat
    /\ window \in [DOMAIN giveaways -> {"active", "upload", "over"}]
    /\ entries \in [DOMAIN entries -> EntryType]
    /\ \A e \in DOMAIN entries :
        /\ e = <<entries[e].giveaway, entries[e].wallet>>
        /\ entries[e].giveaway \in DOMAIN giveaways

GiveawayType ==
    [creator : Creators, vault : Nat, total_payout_lamports : Nat,
     number_of_winners : Nat, service_fee_bps : Nat,
     remediation : {"none", "open", "expired"}, participants_count : Nat,
     attested_count : Nat, provider_uploaded_count : Nat,
     uploads_complete : BOOLEAN, winners_computed : BOOLEAN,
     winners_locked : BOOLEAN, settled : BOOLEAN]

DrawType ==
    [processed_count : Nat, candidates : SUBSET Wallets, completed : BOOLEAN]

LedgerType ==
    [giveaway : Nat, winner_wallets : SUBSET Wallets, per_winner_lamports : Int,
     paid : SUBSET Wallets, locked : BOOLEAN]

AccountsTyped ==
    /\ giveaways \in [DOMAIN giveaways -> GiveawayType]
    /\ vaults \in [DOMAIN giveaways -> Int]
    /\ draws \in [DOMAIN draws -> DrawType]
    /\ ledgers \in [DOMAIN ledgers -> LedgerType]

PaidOut(g) ==
    IF g \in DOMAIN ledgers
    THEN ledgers[g].per_winner_lamports * Cardinality(ledgers[g].paid)
    ELSE 0

Distributed(g) ==
    /\ giveaways[g].settled
    /\ g \in DOMAIN ledgers
    /\ ledgers[g].paid # {} /\ ledgers[g].paid = ledgers[g].winner_wallets

FeePaid(g) == IF Distributed(g) THEN FeeOf(g) ELSE 0

Deposit(g) == giveaways[g].total_payout_lamports + RENT

\* What the creator of g has put into it and not got back.
Outlay(g) == IF giveaways[g].settled THEN PaidOut(g) + FeePaid(g) ELSE Deposit(g)

CreatedBy(c) == {g \in DOMAIN giveaways : giveaways[g].creator = c}

Outlays == [g \in DOMAIN giveaways |-> Outlay(g)]
FeesPaid == [g \in DOMAIN giveaways |-> FeePaid(g)]

-----------------------------------------------------------------------------
\* However create_giveaway transactions race, repeat or arrive late, the ids
\* that exist are 1 up to the next one, without a gap and without reuse.
IdsAreSequential ==
    config # NoConfig => DOMAIN giveaways = 1..config.next_giveaway_id - 1

\* Why: no giveaway precedes the config, whose counter starts at 1.
IdInvariant ==
    /\ IdsAreSequential
    /\ config = NoConfig => DOMAIN giveaways = {}
    /\ config # NoConfig => config.next_giveaway_id > 0

\* Every vault holds the deposit of its own giveaway less what the ledger of
\* that giveaway says is paid, until that giveaway settles (LinkedVault).
VaultsFollowTheirLedgers ==
    \A g \in DOMAIN giveaways :
        vaults[g] = IF giveaways[g].settled THEN 0 ELSE Deposit(g) - PaidOut(g)

\* A creator is out of pocket for the creator's own giveaways only, and the
\* authority has the fee, at the rate each was created with, of those that
\* paid their winners (LinkedCreator, service_fee_bps of the giveaway).
AccountsBalance ==
    /\ \A c \in Creators :
        lamports[c] = CreatorFunds - SumFunctionOnSet(Outlays, CreatedBy(c))
    /\ lamports[Authority] = SumFunctionOnSet(FeesPaid, DOMAIN giveaways)

\* A winner of a giveaway has an attested and included entry in that giveaway
\* (assert_pda_owned in upload_reveals and finalize_winners).
WinnersTookPart ==
    \A g \in DOMAIN ledgers : \A w \in ledgers[g].winner_wallets :
        /\ <<g, w>> \in DOMAIN entries
        /\ entries[<<g, w>>].attested_uploaded /\ entries[<<g, w>>].reveal_included

IncludedIn(g, w) ==
    <<g, w>> \in DOMAIN entries /\ entries[<<g, w>>].reveal_included

\* Why: a draw takes its candidates from included entries of its own giveaway,
\* and a ledger its winners from a completed draw, which is never reopened.
LedgersInvariant ==
    /\ AccountsTyped
    /\ IsFiniteSet(DOMAIN entries)
    /\ \A e \in DOMAIN entries :
            entries[e].reveal_included => entries[e].attested_uploaded
    /\ \A g \in DOMAIN giveaways : giveaways[g].vault = g
    /\ \A g \in DOMAIN draws :
            /\ g \in DOMAIN giveaways
            /\ \A w \in draws[g].candidates : IncludedIn(g, w)
    /\ \A g \in DOMAIN ledgers :
            /\ ledgers[g].giveaway = g
            /\ g \in DOMAIN draws /\ draws[g].completed
            /\ ledgers[g].winner_wallets \subseteq draws[g].candidates
            /\ ledgers[g].paid \subseteq ledgers[g].winner_wallets

\* Why: only terms that can be paid are accepted, nobody is attested and then
\* disqualified, so a completed draw has a winner, and the payment of the last
\* winner settles the giveaway itself.
EscrowsInvariant ==
    /\ config.service_fee_bps <= MAX_SERVICE_FEE_BPS
    /\ \A g \in DOMAIN giveaways :
            /\ giveaways[g].service_fee_bps <= MAX_SERVICE_FEE_BPS
            /\ giveaways[g].number_of_winners >= MIN_WINNERS
    /\ \A e \in DOMAIN entries :
            ~(entries[e].attested_uploaded /\ entries[e].disqualified)
    /\ \A g \in DOMAIN draws : draws[g].processed_count > 0 => draws[g].candidates # {}
    /\ \A g \in DOMAIN ledgers :
            /\ ledgers[g].winner_wallets # {}
            /\ giveaways[g].settled \/ ledgers[g].paid # ledgers[g].winner_wallets

\* For every attestation the provider signed a receipt for this giveaway, this
\* wallet and the commitment in force (verify_provider_receipt), whatever the
\* layout of the Ed25519 instructions in the transaction.
AttestationsAreReceipted ==
    \A e \in DOMAIN entries :
        entries[e].attested_uploaded =>
            ExpectedMessage(e[1], e[2], entries[e].commitment_hash) \in receipts

\* Why: nobody attests before the entry window of the giveaway has closed, and
\* from then on the commitment in the receipt is that of the entry.
ReceiptInvariant ==
    /\ TypeOK
    /\ \A e \in DOMAIN entries :
        entries[e].attested_uploaded => window[entries[e].giveaway] # "active"
    /\ AttestationsAreReceipted

Entered(g, field) ==
    Cardinality({e \in DOMAIN entries : e[1] = g /\ entries[e][field]})

\* The counters of a giveaway count its own entries: attestations and reveals
\* of entries in another giveaway never open its settlement.
CountsAreOfOwnEntries ==
    \A g \in DOMAIN giveaways :
        /\ giveaways[g].attested_count = Entered(g, "attested_uploaded")
        /\ giveaways[g].provider_uploaded_count = Entered(g, "reveal_included")

-----------------------------------------------------------------------------
EscrowStatus(g) ==
    IF g \notin DOMAIN giveaways THEN "none"
    ELSE IF Distributed(g) THEN "distributed"
    ELSE IF giveaways[g].settled THEN "returned"
    ELSE IF g \in DOMAIN ledgers THEN "drawn" ELSE "open"

\* What the accounts of giveaway g hold, none of them created yet included.
HeldFor(g) == IF g \in DOMAIN vaults THEN vaults[g] ELSE 0
FeeDue(g) == IF g \in DOMAIN giveaways THEN FeeOf(g) ELSE 0
WinnersOf(g) == IF g \in DOMAIN ledgers THEN ledgers[g].winner_wallets ELSE {}
ShareOf(g) == IF g \in DOMAIN ledgers THEN ledgers[g].per_winner_lamports ELSE 0
PaidOf(g) == IF g \in DOMAIN ledgers THEN ledgers[g].paid ELSE {}

EscrowOf(g) == INSTANCE Escrow WITH
    People <- Wallets, status <- EscrowStatus(g), held <- HeldFor(g), fee <- FeeDue(g),
    beneficiaries <- WinnersOf(g), share <- ShareOf(g), paid <- PaidOf(g)

\* Seen through its own accounts each giveaway is an escrow of its own: what
\* an instruction does to one is a step of that escrow, and no instruction
\* moves two of them.
GiveawaysAreSeparateEscrows ==
    [][/\ \A g \in 1..MaxGiveaways :
            EscrowOf(g)!EscrowNext \/ UNCHANGED EscrowOf(g)!escrowVars
       /\ \A g, h \in 1..MaxGiveaways :
            g # h => \/ UNCHANGED EscrowOf(g)!escrowVars
                     \/ UNCHANGED EscrowOf(h)!escrowVars]_vars
=============================================================================
