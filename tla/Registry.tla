------------------------------- MODULE Registry -------------------------------
(***************************************************************************)
(* Many giveaways under one config account: drawing, paying and refunding  *)
(* them, and the whole of the registry's behaviour.                        *)
(***************************************************************************)
EXTENDS RegistryEntries

\* The accounts that no instruction below changes.
SettlementFrame == UNCHANGED <<config, window, receipts>>

AllocatedDraw(g) ==
    IF g \in DOMAIN draws THEN draws[g]
    ELSE [processed_count |-> 0, candidates |-> {}, completed |-> FALSE]

FinalizeGuard(g, v) ==
    /\ ~giveaways[g].settled /\ ~giveaways[g].winners_locked
    /\ LinkedVault(g, v)
    /\ \/ window[g] = "over"
       \/ AllAttested(g)
       \/ giveaways[g].uploads_complete
    /\ giveaways[g].attested_count > 0

FinalizeOpensRemediation(g, v) ==
    /\ FinalizeGuard(g, v)
    /\ HasMissingAttestedReveals(g)
    /\ window[g] = "over" /\ giveaways[g].remediation = "none"
    /\ giveaways' = [giveaways EXCEPT ![g].remediation = "open"]
    /\ SettlementFrame /\ UNCHANGED <<entries, draws, ledgers, vaults, lamports>>

NewLedger(g, winners, share) ==
    [giveaway |-> g, winner_wallets |-> winners, per_winner_lamports |-> share,
     paid |-> {}, locked |-> FALSE]

\* The last chunk publishes the best of the candidates, whoever they are: ranks
\* are those of Giveaways, any choice here.
PublishWinners(g, candidates) ==
    LET count == Min({Cardinality(candidates), giveaways[g].number_of_winners})
        pool == giveaways[g].total_payout_lamports - FeeOf(g)
        share == IF count = 0 THEN 0 ELSE pool \div count
    IN /\ count > 0 => share >= MIN_WINNER_PAYOUT_LAMPORTS
       /\ \E winners \in kSubset(count, candidates) :
            ledgers' = Put(ledgers, g, NewLedger(g, winners, share))

FinalizeChunk(g, v, chunk) ==
    LET draw == AllocatedDraw(g)
        processed == draw.processed_count + Cardinality(chunk)
        candidates == draw.candidates \cup {entries[e].wallet :
                            e \in {f \in chunk : ~entries[f].disqualified}}
        completed == processed = giveaways[g].provider_uploaded_count
    IN
    /\ FinalizeGuard(g, v)
    /\ ~HasMissingAttestedReveals(g)
    /\ ~draw.completed
    /\ \A e \in chunk : /\ OwnedEntry(g, e)
                        /\ entries[e].reveal_included
                        /\ ~entries[e].finalized
    /\ processed <= giveaways[g].provider_uploaded_count
    /\ entries' = Marked(chunk, "finalized")
    /\ draws' = Put(draws, g, [processed_count |-> processed,
                               candidates |-> candidates, completed |-> completed])
    /\ IF completed THEN PublishWinners(g, candidates) ELSE UNCHANGED ledgers
    /\ giveaways' = [giveaways EXCEPT ![g] = [@ EXCEPT
            !.winners_computed = completed, !.uploads_complete = TRUE]]
    /\ SettlementFrame /\ UNCHANGED <<vaults, lamports>>

LockWinners(g, l, signer) ==
    /\ ~giveaways[g].settled
    /\ giveaways[g].winners_computed /\ ~giveaways[g].winners_locked
    /\ LinkedLedger(g, l) /\ LinkedCreator(g, signer)
    /\ giveaways' = [giveaways EXCEPT ![g].winners_locked = TRUE]
    /\ ledgers' = [ledgers EXCEPT ![l].locked = TRUE]
    /\ SettlementFrame /\ UNCHANGED <<entries, draws, vaults, lamports>>

\* Winners are paid from the vault; the last of them closes it.
SettlePayoutBatch(g, v, l, c, batch) ==
    LET share == ledgers[l].per_winner_lamports
        left == vaults[v] - share * Cardinality(batch)
        paid == ledgers[l].paid \cup batch
        complete == paid = ledgers[l].winner_wallets
        credited == [a \in DOMAIN lamports |->
                        lamports[a] + IF a \in batch THEN share ELSE 0]
    IN
    /\ ~giveaways[g].settled
    /\ giveaways[g].winners_computed /\ giveaways[g].winners_locked
    /\ LinkedVault(g, v) /\ LinkedLedger(g, l) /\ LinkedCreator(g, c)
    /\ ledgers[l].locked
    /\ share >= MIN_WINNER_PAYOUT_LAMPORTS
    /\ batch # {} /\ batch \cap ledgers[l].paid = {}
    /\ left >= IF complete THEN FeeOf(g) ELSE 0
    /\ ledgers' = [ledgers EXCEPT ![l].paid = paid]
    /\ vaults' = [vaults EXCEPT ![v] = IF complete THEN 0 ELSE left]
    /\ lamports' = IF complete
                   THEN Add(Add(credited, Authority, FeeOf(g)), c, left - FeeOf(g))
                   ELSE credited
    /\ giveaways' = [giveaways EXCEPT ![g].settled = complete]
    /\ SettlementFrame /\ UNCHANGED <<entries, draws>>

RefundDue(g) ==
    IF giveaways[g].participants_count = 0 THEN window[g] # "active"
    ELSE IF giveaways[g].attested_count = 0 THEN window[g] = "over"
    ELSE \/ RemediationExpired(g)
         \/ /\ giveaways[g].winners_computed
            /\ g \in DOMAIN ledgers /\ ledgers[g].winner_wallets = {}

SettleGiveaway(g, v, c) ==
    /\ ~giveaways[g].settled
    /\ LinkedVault(g, v) /\ LinkedCreator(g, c)
    /\ RefundDue(g)
    /\ giveaways' = [giveaways EXCEPT ![g].settled = TRUE]
    /\ vaults' = [vaults EXCEPT ![v] = 0]
    /\ lamports' = Add(lamports, c, vaults[v])
    /\ SettlementFrame /\ UNCHANGED <<entries, draws, ledgers>>

-----------------------------------------------------------------------------
\* The clock reaches the end of a window of one of the giveaways.
WindowCloses(g) ==
    /\ \/ /\ window[g] = "active"
          /\ window' = [window EXCEPT ![g] = "upload"]
          /\ UNCHANGED giveaways
       \/ /\ window[g] = "upload"
          /\ window' = [window EXCEPT ![g] = "over"]
          /\ UNCHANGED giveaways
       \/ /\ giveaways[g].remediation = "open"
          /\ giveaways' = [giveaways EXCEPT ![g].remediation = "expired"]
          /\ UNCHANGED window
    /\ UNCHANGED <<config, entries, draws, ledgers, vaults, lamports, receipts>>

ConfigInstruction ==
    \/ \E bps \in FeeRates : Initialize(bps) \/ UpdateServiceCharge(bps)
    \/ \E c \in Creators, id \in 1..MaxGiveaways, total \in Payouts,
          n \in WinnerCounts : CreateGiveaway(c, id, total, n)

\* Any existing accounts may be passed, whichever giveaway they belong to.
EntryInstruction(g) ==
    \/ \E w \in Wallets, commitment \in Commitments :
            /\ <<g, w>> \in DOMAIN entries \/ Cardinality(DOMAIN entries) < MaxEntries
            /\ Participate(g, w, commitment)
    \/ \E e \in DOMAIN entries :
            \/ \E c \in Creators : DisqualifyParticipant(g, e, c)
            \/ \E w \in Wallets : AttestUploaded(g, e, w)
    \/ \E batch \in SUBSET DOMAIN entries \ {{}}, by_authority \in BOOLEAN :
            UploadReveals(g, batch, by_authority)

SettlementInstruction(g) ==
    \E v \in DOMAIN vaults :
        \/ FinalizeOpensRemediation(g, v)
        \/ \E chunk \in SUBSET DOMAIN entries \ {{}} : FinalizeChunk(g, v, chunk)
        \/ \E c \in Creators : SettleGiveaway(g, v, c)
        \/ \E c \in Creators, l \in DOMAIN ledgers :
            \/ LockWinners(g, l, c)
            \/ \E batch \in SUBSET ledgers[l].winner_wallets :
                    SettlePayoutBatch(g, v, l, c, batch)

Next ==
    \/ ConfigInstruction
    \/ \E e \in DOMAIN entries : IssueReceipt(e)
    \/ \E g \in DOMAIN giveaways :
            WindowCloses(g) \/ EntryInstruction(g) \/ SettlementInstruction(g)

Spec == Init /\ [][Next]_vars
=============================================================================
