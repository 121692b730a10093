---------------------------- MODULE RegistryProofs ----------------------------
(***************************************************************************)
(* Proofs about Registry, for any number of giveaways, creators, wallets   *)
(* and transactions: a receipt the program accepts is one the provider     *)
(* signed, every attestation rests on such a receipt, ids are sequential;  *)
(* and, whatever accounts the instructions are given, the entries, the     *)
(* counters, the winners and the lamports of a giveaway are its own, so    *)
(* that each is an escrow apart from the others.                           *)
(***************************************************************************)
EXTENDS RegistryProperties, SetTheorems, TLAPS

\* What the program reads from the Ed25519 instructions of its transaction was
\* verified by the runtime, for any number of instructions, in any layout.
THEOREM AcceptedReceiptIsSigned ==
    ASSUME NEW tx, NEW keys, NEW messages, NEW signed \in SUBSET (keys \X messages),
           NEW key, NEW message,
           Executes(tx, signed), VerifyProviderReceipt(tx, key, message)
    PROVE  <<key, message>> \in signed
<1>1. PICK k \in 1..Len(tx) : /\ tx[k].program = "ed25519"
                              /\ ParseEd25519(tx[k]) = <<key, message>>
  BY DEF VerifyProviderReceipt
<1> DEFINE ix == tx[k]
<1>2. /\ {ix.signature_ix, ix.pubkey_ix, ix.message_ix} = {U16_MAX}
      /\ ix.pubkey = key /\ ix.message = message
  BY <1>1 DEF ParseEd25519, None
<1>3. PICK pair \in signed :
        /\ pair[1] = Pointed(tx, ix, ix.pubkey_ix).pubkey
        /\ pair[2] = Pointed(tx, ix, ix.message_ix).message
  BY <1>1 DEF Executes, Verifies
<1>4. ix.pubkey_ix = U16_MAX /\ ix.message_ix = U16_MAX
  BY <1>2
<1>5. pair[1] = key /\ pair[2] = message
  BY <1>2, <1>3, <1>4 DEF Pointed
<1>6. pair \in keys \X messages
  OBVIOUS
<1> QED  BY <1>5, <1>6

-----------------------------------------------------------------------------
\* The steps of the registry, with the accounts each is given.
LEMMA RegistryCases ==
    ASSUME Next
    PROVE  \/ \E bps \in FeeRates : Initialize(bps) \/ UpdateServiceCharge(bps)
           \/ \E c \in Creators, id \in 1..MaxGiveaways, total \in Payouts,
                 n \in WinnerCounts : CreateGiveaway(c, id, total, n)
           \/ \E e \in DOMAIN entries : IssueReceipt(e)
           \/ \E g \in DOMAIN giveaways :
                \/ WindowCloses(g)
                \/ \E w \in Wallets, c \in Commitments : Participate(g, w, c)
                \/ \E e \in DOMAIN entries, c \in Creators :
                        DisqualifyParticipant(g, e, c)
                \/ \E e \in DOMAIN entries, w \in Wallets : AttestUploaded(g, e, w)
                \/ \E batch \in SUBSET DOMAIN entries, by_authority \in BOOLEAN :
                        UploadReveals(g, batch, by_authority)
                \/ \E v \in DOMAIN vaults :
                    \/ FinalizeOpensRemediation(g, v)
                    \/ \E chunk \in SUBSET DOMAIN entries : FinalizeChunk(g, v, chunk)
                    \/ \E c \in Creators : SettleGiveaway(g, v, c)
                    \/ \E c \in Creators, l \in DOMAIN ledgers : LockWinners(g, l, c)
                    \/ \E c \in Creators, l \in DOMAIN ledgers :
                        \E batch \in SUBSET ledgers[l].winner_wallets :
                            SettlePayoutBatch(g, v, l, c, batch)
BY DEF Next, ConfigInstruction, EntryInstruction, SettlementInstruction

\* Instructions that change only flags of a giveaway, ledgers and balances.
FlagStep ==
    \E g \in DOMAIN giveaways, v \in DOMAIN vaults :
        \/ FinalizeOpensRemediation(g, v)
        \/ \E c \in Creators : SettleGiveaway(g, v, c)
        \/ \E c \in Creators, l \in DOMAIN ledgers : LockWinners(g, l, c)
        \/ \E c \in Creators, l \in DOMAIN ledgers :
            \E batch \in SUBSET ledgers[l].winner_wallets :
                SettlePayoutBatch(g, v, l, c, batch)

\* Instructions that mark a batch of entries as used.
MarkStep ==
    \E g \in DOMAIN giveaways, batch \in SUBSET DOMAIN entries :
        \/ \E by_authority \in BOOLEAN : UploadReveals(g, batch, by_authority)
        \/ \E v \in DOMAIN vaults : FinalizeChunk(g, v, batch)

LEMMA FlagStepFrame ==
    ASSUME FlagStep
    PROVE  /\ UNCHANGED <<config, window, entries, receipts>>
           /\ DOMAIN giveaways' = DOMAIN giveaways
<1>1. PICK g \in DOMAIN giveaways, v \in DOMAIN vaults :
        \/ FinalizeOpensRemediation(g, v)
        \/ \E c \in Creators : SettleGiveaway(g, v, c)
        \/ \E c \in Creators, l \in DOMAIN ledgers : LockWinners(g, l, c)
        \/ \E c \in Creators, l \in DOMAIN ledgers :
            \E batch \in SUBSET ledgers[l].winner_wallets :
                SettlePayoutBatch(g, v, l, c, batch)
  BY DEF FlagStep
<1>2. CASE FinalizeOpensRemediation(g, v)
  BY <1>2 DEF FinalizeOpensRemediation, SettlementFrame
<1>3. ASSUME NEW c \in Creators, SettleGiveaway(g, v, c)
      PROVE  /\ UNCHANGED <<config, window, entries, receipts>>
             /\ DOMAIN giveaways' = DOMAIN giveaways
  BY <1>3 DEF SettleGiveaway, SettlementFrame
<1>4. ASSUME NEW c \in Creators, NEW l \in DOMAIN ledgers, LockWinners(g, l, c)
      PROVE  /\ UNCHANGED <<config, window, entries, receipts>>
             /\ DOMAIN giveaways' = DOMAIN giveaways
  BY <1>4 DEF LockWinners, SettlementFrame
<1>5. ASSUME NEW c \in Creators, NEW l \in DOMAIN ledgers,
             NEW batch \in SUBSET ledgers[l].winner_wallets,
             SettlePayoutBatch(g, v, l, c, batch)
      PROVE  /\ UNCHANGED <<config, window, entries, receipts>>
             /\ DOMAIN giveaways' = DOMAIN giveaways
  BY <1>5 DEF SettlePayoutBatch, SettlementFrame
<1> QED  BY <1>1, <1>2, <1>3, <1>4, <1>5

LEMMA MarkStepFrame ==
    ASSUME MarkStep
    PROVE  /\ UNCHANGED <<config, window, receipts>>
           /\ DOMAIN giveaways' = DOMAIN giveaways
           /\ \E batch : \/ entries' = Marked(batch, "reveal_included")
                         \/ entries' = Marked(batch, "finalized")
<1>1. PICK g \in DOMAIN giveaways, batch \in SUBSET DOMAIN entries :
        \/ \E by_authority \in BOOLEAN : UploadReveals(g, batch, by_authority)
        \/ \E v \in DOMAIN vaults : FinalizeChunk(g, v, batch)
  BY DEF MarkStep
<1>2. ASSUME NEW by_authority \in BOOLEAN, UploadReveals(g, batch, by_authority)
      PROVE  /\ UNCHANGED <<config, window, receipts>>
             /\ DOMAIN giveaways' = DOMAIN giveaways
             /\ entries' = Marked(batch, "reveal_included")
  BY <1>2 DEF UploadReveals, EntryFrame
<1>3. ASSUME NEW v \in DOMAIN vaults, FinalizeChunk(g, v, batch)
      PROVE  /\ UNCHANGED <<config, window, receipts>>
             /\ DOMAIN giveaways' = DOMAIN giveaways
             /\ entries' = Marked(batch, "finalized")
  BY <1>3 DEF FinalizeChunk, SettlementFrame
<1> QED  BY <1>1, <1>2, <1>3

\* The entries are the same in all that a receipt is about.
EntriesKept ==
    /\ entries' \in [DOMAIN entries -> EntryType]
    /\ \A e \in DOMAIN entries :
        /\ entries'[e].giveaway = entries[e].giveaway
        /\ entries'[e].wallet = entries[e].wallet
        /\ entries'[e].commitment_hash = entries[e].commitment_hash
        /\ entries'[e].attested_uploaded = entries[e].attested_uploaded

\* Marking entries as used changes nothing a receipt is about.
LEMMA MarkedEntries ==
    ASSUME TypeOK, NEW batch,
           \/ entries' = Marked(batch, "reveal_included")
           \/ entries' = Marked(batch, "finalized")
    PROVE  EntriesKept
<1>1. entries' = [e \in DOMAIN entries |-> entries'[e]]
  BY DEF Marked
<1>2. SUFFICES ASSUME NEW e \in DOMAIN entries
               PROVE  /\ entries'[e] \in EntryType
                      /\ entries'[e].giveaway = entries[e].giveaway
                      /\ entries'[e].wallet = entries[e].wallet
                      /\ entries'[e].commitment_hash = entries[e].commitment_hash
                      /\ entries'[e].attested_uploaded = entries[e].attested_uploaded
  BY <1>1 DEF EntriesKept
<1>3. entries[e] \in EntryType
  BY DEF TypeOK
<1>4. \/ entries'[e] = entries[e]
      \/ entries'[e] = [entries[e] EXCEPT !["reveal_included"] = TRUE]
      \/ entries'[e] = [entries[e] EXCEPT !["finalized"] = TRUE]
  BY Zenon DEF Marked
<1>5. CASE entries'[e] = entries[e]
  BY <1>3, <1>5
<1>6. CASE entries'[e] = [entries[e] EXCEPT !["reveal_included"] = TRUE]
  BY <1>3, <1>6 DEF EntryType
<1>7. CASE entries'[e] = [entries[e] EXCEPT !["finalized"] = TRUE]
  BY <1>3, <1>7 DEF EntryType
<1> QED  BY <1>4, <1>5, <1>6, <1>7

\* Where no entry is attested or changed in what a receipt is about, and no
\* window reopens, attestations stay receipted.
LEMMA KeptReceipts ==
    ASSUME ReceiptInvariant, EntriesKept,
           config' \in [service_fee_bps : Nat, next_giveaway_id : Nat],
           DOMAIN giveaways \subseteq DOMAIN giveaways',
           DOMAIN giveaways' \subseteq Nat,
           window' \in [DOMAIN giveaways' -> {"active", "upload", "over"}],
           \A g \in DOMAIN giveaways : window[g] # "active" => window'[g] # "active",
           receipts \subseteq receipts'
    PROVE  ReceiptInvariant'
<1>1. DOMAIN entries' = DOMAIN entries
  BY DEF EntriesKept
<1>2. TypeOK'
  BY <1>1 DEF ReceiptInvariant, TypeOK, EntriesKept
<1>3. ASSUME NEW e \in DOMAIN entries', entries'[e].attested_uploaded
      PROVE  /\ window'[entries'[e].giveaway] # "active"
             /\ ExpectedMessage(e[1], e[2], entries'[e].commitment_hash) \in receipts'
  BY <1>1, <1>3 DEF ReceiptInvariant, TypeOK, EntriesKept, AttestationsAreReceipted
<1> QED  BY <1>2, <1>3 DEF ReceiptInvariant, AttestationsAreReceipted

LEMMA UnchangedEntries ==
    ASSUME TypeOK, UNCHANGED entries
    PROVE  EntriesKept
BY DEF TypeOK, EntriesKept

\* The config account, creations and the clock.
LEMMA ConfigReceipts ==
    ASSUME ReceiptInvariant,
           \E bps \in FeeRates : Initialize(bps) \/ UpdateServiceCharge(bps)
    PROVE  ReceiptInvariant'
<1>1. PICK bps \in FeeRates : Initialize(bps) \/ UpdateServiceCharge(bps)
  OBVIOUS
<1>2. bps \in Nat
  BY AmountsAssumption
<1>3. /\ UNCHANGED <<giveaways, window, entries, receipts>>
      /\ config' \in [service_fee_bps : Nat, next_giveaway_id : Nat]
  BY <1>1, <1>2 DEF Initialize, UpdateServiceCharge, ReceiptInvariant, TypeOK
<1> QED  BY <1>3, KeptReceipts, UnchangedEntries DEF ReceiptInvariant, TypeOK

LEMMA CreateReceipts ==
    ASSUME ReceiptInvariant,
           NEW c \in Creators, NEW id \in 1..MaxGiveaways, NEW total \in Payouts,
           NEW n \in WinnerCounts, CreateGiveaway(c, id, total, n)
    PROVE  ReceiptInvariant'
<1>1. /\ UNCHANGED <<entries, receipts>>
      /\ config' = [config EXCEPT !.next_giveaway_id = @ + 1]
      /\ DOMAIN giveaways' = DOMAIN giveaways \cup {id}
      /\ window' = Put(window, id, "active")
      /\ id \notin DOMAIN giveaways
  BY DEF CreateGiveaway, Put
<1>2. config' \in [service_fee_bps : Nat, next_giveaway_id : Nat]
  BY <1>1 DEF ReceiptInvariant, TypeOK
<1>3. /\ window' \in [DOMAIN giveaways' -> {"active", "upload", "over"}]
      /\ \A g \in DOMAIN giveaways : window'[g] = window[g]
  BY <1>1 DEF ReceiptInvariant, TypeOK, Put
<1>4. DOMAIN giveaways' \subseteq Nat
  BY <1>1, AmountsAssumption DEF ReceiptInvariant, TypeOK
<1> QED  BY <1>1, <1>2, <1>3, <1>4, KeptReceipts, UnchangedEntries
         DEF ReceiptInvariant

LEMMA ClockReceipts ==
    ASSUME ReceiptInvariant, NEW g \in DOMAIN giveaways, WindowCloses(g)
    PROVE  ReceiptInvariant' /\ DOMAIN giveaways' = DOMAIN giveaways
<1>1. /\ UNCHANGED <<config, entries, receipts>>
      /\ DOMAIN giveaways' = DOMAIN giveaways
  BY DEF WindowCloses
<1>2. \/ UNCHANGED window
      \/ window' = [window EXCEPT ![g] = "upload"]
      \/ window' = [window EXCEPT ![g] = "over"]
  BY DEF WindowCloses
<1>3. /\ window' \in [DOMAIN giveaways -> {"active", "upload", "over"}]
      /\ \A h \in DOMAIN giveaways : window[h] # "active" => window'[h] # "active"
  BY <1>2 DEF ReceiptInvariant, TypeOK
<1> QED  BY <1>1, <1>3, KeptReceipts, UnchangedEntries DEF ReceiptInvariant, TypeOK

-----------------------------------------------------------------------------
\* Entering, or changing the commitment, happens while nothing is attested.
LEMMA ParticipateReceipts ==
    ASSUME ReceiptInvariant, NEW g \in DOMAIN giveaways, NEW w \in Wallets,
           NEW c \in Commitments, Participate(g, w, c)
    PROVE  ReceiptInvariant' /\ DOMAIN giveaways' = DOMAIN giveaways
<1> DEFINE e == <<g, w>>
<1>1. /\ UNCHANGED <<config, window, receipts>>
      /\ window[g] = "active"
      /\ DOMAIN giveaways' = DOMAIN giveaways
  BY DEF Participate, EntryFrame
<1>2. CASE e \in DOMAIN entries
  <2>1. entries' = [entries EXCEPT ![e].commitment_hash = c]
    BY <1>2 DEF Participate
  <2>2. ~entries[e].attested_uploaded
    BY <1>1, <1>2 DEF ReceiptInvariant, TypeOK
  <2>3. entries[e] \in EntryType /\ entries \in [DOMAIN entries -> EntryType]
    BY <1>2 DEF ReceiptInvariant, TypeOK
  <2>4. /\ [entries[e] EXCEPT !.commitment_hash = c] \in EntryType
        /\ [entries[e] EXCEPT !.commitment_hash = c].giveaway = entries[e].giveaway
        /\ [entries[e] EXCEPT !.commitment_hash = c].wallet = entries[e].wallet
        /\ ~[entries[e] EXCEPT !.commitment_hash = c].attested_uploaded
    BY <2>2, <2>3 DEF EntryType
  <2>5. entries' = [entries EXCEPT ![e] = [entries[e] EXCEPT !.commitment_hash = c]]
    BY <2>1
  <2>6. /\ entries' \in [DOMAIN entries -> EntryType]
        /\ entries'[e].giveaway = entries[e].giveaway
        /\ entries'[e].wallet = entries[e].wallet
        /\ ~entries'[e].attested_uploaded
        /\ \A x \in DOMAIN entries : x # e => entries'[x] = entries[x]
    BY <1>2, <2>3, <2>4, <2>5, Zenon
  <2>7. TypeOK'
    BY <1>1, <2>6 DEF ReceiptInvariant, TypeOK
  <2> QED  BY <1>1, <2>6, <2>7 DEF ReceiptInvariant, TypeOK, AttestationsAreReceipted
<1>3. CASE e \notin DOMAIN entries
  <2>1. entries' = Put(entries, e, NewEntry(g, w, c))
    BY <1>3 DEF Participate
  <2>2. g \in Nat
    BY DEF ReceiptInvariant, TypeOK
  <2>3. entries' \in [DOMAIN entries' -> EntryType]
    BY <2>1, <2>2 DEF ReceiptInvariant, TypeOK, EntryType, Put, NewEntry
  <2>4. \A x \in DOMAIN entries' :
            \/ x \in DOMAIN entries /\ entries'[x] = entries[x]
            \/ /\ x = e /\ entries'[x].giveaway = g /\ entries'[x].wallet = w
               /\ ~entries'[x].attested_uploaded
    BY <2>1 DEF Put, NewEntry
  <2> QED  BY <1>1, <2>3, <2>4
           DEF ReceiptInvariant, TypeOK, AttestationsAreReceipted
<1> QED  BY <1>1, <1>2, <1>3

LEMMA DisqualifyReceipts ==
    ASSUME ReceiptInvariant, NEW g \in DOMAIN giveaways, NEW e \in DOMAIN entries,
           NEW c \in Creators, DisqualifyParticipant(g, e, c)
    PROVE  ReceiptInvariant' /\ DOMAIN giveaways' = DOMAIN giveaways
<1>1. /\ UNCHANGED <<config, window, giveaways, receipts>>
      /\ entries' = [entries EXCEPT ![e].disqualified = TRUE]
  BY DEF DisqualifyParticipant, EntryFrame
<1>2. EntriesKept
  BY <1>1 DEF ReceiptInvariant, TypeOK, EntryType, EntriesKept
<1> QED  BY <1>1, <1>2, KeptReceipts DEF ReceiptInvariant, TypeOK

\* The one step that attests.
LEMMA AttestReceipts ==
    ASSUME ReceiptInvariant, NEW g \in DOMAIN giveaways, NEW e \in DOMAIN entries,
           NEW w \in Wallets, AttestUploaded(g, e, w)
    PROVE  ReceiptInvariant' /\ DOMAIN giveaways' = DOMAIN giveaways
<1> DEFINE expected == ExpectedMessage(g, w, entries[e].commitment_hash)
           messages == receipts \cup {expected}
<1>1. /\ UNCHANGED <<config, window, receipts>>
      /\ DOMAIN giveaways' = DOMAIN giveaways
      /\ entries' = [entries EXCEPT ![e].attested_uploaded = TRUE]
      /\ entries[e].giveaway = g /\ entries[e].wallet = w
      /\ window[g] = "upload"
  BY DEF AttestUploaded, EntryFrame, LinkedEntry
<1>2. PICK tx \in Transactions({Authority, w}, messages) :
        /\ Executes(tx, Signed(w, messages))
        /\ VerifyProviderReceipt(tx, Authority, expected)
  BY DEF AttestUploaded
<1>3. Signed(w, messages) \in SUBSET ({Authority, w} \X messages)
  BY DEF Signed
<1>4. <<Authority, expected>> \in Signed(w, messages)
  BY <1>2, <1>3, AcceptedReceiptIsSigned
<1>5. w # Authority
  BY PartiesAssumption
<1>6. expected \in receipts
  BY <1>4, <1>5 DEF Signed
<1>7. /\ entries' \in [DOMAIN entries -> EntryType]
      /\ \A x \in DOMAIN entries :
            /\ entries'[x].giveaway = entries[x].giveaway
            /\ entries'[x].wallet = entries[x].wallet
            /\ entries'[x].commitment_hash = entries[x].commitment_hash
            /\ x # e => entries'[x] = entries[x]
  BY <1>1 DEF ReceiptInvariant, TypeOK, EntryType
<1>8. e = <<g, w>>
  BY <1>1 DEF ReceiptInvariant, TypeOK
<1>9. TypeOK'
  BY <1>1, <1>7 DEF ReceiptInvariant, TypeOK
<1>10. ASSUME NEW x \in DOMAIN entries', entries'[x].attested_uploaded
       PROVE  /\ window'[entries'[x].giveaway] # "active"
              /\ ExpectedMessage(x[1], x[2], entries'[x].commitment_hash) \in receipts'
  <2>1. window' = window /\ receipts' = receipts
    BY <1>1
  <2>2. CASE x = e
    <3>1. entries'[x].giveaway = g /\ entries'[x].commitment_hash = entries[e].commitment_hash
      BY <1>1, <1>7, <2>2
    <3>2. x[1] = g /\ x[2] = w
      BY <1>8, <2>2
    <3>3. window[g] # "active"
      BY <1>1
    <3> QED  BY <1>6, <2>1, <3>1, <3>2, <3>3
  <2>3. CASE x # e
    <3>1. x \in DOMAIN entries /\ entries'[x] = entries[x]
      BY <1>7, <2>3
    <3>2. entries[x].attested_uploaded
      BY <1>10, <3>1
    <3>3. /\ window[entries[x].giveaway] # "active"
          /\ ExpectedMessage(x[1], x[2], entries[x].commitment_hash) \in receipts
      BY <3>1, <3>2 DEF ReceiptInvariant, AttestationsAreReceipted
    <3> QED  BY <2>1, <3>1, <3>3
  <2> QED  BY <2>2, <2>3
<1> QED  BY <1>1, <1>9, <1>10 DEF ReceiptInvariant, AttestationsAreReceipted

LEMMA IssueReceipts ==
    ASSUME ReceiptInvariant, NEW e \in DOMAIN entries, IssueReceipt(e)
    PROVE  ReceiptInvariant' /\ UNCHANGED <<config, giveaways>>
<1>1. /\ UNCHANGED <<config, window, giveaways, entries>>
      /\ receipts \subseteq receipts'
  BY DEF IssueReceipt, EntryFrame
<1> QED  BY <1>1, KeptReceipts, UnchangedEntries DEF ReceiptInvariant, TypeOK

LEMMA BatchReceipts ==
    ASSUME ReceiptInvariant, FlagStep \/ MarkStep
    PROVE  ReceiptInvariant' /\ DOMAIN giveaways' = DOMAIN giveaways
<1>1. CASE FlagStep
  BY <1>1, FlagStepFrame, KeptReceipts, UnchangedEntries DEF ReceiptInvariant, TypeOK
<1>2. CASE MarkStep
  <2>1. EntriesKept
    BY <1>2, MarkStepFrame, MarkedEntries DEF ReceiptInvariant
  <2> QED  BY <1>2, <2>1, MarkStepFrame, KeptReceipts DEF ReceiptInvariant, TypeOK
<1> QED  BY <1>1, <1>2

-----------------------------------------------------------------------------
\* Steps that create no giveaway leave config and the set of giveaways alone.
OtherStep ==
    \/ \E e \in DOMAIN entries : IssueReceipt(e)
    \/ FlagStep \/ MarkStep
    \/ \E g \in DOMAIN giveaways :
        \/ WindowCloses(g)
        \/ \E w \in Wallets, c \in Commitments : Participate(g, w, c)
        \/ \E e \in DOMAIN entries, c \in Creators : DisqualifyParticipant(g, e, c)
        \/ \E e \in DOMAIN entries, w \in Wallets : AttestUploaded(g, e, w)

LEMMA OtherStepFrame ==
    ASSUME ReceiptInvariant, OtherStep
    PROVE  ReceiptInvariant' /\ UNCHANGED config /\ DOMAIN giveaways' = DOMAIN giveaways
<1>1. CASE \E e \in DOMAIN entries : IssueReceipt(e)
  BY <1>1, IssueReceipts
<1>2. CASE FlagStep \/ MarkStep
  BY <1>2, BatchReceipts, FlagStepFrame, MarkStepFrame
<1>3. ASSUME NEW g \in DOMAIN giveaways, WindowCloses(g)
      PROVE  ReceiptInvariant' /\ UNCHANGED config /\ DOMAIN giveaways' = DOMAIN giveaways
  BY <1>3, ClockReceipts DEF WindowCloses
<1>4. ASSUME NEW g \in DOMAIN giveaways, NEW w \in Wallets, NEW c \in Commitments,
             Participate(g, w, c)
      PROVE  ReceiptInvariant' /\ UNCHANGED config /\ DOMAIN giveaways' = DOMAIN giveaways
  BY <1>4, ParticipateReceipts DEF Participate, EntryFrame
<1>5. ASSUME NEW g \in DOMAIN giveaways, NEW e \in DOMAIN entries, NEW c \in Creators,
             DisqualifyParticipant(g, e, c)
      PROVE  ReceiptInvariant' /\ UNCHANGED config /\ DOMAIN giveaways' = DOMAIN giveaways
  BY <1>5, DisqualifyReceipts DEF DisqualifyParticipant, EntryFrame
<1>6. ASSUME NEW g \in DOMAIN giveaways, NEW e \in DOMAIN entries, NEW w \in Wallets,
             AttestUploaded(g, e, w)
      PROVE  ReceiptInvariant' /\ UNCHANGED config /\ DOMAIN giveaways' = DOMAIN giveaways
  BY <1>6, AttestReceipts DEF AttestUploaded, EntryFrame
<1> QED  BY <1>1, <1>2, <1>3, <1>4, <1>5, <1>6 DEF OtherStep

LEMMA StepCases ==
    ASSUME Next
    PROVE  \/ \E bps \in FeeRates : Initialize(bps) \/ UpdateServiceCharge(bps)
           \/ \E c \in Creators, id \in 1..MaxGiveaways, total \in Payouts,
                 n \in WinnerCounts : CreateGiveaway(c, id, total, n)
           \/ OtherStep
BY RegistryCases DEF OtherStep, FlagStep, MarkStep

-----------------------------------------------------------------------------
LEMMA InitReceipts == Init => ReceiptInvariant /\ IdInvariant
<1> SUFFICES ASSUME Init
             PROVE  ReceiptInvariant /\ IdInvariant
  OBVIOUS
<1>1. /\ DOMAIN giveaways = {} /\ DOMAIN entries = {} /\ DOMAIN window = {}
      /\ window = [x \in {} |-> x] /\ entries = [x \in {} |-> x]
  BY DEF Init
<1>2. config = NoConfig
  BY DEF Init
<1>3. TypeOK
  BY <1>1, <1>2 DEF TypeOK, NoConfig
<1> QED  BY <1>1, <1>2, <1>3
         DEF ReceiptInvariant, AttestationsAreReceipted, IdInvariant, IdsAreSequential

\* The invariant that carries the next result: types and addresses, and nobody is attested
\* while the entry window of the giveaway is open.
THEOREM ReceiptInvariantHolds == Spec => []ReceiptInvariant
<1>1. Init => ReceiptInvariant
  BY InitReceipts
<1>2. ReceiptInvariant /\ [Next]_vars => ReceiptInvariant'
  <2> SUFFICES ASSUME ReceiptInvariant, [Next]_vars
               PROVE  ReceiptInvariant'
    OBVIOUS
  <2>1. CASE Next
    BY <2>1, StepCases, ConfigReceipts, CreateReceipts, OtherStepFrame
  <2>2. CASE UNCHANGED vars
    BY <2>2 DEF vars, ReceiptInvariant, TypeOK, AttestationsAreReceipted
  <2> QED  BY <2>1, <2>2
<1> QED  BY <1>1, <1>2, PTL DEF Spec

\* For any number of giveaways, entries and transactions, whatever accounts
\* and Ed25519 instructions are given to attest_uploaded, an entry is attested
\* only if the provider signed a receipt for it and its commitment.
THEOREM AttestationsReceipted == Spec => []AttestationsAreReceipted
<1>1. ReceiptInvariant => AttestationsAreReceipted
  BY DEF ReceiptInvariant
<1> QED  BY <1>1, ReceiptInvariantHolds, PTL

\* However creations race, repeat or fail, the ids that exist are the first
\* ones, for any number of giveaways.
THEOREM SequentialIds == Spec => []IdsAreSequential
<1>1. Init => ReceiptInvariant /\ IdInvariant
  BY InitReceipts
<1>2. ReceiptInvariant /\ IdInvariant /\ [Next]_vars => ReceiptInvariant' /\ IdInvariant'
  <2> SUFFICES ASSUME ReceiptInvariant, IdInvariant, [Next]_vars
               PROVE  ReceiptInvariant' /\ IdInvariant'
    OBVIOUS
  <2>1. ASSUME NEW bps \in FeeRates, Initialize(bps)
        PROVE  IdInvariant'
    BY <2>1 DEF Initialize, IdInvariant, IdsAreSequential, NoConfig
  <2>2. ASSUME NEW bps \in FeeRates, UpdateServiceCharge(bps)
        PROVE  IdInvariant'
    <3>1. /\ config'.next_giveaway_id = config.next_giveaway_id
          /\ config # NoConfig /\ giveaways' = giveaways
      BY <2>2 DEF UpdateServiceCharge, ReceiptInvariant, TypeOK
    <3>2. config' # NoConfig
      BY <3>1 DEF IdInvariant, NoConfig
    <3> QED  BY <3>1, <3>2 DEF IdInvariant, IdsAreSequential
  <2>3. ASSUME NEW c \in Creators, NEW id \in 1..MaxGiveaways, NEW total \in Payouts,
               NEW n \in WinnerCounts, CreateGiveaway(c, id, total, n)
        PROVE  IdInvariant'
    <3>1. /\ config # NoConfig /\ id = config.next_giveaway_id
          /\ config' = [config EXCEPT !.next_giveaway_id = @ + 1]
          /\ DOMAIN giveaways' = DOMAIN giveaways \cup {id}
      BY <2>3 DEF CreateGiveaway, NextInSequence, Put
    <3>2. /\ id \in Nat /\ id > 0
          /\ config'.next_giveaway_id = id + 1
          /\ DOMAIN giveaways = 1..id - 1
      BY <3>1 DEF IdInvariant, IdsAreSequential, ReceiptInvariant, TypeOK
    <3>3. DOMAIN giveaways' = 1..id
      BY <3>1, <3>2
    <3>4. config' # NoConfig
      BY <3>2 DEF NoConfig
    <3> QED  BY <3>2, <3>3, <3>4 DEF IdInvariant, IdsAreSequential
  <2>4. CASE OtherStep
    BY <2>4, OtherStepFrame DEF IdInvariant, IdsAreSequential
  <2>5. CASE UNCHANGED vars
    BY <2>5 DEF vars, IdInvariant, IdsAreSequential, ReceiptInvariant, TypeOK,
                AttestationsAreReceipted
  <2> QED  BY <2>1, <2>2, <2>3, <2>4, <2>5, StepCases, ConfigReceipts, CreateReceipts,
              OtherStepFrame
<1>3. IdInvariant => IdsAreSequential
  BY DEF IdInvariant
<1> QED  BY <1>1, <1>2, <1>3, PTL DEF Spec

-----------------------------------------------------------------------------
(* The accounts of one giveaway *)

\* The instructions on one giveaway, by the part of its life they belong to.
EntryStep(g) ==
    \/ WindowCloses(g)
    \/ \E w \in Wallets, c \in Commitments : Participate(g, w, c)
    \/ \E e \in DOMAIN entries, c \in Creators : DisqualifyParticipant(g, e, c)
    \/ \E e \in DOMAIN entries, w \in Wallets : AttestUploaded(g, e, w)
    \/ \E batch \in SUBSET DOMAIN entries, by_authority \in BOOLEAN :
            UploadReveals(g, batch, by_authority)

SettlementStep(g, v) ==
    \/ FinalizeOpensRemediation(g, v)
    \/ \E chunk \in SUBSET DOMAIN entries : FinalizeChunk(g, v, chunk)
    \/ \E c \in Creators : SettleGiveaway(g, v, c)
    \/ \E c \in Creators, l \in DOMAIN ledgers : LockWinners(g, l, c)
    \/ \E c \in Creators, l \in DOMAIN ledgers :
        \E batch \in SUBSET ledgers[l].winner_wallets :
            SettlePayoutBatch(g, v, l, c, batch)

\* Steps that touch no giveaway and no account of one.
IdleStep ==
    \/ \E bps \in FeeRates : Initialize(bps) \/ UpdateServiceCharge(bps)
    \/ \E e \in DOMAIN entries : IssueReceipt(e)
    \/ UNCHANGED vars

LEMMA ProgramCases ==
    ASSUME [Next]_vars
    PROVE  \/ IdleStep
           \/ \E c \in Creators, id \in 1..MaxGiveaways, total \in Payouts,
                 n \in WinnerCounts : CreateGiveaway(c, id, total, n)
           \/ \E g \in DOMAIN giveaways : EntryStep(g)
           \/ \E g \in DOMAIN giveaways, v \in DOMAIN vaults : SettlementStep(g, v)
BY RegistryCases DEF IdleStep, EntryStep, SettlementStep

LEMMA IdleFrame ==
    ASSUME IdleStep
    PROVE  UNCHANGED <<giveaways, entries, draws, ledgers, vaults>>
BY DEF IdleStep, Initialize, UpdateServiceCharge, IssueReceipt, EntryFrame, vars

\* What the settlement of each giveaway needs of the entries: they are never
\* removed, an included one stays included, and only attested ones are.
EntriesGrow ==
    /\ IsFiniteSet(DOMAIN entries')
    /\ \A e \in DOMAIN entries' : entries'[e].reveal_included => entries'[e].attested_uploaded
    /\ \A e \in DOMAIN entries :
        /\ e \in DOMAIN entries'
        /\ entries[e].reveal_included => entries'[e].reveal_included

\* Marking entries in one of their fields.
LEMMA MarkingEntry ==
    ASSUME TypeOK, NEW batch, NEW e \in DOMAIN entries
    PROVE  /\ DOMAIN Marked(batch, "reveal_included") = DOMAIN entries
           /\ DOMAIN Marked(batch, "finalized") = DOMAIN entries
           /\ LET r == Marked(batch, "reveal_included")[e] IN
                /\ r.attested_uploaded = entries[e].attested_uploaded
                /\ r.reveal_included = (entries[e].reveal_included \/ e \in batch)
           /\ LET r == Marked(batch, "finalized")[e] IN
                /\ r.attested_uploaded = entries[e].attested_uploaded
                /\ r.reveal_included = entries[e].reveal_included
<1>1. entries[e] \in EntryType
  BY DEF TypeOK
<1>2. /\ Marked(batch, "reveal_included")[e]
            = IF e \in batch THEN [entries[e] EXCEPT !["reveal_included"] = TRUE]
              ELSE entries[e]
      /\ Marked(batch, "finalized")[e]
            = IF e \in batch THEN [entries[e] EXCEPT !["finalized"] = TRUE]
              ELSE entries[e]
  BY DEF Marked
<1>3. /\ DOMAIN Marked(batch, "reveal_included") = DOMAIN entries
      /\ DOMAIN Marked(batch, "finalized") = DOMAIN entries
  BY DEF Marked
<1>4. LET r == [entries[e] EXCEPT !["reveal_included"] = TRUE] IN
        r.attested_uploaded = entries[e].attested_uploaded /\ r.reveal_included = TRUE
  BY <1>1 DEF EntryType
<1>5. LET r == [entries[e] EXCEPT !["finalized"] = TRUE] IN
        /\ r.attested_uploaded = entries[e].attested_uploaded
        /\ r.reveal_included = entries[e].reveal_included
  BY <1>1 DEF EntryType
<1>6. entries[e].reveal_included \in BOOLEAN
  BY <1>1 DEF EntryType
<1>7. CASE e \in batch
  BY <1>2, <1>3, <1>4, <1>5, <1>6, <1>7
<1>8. CASE e \notin batch
  BY <1>2, <1>3, <1>6, <1>8
<1> QED  BY <1>7, <1>8

\* Existing entries keep both flags, new ones have neither.
FlagsKept ==
    /\ \A e \in DOMAIN entries :
        /\ e \in DOMAIN entries'
        /\ entries'[e].attested_uploaded = entries[e].attested_uploaded
        /\ entries'[e].reveal_included = entries[e].reveal_included
    /\ \A e \in DOMAIN entries' :
        e \notin DOMAIN entries =>
            ~entries'[e].attested_uploaded /\ ~entries'[e].reveal_included

LEMMA ParticipateFlags ==
    ASSUME TypeOK, NEW g, NEW w, NEW c, Participate(g, w, c)
    PROVE  FlagsKept
<1> DEFINE e == <<g, w>>
<1>1. CASE e \in DOMAIN entries
  <2>1. entries' = [entries EXCEPT ![e].commitment_hash = c]
    BY <1>1 DEF Participate
  <2>2. \A x \in DOMAIN entries : entries[x] \in EntryType
    BY DEF TypeOK
  <2>3. \A x \in DOMAIN entries :
            /\ entries'[x].reveal_included = entries[x].reveal_included
            /\ entries'[x].attested_uploaded = entries[x].attested_uploaded
    BY <2>1, <2>2 DEF EntryType
  <2>4. DOMAIN entries' = DOMAIN entries
    BY <2>1
  <2> QED  BY <2>3, <2>4 DEF FlagsKept
<1>2. CASE e \notin DOMAIN entries
  <2>1. entries' = Put(entries, e, NewEntry(g, w, c))
    BY <1>2 DEF Participate
  <2> QED  BY <1>2, <2>1 DEF FlagsKept, Put, NewEntry
<1> QED  BY <1>1, <1>2

LEMMA QuietFlags ==
    ASSUME TypeOK,
           \/ UNCHANGED entries
           \/ \E chunk : entries' = Marked(chunk, "finalized")
           \/ \E e \in DOMAIN entries : entries' = [entries EXCEPT ![e].disqualified = TRUE]
    PROVE  FlagsKept
<1>1. CASE UNCHANGED entries
  BY <1>1 DEF FlagsKept
<1>2. ASSUME NEW chunk, entries' = Marked(chunk, "finalized")
      PROVE  FlagsKept
  <2>1. DOMAIN entries' = DOMAIN entries
    BY <1>2 DEF Marked
  <2> QED  BY <1>2, <2>1, MarkingEntry DEF FlagsKept
<1>3. ASSUME NEW e \in DOMAIN entries, entries' = [entries EXCEPT ![e].disqualified = TRUE]
      PROVE  FlagsKept
  <2>1. \A x \in DOMAIN entries : entries[x] \in EntryType
    BY DEF TypeOK
  <2> QED  BY <1>3, <2>1 DEF FlagsKept, EntryType
<1> QED  BY <1>1, <1>2, <1>3

LEMMA FlagsGrow ==
    ASSUME LedgersInvariant, FlagsKept, IsFiniteSet(DOMAIN entries')
    PROVE  EntriesGrow
BY DEF FlagsKept, EntriesGrow, LedgersInvariant

LEMMA ParticipateGrows ==
    ASSUME TypeOK, LedgersInvariant, NEW g, NEW w, NEW c, Participate(g, w, c)
    PROVE  EntriesGrow
<1> DEFINE addresses == DOMAIN entries
           e == <<g, w>>
<1>1. IsFiniteSet(addresses)
  BY DEF LedgersInvariant
<1>2. DOMAIN entries' = addresses \/ DOMAIN entries' = addresses \cup {e}
  BY DEF Participate, Put
<1> HIDE DEF addresses, e
<1>3. IsFiniteSet(DOMAIN entries')
  BY <1>1, <1>2, FS_AddElement
<1> QED  BY <1>3, ParticipateFlags, FlagsGrow

LEMMA UploadGrows ==
    ASSUME TypeOK, LedgersInvariant, NEW g \in DOMAIN giveaways,
           NEW batch \in SUBSET DOMAIN entries, NEW by_authority \in BOOLEAN,
           UploadReveals(g, batch, by_authority)
    PROVE  EntriesGrow
<1>1. /\ entries' = Marked(batch, "reveal_included")
      /\ \A e \in batch : entries[e].attested_uploaded
  BY DEF UploadReveals
<1>2. DOMAIN entries' = DOMAIN entries
  BY <1>1 DEF Marked
<1>3. \A e \in DOMAIN entries :
        /\ entries'[e].attested_uploaded = entries[e].attested_uploaded
        /\ entries'[e].reveal_included = (entries[e].reveal_included \/ e \in batch)
  BY <1>1, MarkingEntry
<1> QED  BY <1>1, <1>2, <1>3 DEF EntriesGrow, LedgersInvariant

\* Finalizing, disqualifying, and steps that leave the entries alone.
LEMMA QuietGrows ==
    ASSUME TypeOK, LedgersInvariant,
           \/ UNCHANGED entries
           \/ \E chunk : entries' = Marked(chunk, "finalized")
           \/ \E e \in DOMAIN entries : entries' = [entries EXCEPT ![e].disqualified = TRUE]
    PROVE  EntriesGrow
<1>1. DOMAIN entries' = DOMAIN entries
  BY DEF Marked
<1>2. IsFiniteSet(DOMAIN entries')
  BY <1>1 DEF LedgersInvariant
<1> QED  BY <1>2, QuietFlags, FlagsGrow

LEMMA AttestGrows ==
    ASSUME TypeOK, LedgersInvariant, NEW e \in DOMAIN entries,
           entries' = [entries EXCEPT ![e].attested_uploaded = TRUE]
    PROVE  EntriesGrow
<1>1. \A x \in DOMAIN entries : entries[x] \in EntryType
  BY DEF TypeOK
<1>2. DOMAIN entries' = DOMAIN entries
  OBVIOUS
<1>3. \A x \in DOMAIN entries :
        /\ entries'[x].reveal_included = entries[x].reveal_included
        /\ entries[x].attested_uploaded => entries'[x].attested_uploaded
  BY <1>1 DEF EntryType
<1> QED  BY <1>2, <1>3 DEF EntriesGrow, LedgersInvariant

-----------------------------------------------------------------------------
SameTerms(r, s) ==
    /\ r.creator = s.creator /\ r.vault = s.vault
    /\ r.total_payout_lamports = s.total_payout_lamports
    /\ r.number_of_winners = s.number_of_winners
    /\ r.service_fee_bps = s.service_fee_bps

\* A step of giveaway g changes no other giveaway and none of its own terms;
\* these are its flag and its counters afterwards.
GiveawayEffect(g, settled, attested, uploaded) ==
    /\ giveaways' \in [DOMAIN giveaways -> GiveawayType]
    /\ \A h \in DOMAIN giveaways : h # g => giveaways'[h] = giveaways[h]
    /\ SameTerms(giveaways'[g], giveaways[g])
    /\ giveaways'[g].settled = settled
    /\ giveaways'[g].attested_count = attested
    /\ giveaways'[g].provider_uploaded_count = uploaded

NoEffect(g) == GiveawayEffect(g, giveaways[g].settled, giveaways[g].attested_count,
                              giveaways[g].provider_uploaded_count)

LEMMA OneGiveaway ==
    ASSUME LedgersInvariant, NEW g \in DOMAIN giveaways, NEW r \in GiveawayType,
           giveaways' = [giveaways EXCEPT ![g] = r], SameTerms(r, giveaways[g])
    PROVE  GiveawayEffect(g, r.settled, r.attested_count, r.provider_uploaded_count)
<1>1. giveaways \in [DOMAIN giveaways -> GiveawayType]
  BY DEF LedgersInvariant, AccountsTyped
<1>2. giveaways'[g] = r /\ \A h \in DOMAIN giveaways : h # g => giveaways'[h] = giveaways[h]
  BY <1>1
<1>3. giveaways' \in [DOMAIN giveaways -> GiveawayType]
  BY <1>1
<1> QED  BY <1>2, <1>3 DEF GiveawayEffect

LEMMA SameGiveaways ==
    ASSUME LedgersInvariant, NEW g \in DOMAIN giveaways, UNCHANGED giveaways
    PROVE  NoEffect(g)
BY DEF LedgersInvariant, AccountsTyped, NoEffect, GiveawayEffect, SameTerms

LEMMA ParticipateEffect ==
    ASSUME LedgersInvariant, NEW g \in DOMAIN giveaways, NEW w, NEW c, Participate(g, w, c)
    PROVE  NoEffect(g)
<1> DEFINE s == giveaways[g]
           r == [s EXCEPT !.participants_count = @ + 1]
<1>1. s \in GiveawayType
  BY DEF LedgersInvariant, AccountsTyped
<1>2. UNCHANGED giveaways \/ giveaways' = [giveaways EXCEPT ![g] = r]
  BY DEF Participate
<1>3. /\ r \in GiveawayType /\ SameTerms(r, s) /\ r.settled = s.settled
      /\ r.attested_count = s.attested_count
      /\ r.provider_uploaded_count = s.provider_uploaded_count
  BY <1>1 DEF GiveawayType, SameTerms
<1> HIDE DEF r
<1> QED  BY <1>2, <1>3, OneGiveaway, SameGiveaways DEF NoEffect

LEMMA AttestEffect ==
    ASSUME LedgersInvariant, NEW g \in DOMAIN giveaways, NEW e, NEW w,
           AttestUploaded(g, e, w)
    PROVE  GiveawayEffect(g, giveaways[g].settled, giveaways[g].attested_count + 1,
                          giveaways[g].provider_uploaded_count)
<1> DEFINE s == giveaways[g]
           r == [s EXCEPT !.attested_count = @ + 1]
<1>1. s \in GiveawayType
  BY DEF LedgersInvariant, AccountsTyped
<1>2. giveaways' = [giveaways EXCEPT ![g] = r]
  BY DEF AttestUploaded
<1>3. /\ r \in GiveawayType /\ SameTerms(r, s) /\ r.settled = s.settled
      /\ r.attested_count = s.attested_count + 1
      /\ r.provider_uploaded_count = s.provider_uploaded_count
  BY <1>1 DEF GiveawayType, SameTerms
<1> HIDE DEF r
<1> QED  BY <1>2, <1>3, OneGiveaway

LEMMA UploadEffect ==
    ASSUME LedgersInvariant, NEW g \in DOMAIN giveaways,
           NEW batch \in SUBSET DOMAIN entries, NEW by_authority \in BOOLEAN,
           UploadReveals(g, batch, by_authority)
    PROVE  GiveawayEffect(g, giveaways[g].settled, giveaways[g].attested_count,
                giveaways[g].provider_uploaded_count + Cardinality(batch))
<1> DEFINE s == giveaways[g]
           count == s.provider_uploaded_count + Cardinality(batch)
           all_in == (s.attested_count \in 1..count)
           r == [s EXCEPT !.provider_uploaded_count = count,
                          !.uploads_complete = all_in,
                          !.remediation = IF by_authority THEN s.remediation
                                           ELSE Begun(s.remediation)]
<1>1. s \in GiveawayType
  BY DEF LedgersInvariant, AccountsTyped
<1>2. giveaways' = [giveaways EXCEPT ![g] = r]
  BY DEF UploadReveals
<1>3. count \in Nat /\ all_in \in BOOLEAN
  <2>1. Cardinality(batch) \in Nat
    BY FS_Subset, FS_CardinalityType DEF LedgersInvariant
  <2>2. s.provider_uploaded_count \in Nat
    BY <1>1 DEF GiveawayType
  <2> QED  BY <2>1, <2>2
<1> HIDE DEF count, all_in
<1>4. /\ r \in GiveawayType /\ SameTerms(r, s) /\ r.settled = s.settled
      /\ r.attested_count = s.attested_count
      /\ r.provider_uploaded_count = count
  BY <1>1, <1>3 DEF GiveawayType, SameTerms, Begun
<1> HIDE DEF r
<1> QED  BY <1>2, <1>4, OneGiveaway DEF count

LEMMA FinalizeEffect ==
    ASSUME LedgersInvariant, NEW g \in DOMAIN giveaways, NEW v, NEW chunk,
           FinalizeChunk(g, v, chunk)
    PROVE  NoEffect(g)
<1> DEFINE s == giveaways[g]
           processed == AllocatedDraw(g).processed_count + Cardinality(chunk)
           completed == (processed = giveaways[g].provider_uploaded_count)
           r == [s EXCEPT !.winners_computed = completed, !.uploads_complete = TRUE]
<1>1. s \in GiveawayType
  BY DEF LedgersInvariant, AccountsTyped
<1>2. giveaways' = [giveaways EXCEPT ![g] = r]
  BY DEF FinalizeChunk
<1>3. completed \in BOOLEAN
  OBVIOUS
<1> HIDE DEF completed
<1>4. /\ r \in GiveawayType /\ SameTerms(r, s) /\ r.settled = s.settled
      /\ r.attested_count = s.attested_count
      /\ r.provider_uploaded_count = s.provider_uploaded_count
  BY <1>1, <1>3 DEF GiveawayType, SameTerms
<1> HIDE DEF r
<1> QED  BY <1>2, <1>4, OneGiveaway DEF NoEffect

\* Opening or ending remediation, and locking.
LEMMA FlagEffect ==
    ASSUME LedgersInvariant, NEW g \in DOMAIN giveaways,
           \/ giveaways' = [giveaways EXCEPT ![g].remediation = "open"]
           \/ giveaways' = [giveaways EXCEPT ![g].remediation = "expired"]
           \/ giveaways' = [giveaways EXCEPT ![g].winners_locked = TRUE]
    PROVE  NoEffect(g)
<1> DEFINE s == giveaways[g]
           open == [s EXCEPT !.remediation = "open"]
           expired == [s EXCEPT !.remediation = "expired"]
           locked == [s EXCEPT !.winners_locked = TRUE]
           SameButFlags(r) == /\ r \in GiveawayType /\ SameTerms(r, s)
                              /\ r.settled = s.settled
                              /\ r.attested_count = s.attested_count
                              /\ r.provider_uploaded_count = s.provider_uploaded_count
<1>1. s \in GiveawayType
  BY DEF LedgersInvariant, AccountsTyped
<1>2. SameButFlags(open)
  BY <1>1 DEF GiveawayType, SameTerms
<1>3. SameButFlags(expired)
  BY <1>1 DEF GiveawayType, SameTerms
<1>4. SameButFlags(locked)
  BY <1>1 DEF GiveawayType, SameTerms
<1>5. \/ giveaways' = [giveaways EXCEPT ![g] = open]
      \/ giveaways' = [giveaways EXCEPT ![g] = expired]
      \/ giveaways' = [giveaways EXCEPT ![g] = locked]
  OBVIOUS
<1>6. ASSUME NEW r, SameButFlags(r), giveaways' = [giveaways EXCEPT ![g] = r]
      PROVE  NoEffect(g)
  BY <1>6, OneGiveaway DEF NoEffect
<1> HIDE DEF open, expired, locked, SameButFlags
<1> QED  BY <1>2, <1>3, <1>4, <1>5, <1>6

LEMMA SettleEffect ==
    ASSUME LedgersInvariant, NEW g \in DOMAIN giveaways, NEW complete \in BOOLEAN,
           giveaways' = [giveaways EXCEPT ![g].settled = complete]
    PROVE  GiveawayEffect(g, complete, giveaways[g].attested_count,
                          giveaways[g].provider_uploaded_count)
<1> DEFINE s == giveaways[g]
           r == [s EXCEPT !.settled = complete]
<1>1. s \in GiveawayType
  BY DEF LedgersInvariant, AccountsTyped
<1>2. giveaways' = [giveaways EXCEPT ![g] = r]
  OBVIOUS
<1>3. /\ r \in GiveawayType /\ SameTerms(r, s) /\ r.settled = complete
      /\ r.attested_count = s.attested_count
      /\ r.provider_uploaded_count = s.provider_uploaded_count
  BY <1>1 DEF GiveawayType, SameTerms
<1> HIDE DEF r
<1> QED  BY <1>2, <1>3, OneGiveaway

-----------------------------------------------------------------------------
LEMMA SameEntries ==
    ASSUME LedgersInvariant, UNCHANGED entries
    PROVE  EntriesGrow
BY DEF LedgersInvariant, EntriesGrow

\* Where entries grow, draws stay, and ledgers change in their payments to
\* winners and their lock, ledgers stay sound.
LEMMA LedgersKept ==
    ASSUME LedgersInvariant, NEW g \in DOMAIN giveaways, NEW settled, NEW attested,
           NEW uploaded, GiveawayEffect(g, settled, attested, uploaded),
           EntriesGrow, UNCHANGED draws,
           vaults' \in [DOMAIN giveaways -> Int],
           ledgers' \in [DOMAIN ledgers -> LedgerType],
           \A l \in DOMAIN ledgers :
                /\ ledgers'[l].giveaway = ledgers[l].giveaway
                /\ ledgers'[l].winner_wallets = ledgers[l].winner_wallets
                /\ ledgers'[l].paid \subseteq ledgers'[l].winner_wallets
    PROVE  LedgersInvariant'
<1>1. giveaways' \in [DOMAIN giveaways -> GiveawayType] /\ DOMAIN giveaways' = DOMAIN giveaways
  BY DEF GiveawayEffect
<1>2. AccountsTyped'
  BY <1>1 DEF AccountsTyped, LedgersInvariant
<1>3. \A h \in DOMAIN giveaways' : giveaways'[h].vault = h
  BY <1>1 DEF GiveawayEffect, SameTerms, LedgersInvariant
<1>4. ASSUME NEW h \in DOMAIN draws', NEW w \in draws'[h].candidates
      PROVE  IncludedIn(h, w)'
  BY <1>4 DEF LedgersInvariant, EntriesGrow, IncludedIn
<1>5. \A h \in DOMAIN draws' : h \in DOMAIN giveaways'
  BY <1>1 DEF LedgersInvariant
<1>6. ASSUME NEW l \in DOMAIN ledgers'
      PROVE  /\ ledgers'[l].giveaway = l
             /\ l \in DOMAIN draws' /\ draws'[l].completed
             /\ ledgers'[l].winner_wallets \subseteq draws'[l].candidates
             /\ ledgers'[l].paid \subseteq ledgers'[l].winner_wallets
  BY <1>6 DEF LedgersInvariant
<1>7. IsFiniteSet(DOMAIN entries')
  BY DEF EntriesGrow
<1>8. \A e \in DOMAIN entries' : entries'[e].reveal_included => entries'[e].attested_uploaded
  BY DEF EntriesGrow
<1> QED  BY <1>2, <1>3, <1>4, <1>5, <1>6, <1>7, <1>8 DEF LedgersInvariant

\* As above, for instructions that leave vaults and ledgers alone.
LEMMA UntouchedLedgers ==
    ASSUME LedgersInvariant, NEW g \in DOMAIN giveaways, NEW settled, NEW attested,
           NEW uploaded, GiveawayEffect(g, settled, attested, uploaded),
           EntriesGrow, UNCHANGED <<draws, vaults, ledgers>>
    PROVE  LedgersInvariant'
<1>1. /\ vaults' \in [DOMAIN giveaways -> Int]
      /\ ledgers' \in [DOMAIN ledgers -> LedgerType]
      /\ \A l \in DOMAIN ledgers :
            /\ ledgers'[l].giveaway = ledgers[l].giveaway
            /\ ledgers'[l].winner_wallets = ledgers[l].winner_wallets
            /\ ledgers'[l].paid \subseteq ledgers'[l].winner_wallets
  BY DEF LedgersInvariant, AccountsTyped
<1> QED  BY <1>1, LedgersKept

LEMMA CreateLedgers ==
    ASSUME TypeOK, LedgersInvariant,
           NEW c \in Creators, NEW id \in 1..MaxGiveaways, NEW total \in Payouts,
           NEW n \in WinnerCounts, CreateGiveaway(c, id, total, n)
    PROVE  LedgersInvariant'
<1>1. /\ UNCHANGED <<entries, draws, ledgers>>
      /\ giveaways' = Put(giveaways, id, NewGiveaway(id, c, total, n))
      /\ vaults' = Put(vaults, id, total + RENT)
      /\ id \notin DOMAIN giveaways
  BY DEF CreateGiveaway
<1>2. /\ id \in Nat /\ total \in Nat /\ n \in Nat /\ RENT \in Nat
  BY AmountsAssumption
<1>3. NewGiveaway(id, c, total, n) \in GiveawayType /\ NewGiveaway(id, c, total, n).vault = id
  BY <1>2 DEF NewGiveaway, GiveawayType, TypeOK
<1>4. /\ giveaways \in [DOMAIN giveaways -> GiveawayType]
      /\ vaults \in [DOMAIN giveaways -> Int]
  BY DEF LedgersInvariant, AccountsTyped
<1>5. /\ DOMAIN giveaways' = DOMAIN giveaways \cup {id}
      /\ giveaways' \in [DOMAIN giveaways' -> GiveawayType]
      /\ \A h \in DOMAIN giveaways' : giveaways'[h].vault = h
  BY <1>1, <1>3, <1>4 DEF Put, LedgersInvariant
<1>6. vaults' \in [DOMAIN giveaways' -> Int]
  BY <1>1, <1>2, <1>4, <1>5 DEF Put
<1>7. AccountsTyped'
  BY <1>1, <1>5, <1>6 DEF LedgersInvariant, AccountsTyped
<1> QED  BY <1>1, <1>5, <1>7 DEF LedgersInvariant, IncludedIn

-----------------------------------------------------------------------------
\* The wallets with an entry in one giveaway are finitely many.
LEMMA FewWallets ==
    ASSUME LedgersInvariant, NEW g, NEW S, \A w \in S : <<g, w>> \in DOMAIN entries
    PROVE  IsFiniteSet(S) /\ Cardinality(S) \in Nat
<1> DEFINE f == [w \in S |-> <<g, w>>]
           addresses == DOMAIN entries
<1>1. f \in [S -> addresses]
  OBVIOUS
<1>2. \A u, w \in S : f[u] = f[w] => u = w
  OBVIOUS
<1>3. IsFiniteSet(addresses)
  BY DEF LedgersInvariant
<1> HIDE DEF f, addresses
<1>4. f \in Injection(S, addresses)
  BY <1>1, <1>2 DEF Injection, IsInjective
<1>5. IsFiniteSet(S)
  BY <1>3, <1>4, FS_Injection
<1> QED  BY <1>5, FS_CardinalityType

LEMMA FewWinners ==
    ASSUME LedgersInvariant, NEW g \in DOMAIN ledgers,
           NEW S \in SUBSET ledgers[g].winner_wallets
    PROVE  IsFiniteSet(S) /\ Cardinality(S) \in Nat
<1>1. \A w \in S : <<g, w>> \in DOMAIN entries
  BY DEF LedgersInvariant, IncludedIn
<1> QED  BY <1>1, FewWallets

\* What is left in the vault after a batch, whether it pays the last winners,
\* and what the vault holds then.
LeftAfter(g, batch) == vaults[g] - ledgers[g].per_winner_lamports * Cardinality(batch)
PaysLast(g, batch) == ledgers[g].paid \cup batch = ledgers[g].winner_wallets
HeldAfter(g, batch) == IF PaysLast(g, batch) THEN 0 ELSE LeftAfter(g, batch)

\* What a payout does to its giveaway, vault and ledger.
PayoutStep(g, batch) ==
    /\ g \in DOMAIN ledgers /\ batch \in SUBSET ledgers[g].winner_wallets
    /\ UNCHANGED <<entries, draws>>
    /\ ledgers' = [ledgers EXCEPT ![g].paid = ledgers[g].paid \cup batch]
    /\ batch # {} /\ batch \cap ledgers[g].paid = {}
    /\ vaults' = [vaults EXCEPT ![g] = HeldAfter(g, batch)]
    /\ LeftAfter(g, batch) \in Int
    /\ PaysLast(g, batch) => LeftAfter(g, batch) >= FeeOf(g)
    /\ GiveawayEffect(g, PaysLast(g, batch), giveaways[g].attested_count,
                      giveaways[g].provider_uploaded_count)
    /\ ~giveaways[g].settled

\* The giveaway, the vault and the ledger an instruction names are one another's.
LEMMA PayoutEffect ==
    ASSUME LedgersInvariant, NEW g \in DOMAIN giveaways, NEW v, NEW l \in DOMAIN ledgers,
           NEW c, NEW batch \in SUBSET ledgers[l].winner_wallets,
           SettlePayoutBatch(g, v, l, c, batch)
    PROVE  PayoutStep(g, batch)
<1>1. v = g /\ l = g
  BY DEF SettlePayoutBatch, LinkedVault, LinkedLedger, LedgersInvariant
<1>2. g \in DOMAIN ledgers /\ batch \in SUBSET ledgers[g].winner_wallets
  BY <1>1
<1>3. Cardinality(batch) \in Nat
  BY <1>2, FewWinners
<1>4. ledgers[g].per_winner_lamports \in Int /\ vaults[g] \in Int
  BY <1>2 DEF LedgersInvariant, AccountsTyped, LedgerType
<1>5. ledgers' = [ledgers EXCEPT ![g].paid = ledgers[g].paid \cup batch]
  BY <1>1 DEF SettlePayoutBatch
<1>6. giveaways' = [giveaways EXCEPT ![g].settled = PaysLast(g, batch)]
  BY <1>1 DEF SettlePayoutBatch, PaysLast
<1>7. GiveawayEffect(g, PaysLast(g, batch), giveaways[g].attested_count,
                     giveaways[g].provider_uploaded_count)
  <2>1. PaysLast(g, batch) \in BOOLEAN
    BY DEF PaysLast
  <2> QED  BY <1>6, <2>1, SettleEffect
<1>8. LeftAfter(g, batch) \in Int
  BY <1>3, <1>4 DEF LeftAfter
<1>9. /\ batch # {} /\ batch \cap ledgers[g].paid = {}
      /\ vaults' = [vaults EXCEPT ![g] = HeldAfter(g, batch)]
      /\ PaysLast(g, batch) => LeftAfter(g, batch) >= FeeOf(g)
      /\ ~giveaways[g].settled
      /\ UNCHANGED <<entries, draws>>
  BY <1>1 DEF SettlePayoutBatch, SettlementFrame, HeldAfter, PaysLast, LeftAfter
<1> QED  BY <1>1, <1>2, <1>5, <1>7, <1>8, <1>9 DEF PayoutStep

LEMMA PayoutLedgers ==
    ASSUME LedgersInvariant, NEW g \in DOMAIN giveaways, NEW v, NEW l \in DOMAIN ledgers,
           NEW c, NEW batch \in SUBSET ledgers[l].winner_wallets,
           SettlePayoutBatch(g, v, l, c, batch)
    PROVE  LedgersInvariant'
<1>0. PayoutStep(g, batch)
  BY PayoutEffect
<1>1. /\ g \in DOMAIN ledgers /\ batch \in SUBSET ledgers[g].winner_wallets
      /\ UNCHANGED <<entries, draws>>
      /\ ledgers' = [ledgers EXCEPT ![g].paid = ledgers[g].paid \cup batch]
      /\ GiveawayEffect(g, PaysLast(g, batch), giveaways[g].attested_count,
                        giveaways[g].provider_uploaded_count)
      /\ vaults' = [vaults EXCEPT ![g] = HeldAfter(g, batch)]
      /\ LeftAfter(g, batch) \in Int
  BY <1>0 DEF PayoutStep
<1>7. HeldAfter(g, batch) \in Int
  BY <1>1 DEF HeldAfter
<1>2. ledgers \in [DOMAIN ledgers -> LedgerType] /\ vaults \in [DOMAIN giveaways -> Int]
  BY DEF LedgersInvariant, AccountsTyped
<1>3. vaults' \in [DOMAIN giveaways -> Int]
  BY <1>1, <1>2, <1>7
<1>4. ledgers[g].paid \subseteq ledgers[g].winner_wallets
  BY <1>1 DEF LedgersInvariant
<1>5. /\ ledgers' \in [DOMAIN ledgers -> LedgerType]
      /\ \A h \in DOMAIN ledgers :
            /\ ledgers'[h].giveaway = ledgers[h].giveaway
            /\ ledgers'[h].winner_wallets = ledgers[h].winner_wallets
            /\ ledgers'[h].paid \subseteq ledgers'[h].winner_wallets
  BY <1>1, <1>2, <1>4 DEF LedgerType, LedgersInvariant
<1>6. EntriesGrow
  BY <1>1, SameEntries
<1> QED  BY <1>1, <1>3, <1>5, <1>6, LedgersKept

LEMMA LockLedgers ==
    ASSUME LedgersInvariant, NEW g \in DOMAIN giveaways, NEW l \in DOMAIN ledgers,
           NEW c, LockWinners(g, l, c)
    PROVE  LedgersInvariant'
<1>1. /\ UNCHANGED <<entries, draws, vaults>>
      /\ giveaways' = [giveaways EXCEPT ![g].winners_locked = TRUE]
      /\ ledgers' = [ledgers EXCEPT ![l].locked = TRUE]
  BY DEF LockWinners, SettlementFrame
<1>2. ledgers \in [DOMAIN ledgers -> LedgerType] /\ vaults' \in [DOMAIN giveaways -> Int]
  BY <1>1 DEF LedgersInvariant, AccountsTyped
<1>3. /\ ledgers' \in [DOMAIN ledgers -> LedgerType]
      /\ \A h \in DOMAIN ledgers :
            /\ ledgers'[h].giveaway = ledgers[h].giveaway
            /\ ledgers'[h].winner_wallets = ledgers[h].winner_wallets
            /\ ledgers'[h].paid \subseteq ledgers'[h].winner_wallets
  <2> DEFINE r == [ledgers[l] EXCEPT !.locked = TRUE]
  <2>1. /\ r \in LedgerType /\ r.giveaway = ledgers[l].giveaway
        /\ r.winner_wallets = ledgers[l].winner_wallets /\ r.paid = ledgers[l].paid
    BY <1>2 DEF LedgerType
  <2>2. ledgers' = [ledgers EXCEPT ![l] = r]
    BY <1>1
  <2>3. \A h \in DOMAIN ledgers : ledgers[h].paid \subseteq ledgers[h].winner_wallets
    BY DEF LedgersInvariant
  <2> HIDE DEF r
  <2> QED  BY <1>2, <2>1, <2>2, <2>3
<1>4. NoEffect(g)
  BY <1>1, FlagEffect
<1>5. EntriesGrow
  BY <1>1, SameEntries
<1> QED  BY <1>1, <1>2, <1>3, <1>4, <1>5, LedgersKept DEF NoEffect

LEMMA RefundLedgers ==
    ASSUME LedgersInvariant, NEW g \in DOMAIN giveaways, NEW v, NEW c,
           SettleGiveaway(g, v, c)
    PROVE  LedgersInvariant'
<1>1. /\ UNCHANGED <<entries, draws, ledgers>>
      /\ giveaways' = [giveaways EXCEPT ![g].settled = TRUE]
      /\ vaults' = [vaults EXCEPT ![g] = 0]
  BY DEF SettleGiveaway, SettlementFrame, LinkedVault, LedgersInvariant
<1>2. vaults' \in [DOMAIN giveaways -> Int]
  <2>1. vaults \in [DOMAIN giveaways -> Int]
    BY DEF LedgersInvariant, AccountsTyped
  <2> QED  BY <1>1, <2>1
<1>3. GiveawayEffect(g, TRUE, giveaways[g].attested_count,
                     giveaways[g].provider_uploaded_count)
  BY <1>1, SettleEffect
<1>4. EntriesGrow
  BY <1>1, SameEntries
<1>5. ledgers' \in [DOMAIN ledgers -> LedgerType]
  BY <1>1 DEF LedgersInvariant, AccountsTyped
<1>6. \A h \in DOMAIN ledgers : ledgers[h].paid \subseteq ledgers[h].winner_wallets
  BY DEF LedgersInvariant
<1> QED  BY <1>1, <1>2, <1>3, <1>4, <1>5, <1>6, LedgersKept

-----------------------------------------------------------------------------
\* The smaller of two numbers, as the code of PublishWinners takes it.
LEMMA SmallerOfTwo ==
    ASSUME NEW a \in Nat, NEW b \in Nat
    PROVE  Min({a, b}) \in Nat
<1>1. \E x \in {a, b} : \A y \in {a, b} : x <= y
  OBVIOUS
<1> QED  BY <1>1 DEF Min

\* A new ledger holds winners from the candidates and nobody paid.
LEMMA PublishedLedger ==
    ASSUME LedgersInvariant, NEW g \in DOMAIN giveaways, g \in Nat,
           NEW candidates \in SUBSET Wallets,
           IsFiniteSet(candidates), PublishWinners(g, candidates)
    PROVE  \E r \in LedgerType :
                /\ ledgers' = Put(ledgers, g, r)
                /\ r.giveaway = g /\ r.winner_wallets \subseteq candidates /\ r.paid = {}
<1> DEFINE n == giveaways[g].number_of_winners
           count == Min({Cardinality(candidates), n})
           pool == giveaways[g].total_payout_lamports - FeeOf(g)
           share == IF count = 0 THEN 0 ELSE pool \div count
<1>1. PICK winners \in kSubset(count, candidates) :
        ledgers' = Put(ledgers, g, NewLedger(g, winners, share))
  BY DEF PublishWinners
<1>2. winners \subseteq candidates
  BY DEF kSubset
<1>3. share \in Int
  <2>1. giveaways[g] \in GiveawayType
    BY DEF LedgersInvariant, AccountsTyped
  <2>2. n \in Nat /\ giveaways[g].total_payout_lamports \in Nat
        /\ giveaways[g].service_fee_bps \in Nat
    BY <2>1 DEF GiveawayType
  <2>3. pool \in Int
    <3>1. giveaways[g].total_payout_lamports * giveaways[g].service_fee_bps \in Int
      BY <2>2
    <3>2. FeeOf(g) \in Int
      BY <3>1 DEF FeeOf
    <3> QED  BY <2>2, <3>2
  <2>4. count \in Nat
    BY <2>2, SmallerOfTwo, FS_CardinalityType
  <2> HIDE DEF pool, count
  <2> QED  BY <2>3, <2>4
<1> HIDE DEF share
<1> DEFINE r == NewLedger(g, winners, share)
<1>4. /\ r \in LedgerType /\ r.giveaway = g
      /\ r.winner_wallets \subseteq candidates /\ r.paid = {}
  BY <1>2, <1>3 DEF NewLedger, LedgerType
<1> HIDE DEF r
<1> QED  BY <1>1, <1>4 DEF r

\* The draw of a chunk: candidates of this giveaway whose entries are included.
LEMMA ChunkCandidates ==
    ASSUME TypeOK, LedgersInvariant, NEW g \in DOMAIN giveaways, NEW v,
           NEW chunk \in SUBSET DOMAIN entries, FinalizeChunk(g, v, chunk)
    PROVE  \E d \in DrawType :
                /\ draws' = Put(draws, g, d)
                /\ \A w \in d.candidates : IncludedIn(g, w)
                /\ IF d.completed THEN PublishWinners(g, d.candidates)
                                  ELSE UNCHANGED ledgers
<1> DEFINE draw == AllocatedDraw(g)
           processed == draw.processed_count + Cardinality(chunk)
           candidates == draw.candidates \cup {entries[e].wallet :
                                e \in {f \in chunk : ~entries[f].disqualified}}
           completed == (processed = giveaways[g].provider_uploaded_count)
           d == [processed_count |-> processed, candidates |-> candidates,
                 completed |-> completed]
<1>1. draw \in DrawType /\ \A w \in draw.candidates : IncludedIn(g, w)
  <2>1. CASE g \in DOMAIN draws
    BY <2>1 DEF AllocatedDraw, LedgersInvariant, AccountsTyped
  <2>2. CASE g \notin DOMAIN draws
    BY <2>2 DEF AllocatedDraw, DrawType
  <2> QED  BY <2>1, <2>2
<1>2. processed \in Nat
  <2>1. Cardinality(chunk) \in Nat
    BY FS_Subset, FS_CardinalityType DEF LedgersInvariant
  <2> QED  BY <1>1, <2>1 DEF DrawType
<1>3. \A e \in chunk : e = <<g, entries[e].wallet>> /\ entries[e].reveal_included
  BY DEF FinalizeChunk, OwnedEntry
<1>4. \A e \in chunk : entries[e].wallet \in Wallets
  BY DEF TypeOK, EntryType
<1>5. candidates \in SUBSET Wallets /\ \A w \in candidates : IncludedIn(g, w)
  BY <1>1, <1>3, <1>4 DEF DrawType, IncludedIn
<1>6. /\ draws' = Put(draws, g, d)
      /\ IF completed THEN PublishWinners(g, candidates) ELSE UNCHANGED ledgers
  BY DEF FinalizeChunk
<1>7. completed \in BOOLEAN
  OBVIOUS
<1> HIDE DEF completed, candidates, processed
<1>8. d \in DrawType /\ d.candidates = candidates /\ d.completed = completed
  BY <1>2, <1>5, <1>7 DEF DrawType
<1> HIDE DEF d
<1> QED  BY <1>5, <1>6, <1>8

LEMMA ChunkLedgers ==
    ASSUME TypeOK, LedgersInvariant, NEW g \in DOMAIN giveaways, NEW v,
           NEW chunk \in SUBSET DOMAIN entries, FinalizeChunk(g, v, chunk)
    PROVE  /\ LedgersInvariant'
           /\ g \notin DOMAIN ledgers
           /\ \A h \in DOMAIN ledgers : h \in DOMAIN ledgers' /\ ledgers'[h] = ledgers[h]
           /\ \A h \in DOMAIN ledgers' : h \notin DOMAIN ledgers => h = g /\ ledgers'[h].paid = {}
           /\ g \in DOMAIN ledgers' => ledgers'[g].per_winner_lamports \in Int
<1>1. PICK d \in DrawType :
        /\ draws' = Put(draws, g, d)
        /\ \A w \in d.candidates : IncludedIn(g, w)
        /\ IF d.completed THEN PublishWinners(g, d.candidates) ELSE UNCHANGED ledgers
  BY ChunkCandidates
<1>2. /\ entries' = Marked(chunk, "finalized") /\ UNCHANGED vaults
      /\ ~AllocatedDraw(g).completed
  BY DEF FinalizeChunk
<1>3. EntriesGrow /\ NoEffect(g)
  BY <1>2, QuietGrows, FinalizeEffect
<1>4. g \in Nat
  BY DEF TypeOK
<1>5. g \notin DOMAIN ledgers
  BY <1>2 DEF AllocatedDraw, LedgersInvariant
<1>6. \A h \in DOMAIN ledgers : h \in DOMAIN draws /\ h # g
  BY <1>5 DEF LedgersInvariant
<1>7. /\ DOMAIN draws' = DOMAIN draws \cup {g} /\ draws'[g] = d
      /\ \A h \in DOMAIN draws : h # g => draws'[h] = draws[h]
      /\ draws' \in [DOMAIN draws' -> DrawType]
  BY <1>1 DEF Put, LedgersInvariant, AccountsTyped
<1>8. \/ ledgers' = ledgers
      \/ \E r \in LedgerType : /\ ledgers' = Put(ledgers, g, r) /\ d.completed
                               /\ r.giveaway = g /\ r.winner_wallets \subseteq d.candidates
                               /\ r.paid = {}
  <2>1. d.candidates \in SUBSET Wallets
    BY DEF DrawType
  <2>2. IsFiniteSet(d.candidates)
    BY <1>1, FewWallets DEF IncludedIn
  <2>3. CASE d.completed
    BY <1>1, <1>4, <2>1, <2>2, <2>3, PublishedLedger
  <2>4. CASE ~d.completed
    BY <1>1, <2>4
  <2> QED  BY <2>3, <2>4
<1>9. /\ ledgers' \in [DOMAIN ledgers' -> LedgerType]
      /\ \A h \in DOMAIN ledgers : h \in DOMAIN ledgers' /\ ledgers'[h] = ledgers[h]
      /\ \A h \in DOMAIN ledgers' :
            \/ h \in DOMAIN ledgers
            \/ /\ h = g /\ d.completed /\ ledgers'[h].giveaway = g
               /\ ledgers'[h].winner_wallets \subseteq d.candidates /\ ledgers'[h].paid = {}
  <2>1. ledgers \in [DOMAIN ledgers -> LedgerType]
    BY DEF LedgersInvariant, AccountsTyped
  <2>2. CASE ledgers' = ledgers
    BY <2>1, <2>2
  <2>3. ASSUME NEW r \in LedgerType, ledgers' = Put(ledgers, g, r), d.completed,
               r.giveaway = g, r.winner_wallets \subseteq d.candidates, r.paid = {}
        PROVE  /\ ledgers' \in [DOMAIN ledgers' -> LedgerType]
               /\ \A h \in DOMAIN ledgers : h \in DOMAIN ledgers' /\ ledgers'[h] = ledgers[h]
               /\ \A h \in DOMAIN ledgers' :
                     \/ h \in DOMAIN ledgers
                     \/ /\ h = g /\ d.completed /\ ledgers'[h].giveaway = g
                        /\ ledgers'[h].winner_wallets \subseteq d.candidates /\ ledgers'[h].paid = {}
    <3>1. DOMAIN ledgers' = DOMAIN ledgers \cup {g} /\ ledgers'[g] = r
      BY <2>3 DEF Put
    <3>2. \A h \in DOMAIN ledgers : ledgers'[h] = ledgers[h]
      BY <1>6, <2>3 DEF Put
    <3>3. ledgers' \in [DOMAIN ledgers' -> LedgerType]
      BY <2>1, <2>3 DEF Put
    <3> QED  BY <2>3, <3>1, <3>2, <3>3
  <2> QED  BY <1>8, <2>2, <2>3
<1>10. giveaways' \in [DOMAIN giveaways -> GiveawayType] /\ DOMAIN giveaways' = DOMAIN giveaways
  BY <1>3 DEF NoEffect, GiveawayEffect
<1>11. AccountsTyped'
  BY <1>2, <1>7, <1>9, <1>10 DEF AccountsTyped, LedgersInvariant
<1>12. \A h \in DOMAIN giveaways' : giveaways'[h].vault = h
  BY <1>3, <1>10 DEF NoEffect, GiveawayEffect, SameTerms, LedgersInvariant
<1>13. ASSUME NEW h \in DOMAIN draws', NEW w \in draws'[h].candidates
       PROVE  IncludedIn(h, w)' /\ h \in DOMAIN giveaways'
  <2>1. IncludedIn(h, w) /\ h \in DOMAIN giveaways
    BY <1>1, <1>7, <1>13 DEF LedgersInvariant
  <2> QED  BY <1>3, <1>10, <2>1 DEF EntriesGrow, IncludedIn
<1>14. \A h \in DOMAIN draws' : h \in DOMAIN giveaways'
  BY <1>7, <1>10 DEF LedgersInvariant
<1>15. ASSUME NEW l \in DOMAIN ledgers'
       PROVE  /\ ledgers'[l].giveaway = l
              /\ l \in DOMAIN draws' /\ draws'[l].completed
              /\ ledgers'[l].winner_wallets \subseteq draws'[l].candidates
              /\ ledgers'[l].paid \subseteq ledgers'[l].winner_wallets
  BY <1>6, <1>7, <1>9, <1>15 DEF LedgersInvariant
<1>16. LedgersInvariant'
  BY <1>3, <1>11, <1>12, <1>13, <1>14, <1>15 DEF LedgersInvariant, EntriesGrow
<1>17. g \in DOMAIN ledgers' => ledgers'[g].per_winner_lamports \in Int
  BY <1>9 DEF LedgerType
<1> QED  BY <1>5, <1>9, <1>16, <1>17

LEMMA EntryLedgers ==
    ASSUME TypeOK, LedgersInvariant, NEW g \in DOMAIN giveaways,
           EntryStep(g)
    PROVE  LedgersInvariant'
<1>1. CASE WindowCloses(g)
  <2>1. UNCHANGED <<entries, draws, vaults, ledgers>>
    BY <1>1 DEF WindowCloses
  <2>2. UNCHANGED giveaways \/ giveaways' = [giveaways EXCEPT ![g].remediation = "expired"]
    BY <1>1 DEF WindowCloses
  <2>3. NoEffect(g)
    BY <2>2, SameGiveaways, FlagEffect
  <2> QED  BY <2>1, <2>3, SameEntries, UntouchedLedgers DEF NoEffect
<1>2. ASSUME NEW w \in Wallets, NEW c \in Commitments, Participate(g, w, c)
      PROVE  LedgersInvariant'
  <2>1. UNCHANGED <<draws, vaults, ledgers>>
    BY <1>2 DEF Participate, EntryFrame
  <2>2. NoEffect(g)
    BY <1>2, ParticipateEffect
  <2>3. EntriesGrow
    BY <1>2, ParticipateGrows
  <2> QED  BY <2>1, <2>2, <2>3, UntouchedLedgers DEF NoEffect
<1>3. ASSUME NEW e \in DOMAIN entries, NEW c \in Creators, DisqualifyParticipant(g, e, c)
      PROVE  LedgersInvariant'
  <2>1. /\ UNCHANGED <<giveaways, draws, vaults, ledgers>>
        /\ entries' = [entries EXCEPT ![e].disqualified = TRUE]
    BY <1>3 DEF DisqualifyParticipant, EntryFrame
  <2>2. NoEffect(g) /\ EntriesGrow
    BY <2>1, SameGiveaways, QuietGrows
  <2> QED  BY <2>1, <2>2, UntouchedLedgers DEF NoEffect
<1>4. ASSUME NEW e \in DOMAIN entries, NEW w \in Wallets, AttestUploaded(g, e, w)
      PROVE  LedgersInvariant'
  <2>1. /\ UNCHANGED <<draws, vaults, ledgers>>
        /\ entries' = [entries EXCEPT ![e].attested_uploaded = TRUE]
    BY <1>4 DEF AttestUploaded, EntryFrame
  <2>2. EntriesGrow
    BY <2>1, AttestGrows
  <2>3. GiveawayEffect(g, giveaways[g].settled, giveaways[g].attested_count + 1,
                       giveaways[g].provider_uploaded_count)
    BY <1>4, AttestEffect
  <2> QED  BY <2>1, <2>2, <2>3, UntouchedLedgers
<1>5. ASSUME NEW batch \in SUBSET DOMAIN entries, NEW by_authority \in BOOLEAN,
             UploadReveals(g, batch, by_authority)
      PROVE  LedgersInvariant'
  <2>1. UNCHANGED <<draws, vaults, ledgers>>
    BY <1>5 DEF UploadReveals, EntryFrame
  <2>2. EntriesGrow
    BY <1>5, UploadGrows
  <2>3. GiveawayEffect(g, giveaways[g].settled, giveaways[g].attested_count,
                giveaways[g].provider_uploaded_count + Cardinality(batch))
    BY <1>5, UploadEffect
  <2> QED  BY <2>1, <2>2, <2>3, UntouchedLedgers
<1> QED  BY <1>1, <1>2, <1>3, <1>4, <1>5 DEF EntryStep

LEMMA SettlementLedgers ==
    ASSUME TypeOK, LedgersInvariant, NEW g \in DOMAIN giveaways, NEW v \in DOMAIN vaults,
           SettlementStep(g, v)
    PROVE  LedgersInvariant'
<1>1. CASE FinalizeOpensRemediation(g, v)
  <2>1. /\ UNCHANGED <<entries, draws, vaults, ledgers>>
        /\ giveaways' = [giveaways EXCEPT ![g].remediation = "open"]
    BY <1>1 DEF FinalizeOpensRemediation
  <2> QED  BY <2>1, FlagEffect, SameEntries, UntouchedLedgers DEF NoEffect
<1> QED  BY <1>1, ChunkLedgers, RefundLedgers, LockLedgers, PayoutLedgers
         DEF SettlementStep

LEMMA LedgersStep ==
    ASSUME ReceiptInvariant, LedgersInvariant, [Next]_vars
    PROVE  LedgersInvariant'
<1>1. CASE IdleStep
  BY <1>1, IdleFrame DEF LedgersInvariant, AccountsTyped, IncludedIn
<1> QED  BY <1>1, ProgramCases, CreateLedgers, EntryLedgers, SettlementLedgers
         DEF ReceiptInvariant

LEMMA InitLedgers == Init => LedgersInvariant
<1> SUFFICES ASSUME Init
             PROVE  LedgersInvariant
  OBVIOUS
<1>1. /\ DOMAIN giveaways = {} /\ DOMAIN entries = {} /\ DOMAIN vaults = {}
      /\ DOMAIN draws = {} /\ DOMAIN ledgers = {}
      /\ giveaways = [x \in {} |-> x] /\ vaults = [x \in {} |-> x]
      /\ draws = [x \in {} |-> x] /\ ledgers = [x \in {} |-> x]
  BY DEF Init
<1>2. IsFiniteSet(DOMAIN entries)
  BY <1>1, FS_EmptySet
<1>3. AccountsTyped
  BY <1>1 DEF AccountsTyped
<1> QED  BY <1>1, <1>2, <1>3 DEF LedgersInvariant

\* Whatever accounts the instructions are given, draws hold included entries of
\* their own giveaway, ledgers the winners of a completed draw, and payments
\* go to those winners.
THEOREM LedgersInvariantHolds == Spec => []LedgersInvariant
<1>1. Init => ReceiptInvariant /\ LedgersInvariant
  BY InitReceipts, InitLedgers
<1>2. ReceiptInvariant /\ LedgersInvariant /\ [Next]_vars => LedgersInvariant'
  BY LedgersStep
<1> QED  BY <1>1, <1>2, ReceiptInvariantHolds, PTL DEF Spec

\* For any number of giveaways and entries, a winner took part in that giveaway.
THEOREM WinnersAreParticipants == Spec => []WinnersTookPart
<1>1. LedgersInvariant => WinnersTookPart
  BY DEF LedgersInvariant, WinnersTookPart, IncludedIn
<1> QED  BY <1>1, LedgersInvariantHolds, PTL

-----------------------------------------------------------------------------
(* The vaults *)

VaultFollows(g) ==
    vaults[g] = IF giveaways[g].settled THEN 0 ELSE Deposit(g) - PaidOut(g)

\* What the vault of another giveaway should hold does not change.
LEMMA OtherVaults ==
    ASSUME VaultsFollowTheirLedgers, NEW g \in DOMAIN giveaways, NEW settled,
           NEW attested, NEW uploaded, GiveawayEffect(g, settled, attested, uploaded),
           \A h \in DOMAIN giveaways : h # g =>
                /\ vaults'[h] = vaults[h]
                /\ h \in DOMAIN ledgers' <=> h \in DOMAIN ledgers
                /\ h \in DOMAIN ledgers => ledgers'[h] = ledgers[h],
           VaultFollows(g)'
    PROVE  VaultsFollowTheirLedgers'
<1>1. /\ DOMAIN giveaways' = DOMAIN giveaways
      /\ \A h \in DOMAIN giveaways : h # g => giveaways'[h] = giveaways[h]
  BY DEF GiveawayEffect
<1>2. ASSUME NEW h \in DOMAIN giveaways, h # g
      PROVE  vaults'[h] = IF giveaways'[h].settled THEN 0 ELSE Deposit(h)' - PaidOut(h)'
  <2>1. /\ giveaways'[h] = giveaways[h] /\ vaults'[h] = vaults[h]
        /\ h \in DOMAIN ledgers' <=> h \in DOMAIN ledgers
        /\ h \in DOMAIN ledgers => ledgers'[h] = ledgers[h]
    BY <1>1, <1>2
  <2>2. Deposit(h)' = Deposit(h)
    BY <2>1 DEF Deposit
  <2>3. PaidOut(h)' = PaidOut(h)
    BY <2>1 DEF PaidOut
  <2> QED  BY <2>1, <2>2, <2>3 DEF VaultsFollowTheirLedgers
<1> QED  BY <1>1, <1>2 DEF VaultsFollowTheirLedgers, VaultFollows

\* Nothing that concerns the balance of g changes.
LEMMA SameVaults ==
    ASSUME VaultsFollowTheirLedgers, NEW g \in DOMAIN giveaways, NEW attested, NEW uploaded,
           GiveawayEffect(g, giveaways[g].settled, attested, uploaded),
           UNCHANGED vaults,
           \A h \in DOMAIN giveaways : h # g =>
                /\ h \in DOMAIN ledgers' <=> h \in DOMAIN ledgers
                /\ h \in DOMAIN ledgers => ledgers'[h] = ledgers[h],
           PaidOut(g)' = PaidOut(g)
    PROVE  VaultsFollowTheirLedgers'
<1>1. Deposit(g)' = Deposit(g) /\ giveaways'[g].settled = giveaways[g].settled
  BY DEF GiveawayEffect, SameTerms, Deposit
<1>2. VaultFollows(g)'
  BY <1>1 DEF VaultsFollowTheirLedgers, VaultFollows
<1> QED  BY <1>2, OtherVaults

LEMMA CreateVaults ==
    ASSUME LedgersInvariant, VaultsFollowTheirLedgers,
           NEW c \in Creators, NEW id \in 1..MaxGiveaways, NEW total \in Payouts,
           NEW n \in WinnerCounts, CreateGiveaway(c, id, total, n)
    PROVE  VaultsFollowTheirLedgers'
<1>1. /\ UNCHANGED ledgers
      /\ giveaways' = Put(giveaways, id, NewGiveaway(id, c, total, n))
      /\ vaults' = Put(vaults, id, total + RENT)
      /\ id \notin DOMAIN giveaways
  BY DEF CreateGiveaway
<1>2. id \notin DOMAIN ledgers
  BY <1>1 DEF LedgersInvariant
<1>3. /\ DOMAIN giveaways' = DOMAIN giveaways \cup {id}
      /\ giveaways'[id] = NewGiveaway(id, c, total, n) /\ vaults'[id] = total + RENT
      /\ \A h \in DOMAIN giveaways : giveaways'[h] = giveaways[h]
  BY <1>1 DEF Put
<1>4. DOMAIN vaults = DOMAIN giveaways
  BY DEF LedgersInvariant, AccountsTyped
<1>5. \A h \in DOMAIN giveaways : vaults'[h] = vaults[h]
  BY <1>1, <1>4 DEF Put
<1>6. VaultFollows(id)'
  <2>1. ~giveaways'[id].settled /\ giveaways'[id].total_payout_lamports = total
    BY <1>3 DEF NewGiveaway
  <2>2. PaidOut(id)' = 0
    BY <1>1, <1>2 DEF PaidOut
  <2>3. Deposit(id)' = total + RENT
    BY <2>1 DEF Deposit
  <2>4. total + RENT \in Int
    BY AmountsAssumption
  <2>5. \A amount \in Int : amount - 0 = amount
    OBVIOUS
  <2>6. Deposit(id)' - PaidOut(id)' = total + RENT
    BY <2>2, <2>3, <2>4, <2>5, Zenon
  <2> QED  BY <1>3, <2>1, <2>6 DEF VaultFollows
<1>7. ASSUME NEW h \in DOMAIN giveaways
      PROVE  vaults'[h] = IF giveaways'[h].settled THEN 0 ELSE Deposit(h)' - PaidOut(h)'
  BY <1>1, <1>3, <1>5 DEF VaultsFollowTheirLedgers, Deposit, PaidOut
<1> QED  BY <1>3, <1>6, <1>7 DEF VaultsFollowTheirLedgers, VaultFollows

\* What a batch adds to what its ledger says is paid.
LEMMA PaidByBatch ==
    ASSUME LedgersInvariant, NEW g \in DOMAIN giveaways, NEW batch, PayoutStep(g, batch)
    PROVE  /\ ledgers[g].per_winner_lamports * Cardinality(batch) \in Int
           /\ PaidOut(g) \in Int
           /\ PaidOut(g)' = PaidOut(g) + ledgers[g].per_winner_lamports * Cardinality(batch)
<1> DEFINE share == ledgers[g].per_winner_lamports
           paid == ledgers[g].paid
<1>1. /\ g \in DOMAIN ledgers /\ batch \in SUBSET ledgers[g].winner_wallets
      /\ ledgers' = [ledgers EXCEPT ![g].paid = paid \cup batch]
      /\ batch \cap paid = {}
  BY DEF PayoutStep
<1>2. paid \in SUBSET ledgers[g].winner_wallets
  BY <1>1 DEF LedgersInvariant
<1>3. share \in Int /\ ledgers[g] \in LedgerType
  BY <1>1 DEF LedgersInvariant, AccountsTyped, LedgerType
<1>4. /\ IsFiniteSet(paid) /\ IsFiniteSet(batch)
      /\ Cardinality(paid) \in Nat /\ Cardinality(batch) \in Nat
  BY <1>1, <1>2, FewWinners
<1>5. Cardinality(paid \cup batch) = Cardinality(paid) + Cardinality(batch)
  <2>1. Cardinality(paid \cap batch) = 0
    BY <1>1, FS_EmptySet
  <2> HIDE DEF paid
  <2>2. Cardinality(paid \cup batch)
            = Cardinality(paid) + Cardinality(batch) - Cardinality(paid \cap batch)
    BY <1>4, FS_Union
  <2> QED  BY <1>4, <2>1, <2>2
<1>6. /\ ledgers'[g].paid = paid \cup batch
      /\ ledgers'[g].per_winner_lamports = share /\ DOMAIN ledgers' = DOMAIN ledgers
  BY <1>1, <1>3 DEF LedgerType
<1>7. PaidOut(g) = share * Cardinality(paid)
  BY <1>1 DEF PaidOut
<1>8. PaidOut(g)' = share * Cardinality(paid \cup batch)
  BY <1>1, <1>6 DEF PaidOut
<1>9. \A a, b, c \in Int : a * (b + c) = a * b + a * c /\ a * b \in Int
  OBVIOUS
<1>10. share * Cardinality(batch) \in Int /\ share * Cardinality(paid) \in Int
  <2> HIDE DEF share, paid
  <2> QED  BY <1>3, <1>4
<1>11. PaidOut(g)' = PaidOut(g) + share * Cardinality(batch)
  <2> HIDE DEF share, paid
  <2> QED  BY <1>3, <1>4, <1>5, <1>7, <1>8, <1>9
<1> QED  BY <1>7, <1>10, <1>11

LEMMA PayoutVaults ==
    ASSUME LedgersInvariant, VaultsFollowTheirLedgers, NEW g \in DOMAIN giveaways,
           NEW batch, PayoutStep(g, batch)
    PROVE  VaultsFollowTheirLedgers'
<1> DEFINE due == ledgers[g].per_winner_lamports * Cardinality(batch)
<1>1. /\ g \in DOMAIN ledgers
      /\ ledgers' = [ledgers EXCEPT ![g].paid = ledgers[g].paid \cup batch]
      /\ vaults' = [vaults EXCEPT ![g] = HeldAfter(g, batch)]
      /\ GiveawayEffect(g, PaysLast(g, batch), giveaways[g].attested_count,
                        giveaways[g].provider_uploaded_count)
      /\ ~giveaways[g].settled
  BY DEF PayoutStep
<1>2. DOMAIN vaults = DOMAIN giveaways
  BY DEF LedgersInvariant, AccountsTyped
<1>3. /\ giveaways'[g].settled = PaysLast(g, batch)
      /\ Deposit(g)' = Deposit(g)
  BY <1>1 DEF GiveawayEffect, SameTerms, Deposit
<1>4. vaults'[g] = HeldAfter(g, batch)
  BY <1>1, <1>2
<1>5. due \in Int /\ PaidOut(g) \in Int /\ PaidOut(g)' = PaidOut(g) + due
  BY PaidByBatch
<1>6. vaults[g] = Deposit(g) - PaidOut(g)
  BY <1>1 DEF VaultsFollowTheirLedgers
<1>7. Deposit(g) \in Int
  <2>1. giveaways[g] \in GiveawayType
    BY DEF LedgersInvariant, AccountsTyped
  <2> QED  BY <2>1, AmountsAssumption DEF Deposit, GiveawayType
<1>8. VaultFollows(g)'
  <2>1. CASE PaysLast(g, batch)
    BY <1>3, <1>4, <2>1 DEF VaultFollows, HeldAfter
  <2>2. CASE ~PaysLast(g, batch)
    <3>1. vaults'[g] = vaults[g] - due
      BY <1>4, <2>2 DEF HeldAfter, LeftAfter
    <3> HIDE DEF due
    <3>2. vaults'[g] = Deposit(g)' - PaidOut(g)'
      BY <1>3, <1>5, <1>6, <1>7, <3>1
    <3> QED  BY <1>3, <2>2, <3>2 DEF VaultFollows
  <2> QED  BY <2>1, <2>2
<1>9. \A h \in DOMAIN giveaways : h # g =>
            /\ vaults'[h] = vaults[h]
            /\ h \in DOMAIN ledgers' <=> h \in DOMAIN ledgers
            /\ h \in DOMAIN ledgers => ledgers'[h] = ledgers[h]
  BY <1>1, <1>2
<1> QED  BY <1>1, <1>8, <1>9, OtherVaults

LEMMA RefundVaults ==
    ASSUME LedgersInvariant, VaultsFollowTheirLedgers, NEW g \in DOMAIN giveaways,
           NEW v, NEW c, SettleGiveaway(g, v, c)
    PROVE  VaultsFollowTheirLedgers'
<1>1. /\ UNCHANGED ledgers
      /\ giveaways' = [giveaways EXCEPT ![g].settled = TRUE]
      /\ vaults' = [vaults EXCEPT ![g] = 0]
  BY DEF SettleGiveaway, SettlementFrame, LinkedVault, LedgersInvariant
<1>2. DOMAIN vaults = DOMAIN giveaways
  BY DEF LedgersInvariant, AccountsTyped
<1>3. GiveawayEffect(g, TRUE, giveaways[g].attested_count,
                     giveaways[g].provider_uploaded_count)
  BY <1>1, SettleEffect
<1>4. VaultFollows(g)'
  BY <1>1, <1>2, <1>3 DEF VaultFollows, GiveawayEffect
<1>5. \A h \in DOMAIN giveaways : h # g => vaults'[h] = vaults[h]
  BY <1>1, <1>2
<1> QED  BY <1>1, <1>3, <1>4, <1>5, OtherVaults

LEMMA ChunkVaults ==
    ASSUME TypeOK, LedgersInvariant, VaultsFollowTheirLedgers, NEW g \in DOMAIN giveaways,
           NEW v, NEW chunk \in SUBSET DOMAIN entries, FinalizeChunk(g, v, chunk)
    PROVE  VaultsFollowTheirLedgers'
<1>1. /\ g \notin DOMAIN ledgers
      /\ \A h \in DOMAIN ledgers : h \in DOMAIN ledgers' /\ ledgers'[h] = ledgers[h]
      /\ \A h \in DOMAIN ledgers' : h \notin DOMAIN ledgers => h = g /\ ledgers'[h].paid = {}
      /\ g \in DOMAIN ledgers' => ledgers'[g].per_winner_lamports \in Int
  BY ChunkLedgers
<1>2. NoEffect(g) /\ UNCHANGED vaults
  BY FinalizeEffect DEF FinalizeChunk
<1>3. PaidOut(g)' = PaidOut(g)
  <2>1. PaidOut(g) = 0
    BY <1>1 DEF PaidOut
  <2>2. CASE g \in DOMAIN ledgers'
    <3>1. Cardinality(ledgers'[g].paid) = 0
      BY <1>1, <2>2, FS_EmptySet
    <3>2. ledgers'[g].per_winner_lamports * 0 = 0
      BY <1>1, <2>2
    <3> QED  BY <2>1, <2>2, <3>1, <3>2 DEF PaidOut
  <2>3. CASE g \notin DOMAIN ledgers'
    BY <2>1, <2>3 DEF PaidOut
  <2> QED  BY <2>2, <2>3
<1> QED  BY <1>1, <1>2, <1>3, SameVaults DEF NoEffect

\* Instructions that move no lamports: entries, opening remediation, locking.
LEMMA QuietVaults ==
    ASSUME VaultsFollowTheirLedgers, NEW g \in DOMAIN giveaways, NEW attested, NEW uploaded,
           GiveawayEffect(g, giveaways[g].settled, attested, uploaded),
           UNCHANGED <<vaults, ledgers>>
    PROVE  VaultsFollowTheirLedgers'
<1>1. PaidOut(g)' = PaidOut(g)
  BY DEF PaidOut
<1> QED  BY <1>1, SameVaults

LEMMA LockVaults ==
    ASSUME LedgersInvariant, VaultsFollowTheirLedgers, NEW g \in DOMAIN giveaways,
           NEW l \in DOMAIN ledgers, NEW c, LockWinners(g, l, c)
    PROVE  VaultsFollowTheirLedgers'
<1>1. /\ l = g /\ UNCHANGED vaults
      /\ giveaways' = [giveaways EXCEPT ![g].winners_locked = TRUE]
      /\ ledgers' = [ledgers EXCEPT ![g].locked = TRUE]
  BY DEF LockWinners, LinkedLedger, LedgersInvariant
<1>2. ledgers[g] \in LedgerType
  BY <1>1 DEF LedgersInvariant, AccountsTyped
<1>3. /\ ledgers'[g].per_winner_lamports = ledgers[g].per_winner_lamports
      /\ ledgers'[g].paid = ledgers[g].paid /\ DOMAIN ledgers' = DOMAIN ledgers
      /\ \A h \in DOMAIN ledgers : h # g => ledgers'[h] = ledgers[h]
  BY <1>1, <1>2 DEF LedgerType
<1>4. PaidOut(g)' = PaidOut(g)
  BY <1>3 DEF PaidOut
<1>5. NoEffect(g)
  BY <1>1, FlagEffect
<1> QED  BY <1>1, <1>3, <1>4, <1>5, SameVaults DEF NoEffect

LEMMA EntryVaults ==
    ASSUME TypeOK, LedgersInvariant, VaultsFollowTheirLedgers, NEW g \in DOMAIN giveaways,
           EntryStep(g)
    PROVE  VaultsFollowTheirLedgers'
<1>1. CASE WindowCloses(g)
  <2>1. UNCHANGED <<vaults, ledgers>>
    BY <1>1 DEF WindowCloses
  <2>2. UNCHANGED giveaways \/ giveaways' = [giveaways EXCEPT ![g].remediation = "expired"]
    BY <1>1 DEF WindowCloses
  <2>3. NoEffect(g)
    BY <2>2, SameGiveaways, FlagEffect
  <2> QED  BY <2>1, <2>3, QuietVaults DEF NoEffect
<1>2. ASSUME NEW w \in Wallets, NEW c \in Commitments, Participate(g, w, c)
      PROVE  VaultsFollowTheirLedgers'
  <2>1. UNCHANGED <<vaults, ledgers>>
    BY <1>2 DEF Participate, EntryFrame
  <2>2. NoEffect(g)
    BY <1>2, ParticipateEffect
  <2> QED  BY <2>1, <2>2, QuietVaults DEF NoEffect
<1>3. ASSUME NEW e \in DOMAIN entries, NEW c \in Creators, DisqualifyParticipant(g, e, c)
      PROVE  VaultsFollowTheirLedgers'
  <2>1. UNCHANGED <<giveaways, vaults, ledgers>>
    BY <1>3 DEF DisqualifyParticipant, EntryFrame
  <2>2. NoEffect(g)
    BY <2>1, SameGiveaways
  <2> QED  BY <2>1, <2>2, QuietVaults DEF NoEffect
<1>4. ASSUME NEW e \in DOMAIN entries, NEW w \in Wallets, AttestUploaded(g, e, w)
      PROVE  VaultsFollowTheirLedgers'
  <2>1. UNCHANGED <<vaults, ledgers>>
    BY <1>4 DEF AttestUploaded, EntryFrame
  <2>2. GiveawayEffect(g, giveaways[g].settled, giveaways[g].attested_count + 1,
                       giveaways[g].provider_uploaded_count)
    BY <1>4, AttestEffect
  <2> QED  BY <2>1, <2>2, QuietVaults
<1>5. ASSUME NEW batch \in SUBSET DOMAIN entries, NEW by_authority \in BOOLEAN,
             UploadReveals(g, batch, by_authority)
      PROVE  VaultsFollowTheirLedgers'
  <2>1. UNCHANGED <<vaults, ledgers>>
    BY <1>5 DEF UploadReveals, EntryFrame
  <2>2. GiveawayEffect(g, giveaways[g].settled, giveaways[g].attested_count,
                giveaways[g].provider_uploaded_count + Cardinality(batch))
    BY <1>5, UploadEffect
  <2> QED  BY <2>1, <2>2, QuietVaults
<1> QED  BY <1>1, <1>2, <1>3, <1>4, <1>5 DEF EntryStep

LEMMA SettlementVaults ==
    ASSUME TypeOK, LedgersInvariant, VaultsFollowTheirLedgers, NEW g \in DOMAIN giveaways,
           NEW v \in DOMAIN vaults, SettlementStep(g, v)
    PROVE  VaultsFollowTheirLedgers'
<1>1. CASE FinalizeOpensRemediation(g, v)
  <2>1. /\ UNCHANGED <<vaults, ledgers>>
        /\ giveaways' = [giveaways EXCEPT ![g].remediation = "open"]
    BY <1>1 DEF FinalizeOpensRemediation
  <2> QED  BY <2>1, FlagEffect, QuietVaults DEF NoEffect
<1> QED  BY <1>1, ChunkVaults, RefundVaults, LockVaults, PayoutEffect, PayoutVaults
         DEF SettlementStep

LEMMA VaultsStep ==
    ASSUME ReceiptInvariant, LedgersInvariant, VaultsFollowTheirLedgers, [Next]_vars
    PROVE  VaultsFollowTheirLedgers'
<1>1. CASE IdleStep
  BY <1>1, IdleFrame DEF VaultsFollowTheirLedgers, Deposit, PaidOut
<1> QED  BY <1>1, ProgramCases, CreateVaults, EntryVaults, SettlementVaults
         DEF ReceiptInvariant

\* For any number of giveaways and any accounts given to the instructions, a
\* vault holds its own deposit less what its own ledger has paid, and is empty
\* once its giveaway is settled.
THEOREM VaultsAreTheirOwn == Spec => []VaultsFollowTheirLedgers
<1>1. Init => VaultsFollowTheirLedgers
  BY DEF Init, VaultsFollowTheirLedgers
<1>2. /\ ReceiptInvariant /\ LedgersInvariant /\ VaultsFollowTheirLedgers /\ [Next]_vars
      => VaultsFollowTheirLedgers'
  BY VaultsStep
<1> QED  BY <1>1, <1>2, ReceiptInvariantHolds, LedgersInvariantHolds, PTL DEF Spec

-----------------------------------------------------------------------------
(* The counters *)

AttestedIn(g) == {e \in DOMAIN entries : e[1] = g /\ entries[e].attested_uploaded}
RevealedIn(g) == {e \in DOMAIN entries : e[1] = g /\ entries[e].reveal_included}

LEMMA EnteredFlags ==
    ASSUME NEW g
    PROVE  /\ Entered(g, "attested_uploaded") = Cardinality(AttestedIn(g))
           /\ Entered(g, "reveal_included") = Cardinality(RevealedIn(g))
           /\ Entered(g, "attested_uploaded")' = Cardinality(AttestedIn(g)')
           /\ Entered(g, "reveal_included")' = Cardinality(RevealedIn(g)')
BY DEF Entered, AttestedIn, RevealedIn

LEMMA FlaggedFinite ==
    ASSUME LedgersInvariant, NEW g
    PROVE  IsFiniteSet(AttestedIn(g)) /\ IsFiniteSet(RevealedIn(g))
<1> DEFINE addresses == DOMAIN entries
<1>1. IsFiniteSet(addresses)
  BY DEF LedgersInvariant
<1>2. AttestedIn(g) \in SUBSET addresses /\ RevealedIn(g) \in SUBSET addresses
  BY DEF AttestedIn, RevealedIn
<1> HIDE DEF addresses
<1> QED  BY <1>1, <1>2, FS_Subset

LEMMA SameFlags ==
    ASSUME FlagsKept, NEW g
    PROVE  AttestedIn(g)' = AttestedIn(g) /\ RevealedIn(g)' = RevealedIn(g)
BY DEF FlagsKept, AttestedIn, RevealedIn

LEMMA CountsKept ==
    ASSUME CountsAreOfOwnEntries, NEW g \in DOMAIN giveaways, NEW settled,
           GiveawayEffect(g, settled, giveaways[g].attested_count,
                          giveaways[g].provider_uploaded_count),
           FlagsKept
    PROVE  CountsAreOfOwnEntries'
<1>1. DOMAIN giveaways' = DOMAIN giveaways
  BY DEF GiveawayEffect
<1>2. ASSUME NEW h \in DOMAIN giveaways
      PROVE  /\ giveaways'[h].attested_count = Entered(h, "attested_uploaded")'
             /\ giveaways'[h].provider_uploaded_count = Entered(h, "reveal_included")'
  <2>1. /\ giveaways'[h].attested_count = giveaways[h].attested_count
        /\ giveaways'[h].provider_uploaded_count = giveaways[h].provider_uploaded_count
    BY DEF GiveawayEffect
  <2>2. /\ Entered(h, "attested_uploaded")' = Entered(h, "attested_uploaded")
        /\ Entered(h, "reveal_included")' = Entered(h, "reveal_included")
    BY EnteredFlags, SameFlags
  <2> QED  BY <2>1, <2>2 DEF CountsAreOfOwnEntries
<1> QED  BY <1>1, <1>2 DEF CountsAreOfOwnEntries

\* An attestation is of an entry in this giveaway that was not attested.
LEMMA AttestCounts ==
    ASSUME TypeOK, LedgersInvariant, CountsAreOfOwnEntries, NEW g \in DOMAIN giveaways,
           NEW e \in DOMAIN entries, NEW w, AttestUploaded(g, e, w)
    PROVE  CountsAreOfOwnEntries'
<1>1. /\ entries' = [entries EXCEPT ![e].attested_uploaded = TRUE]
      /\ entries[e].giveaway = g /\ ~entries[e].attested_uploaded
  BY DEF AttestUploaded, LinkedEntry
<1>2. e[1] = g
  BY <1>1 DEF TypeOK
<1>3. /\ DOMAIN entries' = DOMAIN entries
      /\ entries'[e].attested_uploaded
      /\ \A x \in DOMAIN entries :
            /\ entries'[x].reveal_included = entries[x].reveal_included
            /\ x # e => entries'[x] = entries[x]
  <2>1. \A x \in DOMAIN entries : entries[x] \in EntryType
    BY DEF TypeOK
  <2> QED  BY <1>1, <2>1 DEF EntryType
<1>4. \A h : RevealedIn(h)' = RevealedIn(h)
  BY <1>3 DEF RevealedIn
<1>5. \A h : h # g => AttestedIn(h)' = AttestedIn(h)
  BY <1>2, <1>3 DEF AttestedIn
<1>6. AttestedIn(g)' = AttestedIn(g) \cup {e} /\ e \notin AttestedIn(g)
  BY <1>1, <1>2, <1>3 DEF AttestedIn
<1>7. Cardinality(AttestedIn(g)') = Cardinality(AttestedIn(g)) + 1
  <2>1. IsFiniteSet(AttestedIn(g))
    BY FlaggedFinite
  <2> QED  BY <1>6, <2>1, FS_AddElement
<1>8. GiveawayEffect(g, giveaways[g].settled, giveaways[g].attested_count + 1,
                     giveaways[g].provider_uploaded_count)
  BY AttestEffect
<1>9. ASSUME NEW h \in DOMAIN giveaways
      PROVE  /\ giveaways'[h].attested_count = Entered(h, "attested_uploaded")'
             /\ giveaways'[h].provider_uploaded_count = Entered(h, "reveal_included")'
  <2>1. /\ giveaways[h].attested_count = Cardinality(AttestedIn(h))
        /\ giveaways[h].provider_uploaded_count = Cardinality(RevealedIn(h))
    BY EnteredFlags DEF CountsAreOfOwnEntries
  <2>2. giveaways'[h].provider_uploaded_count = giveaways[h].provider_uploaded_count
    BY <1>8 DEF GiveawayEffect
  <2>3. giveaways'[h].attested_count = Cardinality(AttestedIn(h)')
    <3>1. CASE h = g
      BY <1>7, <1>8, <2>1, <3>1 DEF GiveawayEffect
    <3>2. CASE h # g
      BY <1>5, <1>8, <2>1, <3>2 DEF GiveawayEffect
    <3> QED  BY <3>1, <3>2
  <2> QED  BY <1>4, <2>1, <2>2, <2>3, EnteredFlags
<1>10. DOMAIN giveaways' = DOMAIN giveaways
  BY <1>8 DEF GiveawayEffect
<1> QED  BY <1>9, <1>10 DEF CountsAreOfOwnEntries

\* A batch is of entries in this giveaway that were not included.
LEMMA UploadCounts ==
    ASSUME TypeOK, LedgersInvariant, CountsAreOfOwnEntries, NEW g \in DOMAIN giveaways,
           NEW batch \in SUBSET DOMAIN entries, NEW by_authority \in BOOLEAN,
           UploadReveals(g, batch, by_authority)
    PROVE  CountsAreOfOwnEntries'
<1>1. /\ entries' = Marked(batch, "reveal_included")
      /\ \A e \in batch : OwnedEntry(g, e) /\ ~entries[e].reveal_included
  BY DEF UploadReveals
<1>2. \A e \in batch : e[1] = g
  BY <1>1 DEF OwnedEntry
<1>3. /\ DOMAIN entries' = DOMAIN entries
      /\ \A x \in DOMAIN entries :
            /\ entries'[x].attested_uploaded = entries[x].attested_uploaded
            /\ entries'[x].reveal_included = (entries[x].reveal_included \/ x \in batch)
  <2>1. DOMAIN entries' = DOMAIN entries
    BY <1>1 DEF Marked
  <2>2. \A x \in DOMAIN entries :
            /\ entries'[x].attested_uploaded = entries[x].attested_uploaded
            /\ entries'[x].reveal_included = (entries[x].reveal_included \/ x \in batch)
    BY <1>1, MarkingEntry
  <2> QED  BY <2>1, <2>2, Zenon
<1>4. \A h : AttestedIn(h)' = AttestedIn(h)
  BY <1>3 DEF AttestedIn
<1>5. \A h : h # g => RevealedIn(h)' = RevealedIn(h)
  BY <1>2, <1>3 DEF RevealedIn
<1>6. RevealedIn(g)' = RevealedIn(g) \cup batch /\ RevealedIn(g) \cap batch = {}
  BY <1>1, <1>2, <1>3 DEF RevealedIn
<1>7. /\ Cardinality(RevealedIn(g)') = Cardinality(RevealedIn(g)) + Cardinality(batch)
  <2>1. IsFiniteSet(RevealedIn(g))
    BY FlaggedFinite
  <2>2. IsFiniteSet(batch)
    BY FS_Subset DEF LedgersInvariant
  <2>3. Cardinality(RevealedIn(g) \cap batch) = 0
    BY <1>6, FS_EmptySet
  <2>4. Cardinality(RevealedIn(g) \cup batch) = Cardinality(RevealedIn(g))
            + Cardinality(batch) - Cardinality(RevealedIn(g) \cap batch)
    BY <2>1, <2>2, FS_Union
  <2>5. Cardinality(RevealedIn(g)) \in Nat /\ Cardinality(batch) \in Nat
    BY <2>1, <2>2, FS_CardinalityType
  <2> QED  BY <1>6, <2>3, <2>4, <2>5
<1>8. GiveawayEffect(g, giveaways[g].settled, giveaways[g].attested_count,
                giveaways[g].provider_uploaded_count + Cardinality(batch))
  BY UploadEffect
<1>9. ASSUME NEW h \in DOMAIN giveaways
      PROVE  /\ giveaways'[h].attested_count = Entered(h, "attested_uploaded")'
             /\ giveaways'[h].provider_uploaded_count = Entered(h, "reveal_included")'
  <2>1. /\ giveaways[h].attested_count = Cardinality(AttestedIn(h))
        /\ giveaways[h].provider_uploaded_count = Cardinality(RevealedIn(h))
    BY EnteredFlags DEF CountsAreOfOwnEntries
  <2>2. giveaways'[h].attested_count = giveaways[h].attested_count
    BY <1>8 DEF GiveawayEffect
  <2>3. giveaways'[h].provider_uploaded_count = Cardinality(RevealedIn(h)')
    <3>1. CASE h = g
      BY <1>7, <1>8, <2>1, <3>1 DEF GiveawayEffect
    <3>2. CASE h # g
      BY <1>5, <1>8, <2>1, <3>2 DEF GiveawayEffect
    <3> QED  BY <3>1, <3>2
  <2> QED  BY <1>4, <2>1, <2>2, <2>3, EnteredFlags
<1>10. DOMAIN giveaways' = DOMAIN giveaways
  BY <1>8 DEF GiveawayEffect
<1> QED  BY <1>9, <1>10 DEF CountsAreOfOwnEntries

\* Nobody has entered a giveaway that does not exist.
LEMMA CreateCounts ==
    ASSUME TypeOK, CountsAreOfOwnEntries,
           NEW c \in Creators, NEW id \in 1..MaxGiveaways, NEW total \in Payouts,
           NEW n \in WinnerCounts, CreateGiveaway(c, id, total, n)
    PROVE  CountsAreOfOwnEntries'
<1>1. /\ UNCHANGED entries
      /\ giveaways' = Put(giveaways, id, NewGiveaway(id, c, total, n))
      /\ id \notin DOMAIN giveaways
  BY DEF CreateGiveaway
<1>2. \A h : AttestedIn(h)' = AttestedIn(h) /\ RevealedIn(h)' = RevealedIn(h)
  BY <1>1 DEF AttestedIn, RevealedIn
<1>3. AttestedIn(id) = {} /\ RevealedIn(id) = {}
  <2>1. \A e \in DOMAIN entries : e[1] \in DOMAIN giveaways
    BY DEF TypeOK
  <2> QED  BY <1>1, <2>1 DEF AttestedIn, RevealedIn
<1>4. /\ DOMAIN giveaways' = DOMAIN giveaways \cup {id}
      /\ giveaways'[id].attested_count = 0 /\ giveaways'[id].provider_uploaded_count = 0
      /\ \A h \in DOMAIN giveaways : giveaways'[h] = giveaways[h]
  BY <1>1 DEF Put, NewGiveaway
<1>5. ASSUME NEW h \in DOMAIN giveaways'
      PROVE  /\ giveaways'[h].attested_count = Entered(h, "attested_uploaded")'
             /\ giveaways'[h].provider_uploaded_count = Entered(h, "reveal_included")'
  <2>1. CASE h = id
    BY <1>2, <1>3, <1>4, <2>1, FS_EmptySet, EnteredFlags
  <2>2. CASE h # id
    BY <1>2, <1>4, <2>2, EnteredFlags DEF CountsAreOfOwnEntries
  <2> QED  BY <2>1, <2>2
<1> QED  BY <1>5 DEF CountsAreOfOwnEntries

\* Steps that attest and include nothing.
LEMMA QuietCounts ==
    ASSUME LedgersInvariant, CountsAreOfOwnEntries, NEW g \in DOMAIN giveaways, FlagsKept,
           \/ NoEffect(g)
           \/ \E complete \in BOOLEAN :
                    giveaways' = [giveaways EXCEPT ![g].settled = complete]
    PROVE  CountsAreOfOwnEntries'
<1>1. CASE NoEffect(g)
  BY <1>1, CountsKept DEF NoEffect
<1>2. ASSUME NEW complete \in BOOLEAN, giveaways' = [giveaways EXCEPT ![g].settled = complete]
      PROVE  CountsAreOfOwnEntries'
  BY <1>2, SettleEffect, CountsKept
<1> QED  BY <1>1, <1>2

LEMMA EntryCounts ==
    ASSUME TypeOK, LedgersInvariant, CountsAreOfOwnEntries, NEW g \in DOMAIN giveaways,
           EntryStep(g)
    PROVE  CountsAreOfOwnEntries'
<1>1. CASE WindowCloses(g)
  <2>1. UNCHANGED entries
    BY <1>1 DEF WindowCloses
  <2>2. UNCHANGED giveaways \/ giveaways' = [giveaways EXCEPT ![g].remediation = "expired"]
    BY <1>1 DEF WindowCloses
  <2>3. NoEffect(g)
    BY <2>2, SameGiveaways, FlagEffect
  <2> QED  BY <2>1, <2>3, QuietFlags, QuietCounts
<1>2. ASSUME NEW w \in Wallets, NEW c \in Commitments, Participate(g, w, c)
      PROVE  CountsAreOfOwnEntries'
  <2>1. NoEffect(g) /\ FlagsKept
    BY <1>2, ParticipateEffect, ParticipateFlags
  <2> QED  BY <2>1, QuietCounts
<1>3. ASSUME NEW e \in DOMAIN entries, NEW c \in Creators, DisqualifyParticipant(g, e, c)
      PROVE  CountsAreOfOwnEntries'
  <2>1. UNCHANGED giveaways /\ entries' = [entries EXCEPT ![e].disqualified = TRUE]
    BY <1>3 DEF DisqualifyParticipant
  <2>2. NoEffect(g) /\ FlagsKept
    BY <2>1, SameGiveaways, QuietFlags
  <2> QED  BY <2>2, QuietCounts
<1>4. ASSUME NEW e \in DOMAIN entries, NEW w \in Wallets, AttestUploaded(g, e, w)
      PROVE  CountsAreOfOwnEntries'
  BY <1>4, AttestCounts
<1>5. ASSUME NEW batch \in SUBSET DOMAIN entries, NEW by_authority \in BOOLEAN,
             UploadReveals(g, batch, by_authority)
      PROVE  CountsAreOfOwnEntries'
  BY <1>5, UploadCounts
<1> QED  BY <1>1, <1>2, <1>3, <1>4, <1>5 DEF EntryStep

LEMMA SettlementCounts ==
    ASSUME TypeOK, LedgersInvariant, CountsAreOfOwnEntries, NEW g \in DOMAIN giveaways,
           NEW v \in DOMAIN vaults,
           SettlementStep(g, v)
    PROVE  CountsAreOfOwnEntries'
<1>1. CASE FinalizeOpensRemediation(g, v)
  <2>1. UNCHANGED entries /\ giveaways' = [giveaways EXCEPT ![g].remediation = "open"]
    BY <1>1 DEF FinalizeOpensRemediation
  <2> QED  BY <2>1, FlagEffect, QuietFlags, QuietCounts
<1>2. ASSUME NEW chunk \in SUBSET DOMAIN entries, FinalizeChunk(g, v, chunk)
      PROVE  CountsAreOfOwnEntries'
  <2>1. entries' = Marked(chunk, "finalized")
    BY <1>2 DEF FinalizeChunk
  <2>2. NoEffect(g) /\ FlagsKept
    BY <1>2, <2>1, FinalizeEffect, QuietFlags
  <2> QED  BY <2>2, QuietCounts
<1>3. ASSUME NEW c \in Creators, SettleGiveaway(g, v, c)
      PROVE  CountsAreOfOwnEntries'
  <2>1. UNCHANGED entries /\ giveaways' = [giveaways EXCEPT ![g].settled = TRUE]
    BY <1>3 DEF SettleGiveaway
  <2> QED  BY <2>1, QuietFlags, QuietCounts
<1>4. ASSUME NEW c \in Creators, NEW l \in DOMAIN ledgers, LockWinners(g, l, c)
      PROVE  CountsAreOfOwnEntries'
  <2>1. UNCHANGED entries /\ giveaways' = [giveaways EXCEPT ![g].winners_locked = TRUE]
    BY <1>4 DEF LockWinners
  <2> QED  BY <2>1, FlagEffect, QuietFlags, QuietCounts
<1>5. ASSUME NEW c \in Creators, NEW l \in DOMAIN ledgers,
             NEW batch \in SUBSET ledgers[l].winner_wallets,
             SettlePayoutBatch(g, v, l, c, batch)
      PROVE  CountsAreOfOwnEntries'
  <2> DEFINE complete == (ledgers[l].paid \cup batch = ledgers[l].winner_wallets)
  <2>1. UNCHANGED entries /\ giveaways' = [giveaways EXCEPT ![g].settled = complete]
    BY <1>5 DEF SettlePayoutBatch
  <2>2. complete \in BOOLEAN
    OBVIOUS
  <2> HIDE DEF complete
  <2> QED  BY <2>1, <2>2, QuietFlags, QuietCounts
<1> QED  BY <1>1, <1>2, <1>3, <1>4, <1>5 DEF SettlementStep

LEMMA CountsStep ==
    ASSUME ReceiptInvariant, LedgersInvariant, CountsAreOfOwnEntries, [Next]_vars
    PROVE  CountsAreOfOwnEntries'
<1>1. CASE IdleStep
  BY <1>1, IdleFrame DEF CountsAreOfOwnEntries, Entered
<1> QED  BY <1>1, ProgramCases, CreateCounts, EntryCounts, SettlementCounts
         DEF ReceiptInvariant

\* For any number of giveaways, whatever Participant accounts the instructions
\* are given, the counters that open the settlement of a giveaway count its
\* own attestations and reveals.
THEOREM CountsAreOwn == Spec => []CountsAreOfOwnEntries
<1>1. Init => CountsAreOfOwnEntries
  BY DEF Init, CountsAreOfOwnEntries
<1>2. ReceiptInvariant /\ LedgersInvariant /\ CountsAreOfOwnEntries /\ [Next]_vars
      => CountsAreOfOwnEntries'
  BY CountsStep
<1> QED  BY <1>1, <1>2, ReceiptInvariantHolds, LedgersInvariantHolds, PTL DEF Spec

-----------------------------------------------------------------------------
(* What makes each giveaway an escrow *)

\* The fee is a part of the total, at every rate that is accepted.
LEMMA FeeIsPart ==
    ASSUME NEW total \in Nat, NEW bps \in Nat, bps <= MAX_SERVICE_FEE_BPS
    PROVE  (total * bps) \div 10000 \in 0..total
<1>1. \A a, b, c \in Nat : b <= c => a * b \in Nat /\ a * b <= a * c
  OBVIOUS
<1>2. total * bps \in Nat /\ total * bps <= total * 10000
  BY <1>1 DEF MAX_SERVICE_FEE_BPS
<1> DEFINE product == total * bps
           fee == product \div 10000
<1> HIDE DEF product
<1>3. product \in Nat /\ product <= total * 10000
  BY <1>2 DEF product
<1>4. fee \in Nat /\ fee * 10000 <= product
  BY <1>3
<1> HIDE DEF fee
<1>5. fee <= total
  BY <1>3, <1>4
<1> QED  BY <1>4, <1>5 DEF fee, product

LEMMA FeeOfIsPart ==
    ASSUME LedgersInvariant, EscrowsInvariant, NEW g \in DOMAIN giveaways
    PROVE  /\ giveaways[g].total_payout_lamports \in Nat
           /\ FeeOf(g) \in 0..giveaways[g].total_payout_lamports
<1> DEFINE total == giveaways[g].total_payout_lamports
           bps == giveaways[g].service_fee_bps
<1>1. giveaways[g] \in GiveawayType
  BY DEF LedgersInvariant, AccountsTyped
<1>2. total \in Nat /\ bps \in Nat
  BY <1>1 DEF GiveawayType
<1>3. bps <= MAX_SERVICE_FEE_BPS
  BY DEF EscrowsInvariant
<1>4. FeeOf(g) = (total * bps) \div 10000
  BY DEF FeeOf
<1> HIDE DEF total, bps
<1>5. (total * bps) \div 10000 \in 0..total
  BY <1>2, <1>3, FeeIsPart
<1> QED  BY <1>2, <1>4, <1>5 DEF total

\* Nobody is both attested and disqualified.
Eligible == \A e \in DOMAIN entries :
                ~(entries[e].attested_uploaded /\ entries[e].disqualified)

LEMMA ParticipateEligible ==
    ASSUME TypeOK, Eligible, NEW g, NEW w, NEW c, Participate(g, w, c)
    PROVE  Eligible'
<1> DEFINE e == <<g, w>>
<1>1. CASE e \in DOMAIN entries
  <2>1. entries' = [entries EXCEPT ![e].commitment_hash = c]
    BY <1>1 DEF Participate
  <2>2. \A x \in DOMAIN entries : entries[x] \in EntryType
    BY DEF TypeOK
  <2>3. \A x \in DOMAIN entries :
            /\ entries'[x].attested_uploaded = entries[x].attested_uploaded
            /\ entries'[x].disqualified = entries[x].disqualified
    BY <2>1, <2>2 DEF EntryType
  <2>4. DOMAIN entries' = DOMAIN entries
    BY <2>1
  <2> QED  BY <2>3, <2>4 DEF Eligible
<1>2. CASE e \notin DOMAIN entries
  <2>1. entries' = Put(entries, e, NewEntry(g, w, c))
    BY <1>2 DEF Participate
  <2> QED  BY <1>2, <2>1 DEF Eligible, Put, NewEntry
<1> QED  BY <1>1, <1>2

\* Who is disqualified in the entry window is not attested before it ends.
LEMMA DisqualifyEligible ==
    ASSUME ReceiptInvariant, Eligible, NEW g, NEW e \in DOMAIN entries, NEW c,
           DisqualifyParticipant(g, e, c)
    PROVE  Eligible'
<1>1. /\ entries' = [entries EXCEPT ![e].disqualified = TRUE]
      /\ entries[e].giveaway = g /\ window[g] = "active"
  BY DEF DisqualifyParticipant, LinkedEntry
<1>2. ~entries[e].attested_uploaded
  BY <1>1 DEF ReceiptInvariant
<1>3. \A x \in DOMAIN entries : entries[x] \in EntryType
  BY DEF ReceiptInvariant, TypeOK
<1>4. /\ DOMAIN entries' = DOMAIN entries
      /\ entries'[e].attested_uploaded = entries[e].attested_uploaded
      /\ \A x \in DOMAIN entries : x # e => entries'[x] = entries[x]
  BY <1>1, <1>3 DEF EntryType
<1> QED  BY <1>2, <1>4 DEF Eligible

LEMMA AttestEligible ==
    ASSUME TypeOK, Eligible, NEW g, NEW e \in DOMAIN entries, NEW w,
           AttestUploaded(g, e, w)
    PROVE  Eligible'
<1>1. /\ entries' = [entries EXCEPT ![e].attested_uploaded = TRUE]
      /\ ~entries[e].disqualified
  BY DEF AttestUploaded
<1>2. \A x \in DOMAIN entries : entries[x] \in EntryType
  BY DEF TypeOK
<1>3. /\ DOMAIN entries' = DOMAIN entries
      /\ entries'[e].disqualified = entries[e].disqualified
      /\ \A x \in DOMAIN entries : x # e => entries'[x] = entries[x]
  BY <1>1, <1>2 DEF EntryType
<1> QED  BY <1>1, <1>3 DEF Eligible

LEMMA MarkedEligible ==
    ASSUME TypeOK, Eligible, NEW addresses, NEW field \in {"reveal_included", "finalized"},
           entries' = Marked(addresses, field)
    PROVE  Eligible'
<1>1. \A x \in DOMAIN entries : entries[x] \in EntryType
  BY DEF TypeOK
<1>2. DOMAIN entries' = DOMAIN entries
  BY DEF Marked
<1>3. ASSUME NEW x \in DOMAIN entries
      PROVE  /\ entries'[x].attested_uploaded = entries[x].attested_uploaded
             /\ entries'[x].disqualified = entries[x].disqualified
  <2> DEFINE r == [entries[x] EXCEPT ![field] = TRUE]
  <2>1. entries'[x] = IF x \in addresses THEN r ELSE entries[x]
    BY DEF Marked
  <2>2. /\ r.attested_uploaded = entries[x].attested_uploaded
        /\ r.disqualified = entries[x].disqualified
    BY <1>1 DEF EntryType
  <2> HIDE DEF r
  <2> QED  BY <2>1, <2>2
<1> QED  BY <1>2, <1>3 DEF Eligible

-----------------------------------------------------------------------------
\* A step of giveaway g that leaves draws and winners alone, and pays the last
\* winner only to settle.
LEMMA EscrowsKept ==
    ASSUME LedgersInvariant, EscrowsInvariant, NEW g \in DOMAIN giveaways, NEW settled,
           NEW attested, NEW uploaded, GiveawayEffect(g, settled, attested, uploaded),
           Eligible', UNCHANGED <<config, draws>>,
           DOMAIN ledgers' = DOMAIN ledgers,
           \A l \in DOMAIN ledgers : l # g => ledgers'[l] = ledgers[l],
           g \in DOMAIN ledgers =>
                /\ ledgers'[g].winner_wallets = ledgers[g].winner_wallets
                /\ settled \/ ledgers'[g].paid # ledgers'[g].winner_wallets
    PROVE  EscrowsInvariant'
<1>1. /\ DOMAIN giveaways' = DOMAIN giveaways
      /\ \A h \in DOMAIN giveaways : h # g => giveaways'[h] = giveaways[h]
      /\ giveaways'[g].settled = settled
      /\ giveaways'[g].service_fee_bps = giveaways[g].service_fee_bps
      /\ giveaways'[g].number_of_winners = giveaways[g].number_of_winners
  BY DEF GiveawayEffect, SameTerms
<1>2. \A h \in DOMAIN giveaways' :
        /\ giveaways'[h].service_fee_bps <= MAX_SERVICE_FEE_BPS
        /\ giveaways'[h].number_of_winners >= MIN_WINNERS
  BY <1>1 DEF EscrowsInvariant
<1>3. ASSUME NEW l \in DOMAIN ledgers'
      PROVE  /\ ledgers'[l].winner_wallets # {}
             /\ giveaways'[l].settled \/ ledgers'[l].paid # ledgers'[l].winner_wallets
  <2>1. l \in DOMAIN giveaways
    BY <1>3 DEF LedgersInvariant
  <2>2. CASE l = g
    BY <1>1, <1>3, <2>2 DEF EscrowsInvariant
  <2>3. CASE l # g
    BY <1>1, <1>3, <2>1, <2>3 DEF EscrowsInvariant
  <2> QED  BY <2>2, <2>3
<1>4. /\ config'.service_fee_bps <= MAX_SERVICE_FEE_BPS
      /\ \A h \in DOMAIN draws' : draws'[h].processed_count > 0 => draws'[h].candidates # {}
  BY DEF EscrowsInvariant
<1> QED  BY <1>2, <1>3, <1>4 DEF EscrowsInvariant, Eligible

\* As above, for a step that leaves the ledgers and its own settled flag alone.
LEMMA EscrowsQuiet ==
    ASSUME LedgersInvariant, EscrowsInvariant, NEW g \in DOMAIN giveaways,
           NEW attested, NEW uploaded,
           GiveawayEffect(g, giveaways[g].settled, attested, uploaded),
           Eligible', UNCHANGED <<config, draws, ledgers>>
    PROVE  EscrowsInvariant'
<1>1. g \in DOMAIN ledgers =>
        giveaways[g].settled \/ ledgers[g].paid # ledgers[g].winner_wallets
  BY DEF EscrowsInvariant
<1> QED  BY <1>1, EscrowsKept

LEMMA EntryEscrows ==
    ASSUME ReceiptInvariant, LedgersInvariant, EscrowsInvariant,
           NEW g \in DOMAIN giveaways, EntryStep(g)
    PROVE  EscrowsInvariant'
<1>0. TypeOK /\ Eligible
  BY DEF ReceiptInvariant, EscrowsInvariant, Eligible
<1>1. CASE WindowCloses(g)
  <2>1. UNCHANGED <<config, entries, draws, ledgers>>
    BY <1>1 DEF WindowCloses
  <2>2. UNCHANGED giveaways \/ giveaways' = [giveaways EXCEPT ![g].remediation = "expired"]
    BY <1>1 DEF WindowCloses
  <2>3. NoEffect(g)
    BY <2>2, SameGiveaways, FlagEffect
  <2>4. Eligible'
    BY <1>0, <2>1 DEF Eligible
  <2> QED  BY <2>1, <2>3, <2>4, EscrowsQuiet DEF NoEffect
<1>2. ASSUME NEW w \in Wallets, NEW c \in Commitments, Participate(g, w, c)
      PROVE  EscrowsInvariant'
  <2>1. UNCHANGED <<config, draws, ledgers>>
    BY <1>2 DEF Participate, EntryFrame
  <2>2. NoEffect(g)
    BY <1>2, ParticipateEffect
  <2>3. Eligible'
    BY <1>0, <1>2, ParticipateEligible
  <2> QED  BY <2>1, <2>2, <2>3, EscrowsQuiet DEF NoEffect
<1>3. ASSUME NEW e \in DOMAIN entries, NEW c \in Creators, DisqualifyParticipant(g, e, c)
      PROVE  EscrowsInvariant'
  <2>1. UNCHANGED <<config, giveaways, draws, ledgers>>
    BY <1>3 DEF DisqualifyParticipant, EntryFrame
  <2>2. NoEffect(g)
    BY <2>1, SameGiveaways
  <2>3. Eligible'
    BY <1>0, <1>3, DisqualifyEligible
  <2> QED  BY <2>1, <2>2, <2>3, EscrowsQuiet DEF NoEffect
<1>4. ASSUME NEW e \in DOMAIN entries, NEW w \in Wallets, AttestUploaded(g, e, w)
      PROVE  EscrowsInvariant'
  <2>1. UNCHANGED <<config, draws, ledgers>>
    BY <1>4 DEF AttestUploaded, EntryFrame
  <2>2. GiveawayEffect(g, giveaways[g].settled, giveaways[g].attested_count + 1,
                       giveaways[g].provider_uploaded_count)
    BY <1>4, AttestEffect
  <2>3. Eligible'
    BY <1>0, <1>4, AttestEligible
  <2> QED  BY <2>1, <2>2, <2>3, EscrowsQuiet
<1>5. ASSUME NEW batch \in SUBSET DOMAIN entries, NEW by_authority \in BOOLEAN,
             UploadReveals(g, batch, by_authority)
      PROVE  EscrowsInvariant'
  <2>1. UNCHANGED <<config, draws, ledgers>> /\ entries' = Marked(batch, "reveal_included")
    BY <1>5 DEF UploadReveals, EntryFrame
  <2>2. GiveawayEffect(g, giveaways[g].settled, giveaways[g].attested_count,
                giveaways[g].provider_uploaded_count + Cardinality(batch))
    BY <1>5, UploadEffect
  <2>3. Eligible'
    BY <1>0, <2>1, MarkedEligible
  <2> QED  BY <2>1, <2>2, <2>3, EscrowsQuiet
<1> QED  BY <1>1, <1>2, <1>3, <1>4, <1>5 DEF EntryStep

-----------------------------------------------------------------------------
\* A step that draws no winners leaves the ledgers alone; a draw that has
\* processed entries has candidates, as those entries are all eligible.
LEMMA ChunkDraw ==
    ASSUME TypeOK, LedgersInvariant, EscrowsInvariant, NEW g \in DOMAIN giveaways, NEW v,
           NEW chunk \in SUBSET DOMAIN entries, FinalizeChunk(g, v, chunk)
    PROVE  \E d \in DrawType :
                /\ draws' = Put(draws, g, d)
                /\ d.processed_count > 0 => d.candidates # {}
                /\ d.completed => d.processed_count > 0
<1> DEFINE draw == AllocatedDraw(g)
           processed == draw.processed_count + Cardinality(chunk)
           candidates == draw.candidates \cup {entries[e].wallet :
                                e \in {f \in chunk : ~entries[f].disqualified}}
           completed == (processed = giveaways[g].provider_uploaded_count)
           d == [processed_count |-> processed, candidates |-> candidates,
                 completed |-> completed]
<1>1. draw \in DrawType /\ (draw.processed_count > 0 => draw.candidates # {})
  <2>1. CASE g \in DOMAIN draws
    BY <2>1 DEF AllocatedDraw, LedgersInvariant, AccountsTyped, EscrowsInvariant
  <2>2. CASE g \notin DOMAIN draws
    BY <2>2 DEF AllocatedDraw, DrawType
  <2> QED  BY <2>1, <2>2
<1>2. Cardinality(chunk) \in Nat /\ IsFiniteSet(chunk)
  BY FS_Subset, FS_CardinalityType DEF LedgersInvariant
<1>3. draw.processed_count \in Nat
  BY <1>1 DEF DrawType
<1>4. ASSUME NEW e \in chunk
      PROVE  entries[e].wallet \in candidates /\ entries[e].wallet \in Wallets
  <2>1. entries[e].reveal_included
    BY DEF FinalizeChunk
  <2>2. ~entries[e].disqualified
    BY <2>1 DEF LedgersInvariant, EscrowsInvariant
  <2>3. entries[e].wallet \in Wallets
    BY DEF TypeOK, EntryType
  <2> QED  BY <2>2, <2>3
<1>5. candidates \in SUBSET Wallets
  BY <1>1, <1>4 DEF DrawType
<1>6. processed > 0 => candidates # {}
  <2>1. CASE chunk = {}
    <3>1. Cardinality(chunk) = 0
      BY <2>1, FS_EmptySet
    <3> QED  BY <1>1, <1>3, <3>1
  <2>2. CASE chunk # {}
    BY <1>4, <2>2
  <2> QED  BY <2>1, <2>2
<1>7. completed => processed > 0
  <2>1. /\ giveaways[g].attested_count > 0
        /\ ~(giveaways[g].provider_uploaded_count < giveaways[g].attested_count)
    BY DEF FinalizeChunk, FinalizeGuard, HasMissingAttestedReveals
  <2>2. giveaways[g] \in GiveawayType
    BY DEF LedgersInvariant, AccountsTyped
  <2>3. giveaways[g].provider_uploaded_count > 0
    BY <2>1, <2>2 DEF GiveawayType
  <2> QED  BY <2>3
<1>8. draws' = Put(draws, g, d)
  BY DEF FinalizeChunk
<1>9. completed \in BOOLEAN /\ processed \in Nat
  BY <1>2, <1>3
<1> HIDE DEF completed, candidates, processed
<1>10. /\ d \in DrawType /\ d.candidates = candidates /\ d.completed = completed
       /\ d.processed_count = processed
  BY <1>5, <1>9 DEF DrawType
<1> HIDE DEF d
<1> QED  BY <1>6, <1>7, <1>8, <1>10

LEMMA SmallerPositive ==
    ASSUME NEW a \in Nat \ {0}, NEW b \in Nat \ {0}
    PROVE  Min({a, b}) \in Nat \ {0}
<1>1. \E x \in {a, b} : \A y \in {a, b} : x <= y
  OBVIOUS
<1> QED  BY <1>1 DEF Min

\* Published winners share what is left after the fee, one lamport at least.
LEMMA PublishedShares ==
    ASSUME LedgersInvariant, EscrowsInvariant, NEW g \in DOMAIN giveaways,
           NEW candidates \in SUBSET Wallets,
           candidates # {}, IsFiniteSet(candidates), PublishWinners(g, candidates)
    PROVE  \E winners \in SUBSET candidates, share \in Nat :
                /\ ledgers' = Put(ledgers, g, NewLedger(g, winners, share))
                /\ winners # {} /\ share > 0
                /\ share * Cardinality(winners) + FeeOf(g)
                        <= giveaways[g].total_payout_lamports
<1> DEFINE n == giveaways[g].number_of_winners
           total == giveaways[g].total_payout_lamports
           count == Min({Cardinality(candidates), n})
           pool == total - FeeOf(g)
           share == IF count = 0 THEN 0 ELSE pool \div count
<1>1. PICK winners \in kSubset(count, candidates) :
        ledgers' = Put(ledgers, g, NewLedger(g, winners, share))
  BY DEF PublishWinners
<1>2. winners \in SUBSET candidates /\ Cardinality(winners) = count
  BY DEF kSubset
<1>3. total \in Nat /\ FeeOf(g) \in 0..total
  BY FeeOfIsPart
<1>4. n \in Nat \ {0}
  <2>1. giveaways[g] \in GiveawayType
    BY DEF LedgersInvariant, AccountsTyped
  <2> QED  BY <2>1 DEF GiveawayType, EscrowsInvariant, MIN_WINNERS
<1>5. Cardinality(candidates) \in Nat \ {0}
  BY FS_CardinalityType, FS_EmptySet
<1>6. count \in Nat \ {0}
  BY <1>4, <1>5, SmallerPositive
<1>7. pool \in Nat
  BY <1>3
<1>8. count > 0 => share >= MIN_WINNER_PAYOUT_LAMPORTS
  BY DEF PublishWinners
<1> HIDE DEF count, pool, total
<1>9. share = pool \div count /\ share \in Nat /\ share > 0
  BY <1>6, <1>7, <1>8 DEF MIN_WINNER_PAYOUT_LAMPORTS
<1>10. share * count <= pool
  BY <1>6, <1>7, <1>9
<1>11. winners # {}
  BY <1>2, <1>6, FS_EmptySet
<1>12. share * Cardinality(winners) + FeeOf(g) <= total
  <2> DEFINE paid == share * count
  <2>1. \A a, b \in Nat : a * b \in Nat
    OBVIOUS
  <2>2. paid \in Nat /\ paid <= pool
    BY <1>6, <1>9, <1>10, <2>1
  <2> HIDE DEF paid, share
  <2>3. paid + FeeOf(g) <= total
    BY <1>3, <2>2 DEF pool
  <2> QED  BY <1>2, <2>3 DEF paid
<1> QED  BY <1>1, <1>2, <1>9, <1>11, <1>12 DEF total

\* What a chunk publishes, if it is the last.
LEMMA ChunkOutcome ==
    ASSUME TypeOK, LedgersInvariant, EscrowsInvariant, NEW g \in DOMAIN giveaways, NEW v,
           NEW chunk \in SUBSET DOMAIN entries, FinalizeChunk(g, v, chunk)
    PROVE  \/ ledgers' = ledgers
           \/ \E winners \in SUBSET Wallets, share \in Nat :
                /\ ledgers' = Put(ledgers, g, NewLedger(g, winners, share))
                /\ winners # {} /\ share > 0
                /\ share * Cardinality(winners) + FeeOf(g)
                        <= giveaways[g].total_payout_lamports
<1>1. PICK d \in DrawType :
        /\ draws' = Put(draws, g, d)
        /\ \A w \in d.candidates : IncludedIn(g, w)
        /\ IF d.completed THEN PublishWinners(g, d.candidates) ELSE UNCHANGED ledgers
  BY ChunkCandidates
<1>2. PICK c \in DrawType :
        /\ draws' = Put(draws, g, c)
        /\ c.processed_count > 0 => c.candidates # {}
        /\ c.completed => c.processed_count > 0
  BY ChunkDraw
<1>3. draws'[g] = d /\ draws'[g] = c
  BY <1>1, <1>2 DEF Put
<1>4. d.completed => d.candidates # {}
  BY <1>2, <1>3
<1>5. d.candidates \in SUBSET Wallets
  BY DEF DrawType
<1>6. IsFiniteSet(d.candidates)
  BY <1>1, FewWallets DEF IncludedIn
<1>7. CASE d.completed
  <2>1. PICK winners \in SUBSET d.candidates, share \in Nat :
            /\ ledgers' = Put(ledgers, g, NewLedger(g, winners, share))
            /\ winners # {} /\ share > 0
            /\ share * Cardinality(winners) + FeeOf(g)
                    <= giveaways[g].total_payout_lamports
    BY <1>1, <1>4, <1>5, <1>6, <1>7, PublishedShares
  <2>2. winners \in SUBSET Wallets
    BY <1>5
  <2> QED  BY <2>1, <2>2, Zenon
<1>8. CASE ~d.completed
  BY <1>1, <1>8
<1> QED  BY <1>7, <1>8

LEMMA ChunkEscrows ==
    ASSUME TypeOK, LedgersInvariant, EscrowsInvariant, NEW g \in DOMAIN giveaways, NEW v,
           NEW chunk \in SUBSET DOMAIN entries, FinalizeChunk(g, v, chunk)
    PROVE  EscrowsInvariant'
<1>1. /\ UNCHANGED config /\ entries' = Marked(chunk, "finalized")
  BY DEF FinalizeChunk, SettlementFrame
<1>2. Eligible'
  BY <1>1, MarkedEligible DEF EscrowsInvariant, Eligible
<1>3. /\ DOMAIN giveaways' = DOMAIN giveaways
      /\ \A h \in DOMAIN giveaways :
            /\ giveaways'[h].settled = giveaways[h].settled
            /\ giveaways'[h].service_fee_bps = giveaways[h].service_fee_bps
            /\ giveaways'[h].number_of_winners = giveaways[h].number_of_winners
  BY FinalizeEffect DEF NoEffect, GiveawayEffect, SameTerms
<1>4. \A h \in DOMAIN draws' : draws'[h].processed_count > 0 => draws'[h].candidates # {}
  <2>1. PICK d \in DrawType :
            /\ draws' = Put(draws, g, d) /\ (d.processed_count > 0 => d.candidates # {})
    BY ChunkDraw
  <2> QED  BY <2>1 DEF Put, EscrowsInvariant
<1>5. g \notin DOMAIN ledgers
  BY ChunkLedgers
<1>6. ASSUME NEW l \in DOMAIN ledgers'
      PROVE  /\ ledgers'[l].winner_wallets # {}
             /\ giveaways'[l].settled \/ ledgers'[l].paid # ledgers'[l].winner_wallets
  <2>1. CASE ledgers' = ledgers
    <3>1. l \in DOMAIN giveaways
      BY <1>6, <2>1 DEF LedgersInvariant
    <3> QED  BY <1>3, <1>6, <2>1, <3>1 DEF EscrowsInvariant
  <2>2. ASSUME NEW winners \in SUBSET Wallets, NEW share \in Nat, winners # {},
               ledgers' = Put(ledgers, g, NewLedger(g, winners, share))
        PROVE  /\ ledgers'[l].winner_wallets # {}
               /\ giveaways'[l].settled \/ ledgers'[l].paid # ledgers'[l].winner_wallets
    <3>1. CASE l = g
      BY <2>2, <3>1 DEF Put, NewLedger
    <3>2. CASE l # g
      <4>1. l \in DOMAIN ledgers /\ ledgers'[l] = ledgers[l]
        BY <1>6, <2>2, <3>2 DEF Put
      <4>2. l \in DOMAIN giveaways
        BY <4>1 DEF LedgersInvariant
      <4> QED  BY <1>3, <4>1, <4>2 DEF EscrowsInvariant
    <3> QED  BY <3>1, <3>2
  <2> QED  BY <2>1, <2>2, ChunkOutcome
<1>7. /\ config'.service_fee_bps <= MAX_SERVICE_FEE_BPS
      /\ \A h \in DOMAIN giveaways' :
            /\ giveaways'[h].service_fee_bps <= MAX_SERVICE_FEE_BPS
            /\ giveaways'[h].number_of_winners >= MIN_WINNERS
  BY <1>1, <1>3 DEF EscrowsInvariant
<1> QED  BY <1>2, <1>4, <1>6, <1>7 DEF EscrowsInvariant, Eligible

LEMMA PayoutEscrows ==
    ASSUME LedgersInvariant, EscrowsInvariant, NEW g \in DOMAIN giveaways,
           NEW batch, PayoutStep(g, batch), UNCHANGED config
    PROVE  EscrowsInvariant'
<1>1. /\ g \in DOMAIN ledgers
      /\ UNCHANGED <<entries, draws>>
      /\ ledgers' = [ledgers EXCEPT ![g].paid = ledgers[g].paid \cup batch]
      /\ GiveawayEffect(g, PaysLast(g, batch), giveaways[g].attested_count,
                        giveaways[g].provider_uploaded_count)
  BY DEF PayoutStep
<1>2. ledgers[g] \in LedgerType
  BY <1>1 DEF LedgersInvariant, AccountsTyped
<1>3. /\ DOMAIN ledgers' = DOMAIN ledgers
      /\ \A l \in DOMAIN ledgers : l # g => ledgers'[l] = ledgers[l]
      /\ ledgers'[g].winner_wallets = ledgers[g].winner_wallets
      /\ ledgers'[g].paid = ledgers[g].paid \cup batch
  BY <1>1, <1>2 DEF LedgerType
<1>4. PaysLast(g, batch) \/ ledgers'[g].paid # ledgers'[g].winner_wallets
  BY <1>3 DEF PaysLast
<1>5. Eligible'
  BY <1>1 DEF Eligible, EscrowsInvariant
<1> QED  BY <1>1, <1>3, <1>4, <1>5, EscrowsKept

LEMMA RefundEscrows ==
    ASSUME LedgersInvariant, EscrowsInvariant, NEW g \in DOMAIN giveaways,
           NEW v, NEW c, SettleGiveaway(g, v, c)
    PROVE  EscrowsInvariant'
<1>1. /\ UNCHANGED <<config, entries, draws, ledgers>>
      /\ giveaways' = [giveaways EXCEPT ![g].settled = TRUE]
  BY DEF SettleGiveaway, SettlementFrame
<1>2. GiveawayEffect(g, TRUE, giveaways[g].attested_count,
                     giveaways[g].provider_uploaded_count)
  BY <1>1, SettleEffect
<1>3. Eligible'
  BY <1>1 DEF Eligible, EscrowsInvariant
<1> QED  BY <1>1, <1>2, <1>3, EscrowsKept

LEMMA LockEscrows ==
    ASSUME LedgersInvariant, EscrowsInvariant, NEW g \in DOMAIN giveaways,
           NEW l \in DOMAIN ledgers, NEW c, LockWinners(g, l, c)
    PROVE  EscrowsInvariant'
<1>1. /\ UNCHANGED <<config, entries, draws>> /\ l = g
      /\ giveaways' = [giveaways EXCEPT ![g].winners_locked = TRUE]
      /\ ledgers' = [ledgers EXCEPT ![g].locked = TRUE]
  BY DEF LockWinners, SettlementFrame, LinkedLedger, LedgersInvariant
<1>2. ledgers[g] \in LedgerType
  BY <1>1 DEF LedgersInvariant, AccountsTyped
<1>3. /\ DOMAIN ledgers' = DOMAIN ledgers
      /\ \A h \in DOMAIN ledgers : h # g => ledgers'[h] = ledgers[h]
      /\ ledgers'[g].winner_wallets = ledgers[g].winner_wallets
      /\ ledgers'[g].paid = ledgers[g].paid
  BY <1>1, <1>2 DEF LedgerType
<1>4. giveaways[g].settled \/ ledgers'[g].paid # ledgers'[g].winner_wallets
  BY <1>1, <1>3 DEF EscrowsInvariant
<1>5. NoEffect(g)
  BY <1>1, FlagEffect
<1>6. Eligible'
  BY <1>1 DEF Eligible, EscrowsInvariant
<1> QED  BY <1>1, <1>3, <1>4, <1>5, <1>6, EscrowsKept DEF NoEffect

LEMMA SettlementEscrows ==
    ASSUME TypeOK, LedgersInvariant, EscrowsInvariant, NEW g \in DOMAIN giveaways,
           NEW v \in DOMAIN vaults, SettlementStep(g, v)
    PROVE  EscrowsInvariant'
<1>1. CASE FinalizeOpensRemediation(g, v)
  <2>1. /\ UNCHANGED <<config, entries, draws, ledgers>>
        /\ giveaways' = [giveaways EXCEPT ![g].remediation = "open"]
    BY <1>1 DEF FinalizeOpensRemediation, SettlementFrame
  <2>2. Eligible'
    BY <2>1 DEF Eligible, EscrowsInvariant
  <2> QED  BY <2>1, <2>2, FlagEffect, EscrowsQuiet DEF NoEffect
<1>2. ASSUME NEW c, NEW l \in DOMAIN ledgers,
             NEW batch \in SUBSET ledgers[l].winner_wallets,
             SettlePayoutBatch(g, v, l, c, batch)
      PROVE  EscrowsInvariant'
  <2>1. UNCHANGED config
    BY <1>2 DEF SettlePayoutBatch, SettlementFrame
  <2> QED  BY <1>2, <2>1, PayoutEffect, PayoutEscrows
<1> QED  BY <1>1, <1>2, ChunkEscrows, RefundEscrows, LockEscrows DEF SettlementStep

LEMMA CreateEscrows ==
    ASSUME TypeOK, LedgersInvariant, EscrowsInvariant,
           NEW c \in Creators, NEW id \in 1..MaxGiveaways, NEW total \in Payouts,
           NEW n \in WinnerCounts, CreateGiveaway(c, id, total, n)
    PROVE  EscrowsInvariant'
<1>1. /\ UNCHANGED <<entries, draws, ledgers>>
      /\ giveaways' = Put(giveaways, id, NewGiveaway(id, c, total, n))
      /\ id \notin DOMAIN giveaways /\ n >= MIN_WINNERS
      /\ config' = [config EXCEPT !.next_giveaway_id = @ + 1]
  BY DEF CreateGiveaway, MIN_WINNERS, MAX_WINNERS
<1>2. config'.service_fee_bps = config.service_fee_bps
  BY <1>1 DEF TypeOK
<1>3. /\ DOMAIN giveaways' = DOMAIN giveaways \cup {id}
      /\ giveaways'[id].service_fee_bps = config.service_fee_bps
      /\ giveaways'[id].number_of_winners = n
      /\ \A h \in DOMAIN giveaways : giveaways'[h] = giveaways[h]
  BY <1>1 DEF Put, NewGiveaway
<1>4. \A l \in DOMAIN ledgers : l \in DOMAIN giveaways
  BY DEF LedgersInvariant
<1> QED  BY <1>1, <1>2, <1>3, <1>4 DEF EscrowsInvariant

LEMMA EscrowsStep ==
    ASSUME ReceiptInvariant, LedgersInvariant, EscrowsInvariant, [Next]_vars
    PROVE  EscrowsInvariant'
<1>0. TypeOK
  BY DEF ReceiptInvariant
<1>1. ASSUME NEW bps \in FeeRates, Initialize(bps) \/ UpdateServiceCharge(bps)
      PROVE  EscrowsInvariant'
  <2>1. /\ UNCHANGED <<giveaways, entries, draws, ledgers>> /\ bps <= MAX_SERVICE_FEE_BPS
        /\ config'.service_fee_bps = bps
    BY <1>0, <1>1 DEF Initialize, UpdateServiceCharge, TypeOK
  <2> QED  BY <2>1 DEF EscrowsInvariant
<1>2. CASE UNCHANGED <<config, giveaways, entries, draws, ledgers>>
  BY <1>2 DEF EscrowsInvariant
<1>3. CASE IdleStep
  BY <1>1, <1>2, <1>3 DEF IdleStep, IssueReceipt, EntryFrame, vars
<1> QED  BY <1>0, <1>3, ProgramCases, CreateEscrows, EntryEscrows, SettlementEscrows

\* Only payable terms are accepted, nobody who was disqualified is drawn, a
\* ledger has winners, and the giveaway is settled with its last payment.
THEOREM EscrowsInvariantHolds == Spec => []EscrowsInvariant
<1>1. Init => EscrowsInvariant
  BY DEF Init, EscrowsInvariant, NoConfig, MAX_SERVICE_FEE_BPS
<1>2. ReceiptInvariant /\ LedgersInvariant /\ EscrowsInvariant /\ [Next]_vars
      => EscrowsInvariant'
  BY EscrowsStep
<1> QED  BY <1>1, <1>2, ReceiptInvariantHolds, LedgersInvariantHolds, PTL DEF Spec

-----------------------------------------------------------------------------
(* Each giveaway is an escrow of its own *)

EscrowStays(g) ==
    UNCHANGED <<EscrowStatus(g), HeldFor(g), FeeDue(g), WinnersOf(g), ShareOf(g), PaidOf(g)>>

\* What an instruction on giveaway g may do to the escrows.
OneEscrow(g) ==
    /\ EscrowOf(g)!EscrowNext \/ EscrowStays(g)
    /\ \A h : h # g => EscrowStays(h)

\* What the accounts of a giveaway say about its escrow is as before.
SameAccounts(h) ==
    /\ h \in DOMAIN giveaways' <=> h \in DOMAIN giveaways
    /\ h \in DOMAIN vaults' <=> h \in DOMAIN vaults
    /\ h \in DOMAIN ledgers' <=> h \in DOMAIN ledgers
    /\ h \in DOMAIN giveaways =>
        /\ giveaways'[h].settled = giveaways[h].settled
        /\ giveaways'[h].total_payout_lamports = giveaways[h].total_payout_lamports
        /\ giveaways'[h].service_fee_bps = giveaways[h].service_fee_bps
    /\ h \in DOMAIN vaults => vaults'[h] = vaults[h]
    /\ h \in DOMAIN ledgers =>
        /\ ledgers'[h].winner_wallets = ledgers[h].winner_wallets
        /\ ledgers'[h].per_winner_lamports = ledgers[h].per_winner_lamports
        /\ ledgers'[h].paid = ledgers[h].paid

LEMMA EscrowUntouched ==
    ASSUME LedgersInvariant, NEW h, SameAccounts(h)
    PROVE  EscrowStays(h)
<1>0. \A l \in DOMAIN ledgers : l \in DOMAIN giveaways
  BY DEF LedgersInvariant
<1>1. h \in DOMAIN giveaways => FeeOf(h)' = FeeOf(h)
  BY DEF SameAccounts, FeeOf
<1>2. FeeDue(h)' = FeeDue(h)
  BY <1>1 DEF FeeDue, SameAccounts
<1>3. HeldFor(h)' = HeldFor(h)
  BY DEF HeldFor, SameAccounts
<1>4. WinnersOf(h)' = WinnersOf(h) /\ ShareOf(h)' = ShareOf(h) /\ PaidOf(h)' = PaidOf(h)
  BY DEF WinnersOf, ShareOf, PaidOf, SameAccounts
<1>5. EscrowStatus(h)' = EscrowStatus(h)
  <2>1. CASE h \notin DOMAIN giveaways
    BY <2>1 DEF EscrowStatus, SameAccounts
  <2>2. CASE h \in DOMAIN giveaways
    <3>1. Distributed(h)' <=> Distributed(h)
      BY <2>2 DEF Distributed, SameAccounts
    <3>2. /\ h \in DOMAIN giveaways' /\ giveaways'[h].settled = giveaways[h].settled
          /\ h \in DOMAIN ledgers' <=> h \in DOMAIN ledgers
      BY <2>2 DEF SameAccounts
    <3> QED  BY <2>2, <3>1, <3>2 DEF EscrowStatus
  <2> QED  BY <2>1, <2>2
<1> QED  BY <1>2, <1>3, <1>4, <1>5 DEF EscrowStays

\* A step of giveaway g leaves the escrows of the others alone, where it
\* leaves their vaults and ledgers alone.
LEMMA OtherEscrows ==
    ASSUME LedgersInvariant, NEW g \in DOMAIN giveaways, NEW settled, NEW attested,
           NEW uploaded, GiveawayEffect(g, settled, attested, uploaded),
           DOMAIN vaults' = DOMAIN vaults,
           \A h \in DOMAIN vaults : h # g => vaults'[h] = vaults[h],
           \A h : h # g => /\ h \in DOMAIN ledgers' <=> h \in DOMAIN ledgers
                           /\ h \in DOMAIN ledgers => ledgers'[h] = ledgers[h],
           NEW h, h # g
    PROVE  EscrowStays(h)
<1>1. /\ DOMAIN giveaways' = DOMAIN giveaways
      /\ h \in DOMAIN giveaways => giveaways'[h] = giveaways[h]
  BY DEF GiveawayEffect
<1>2. SameAccounts(h)
  BY <1>1 DEF SameAccounts
<1> QED  BY <1>2, EscrowUntouched

\* Instructions that move no lamports, draw no winners and settle nothing.
LEMMA QuietEscrows ==
    ASSUME LedgersInvariant, NEW g \in DOMAIN giveaways, NEW attested, NEW uploaded,
           GiveawayEffect(g, giveaways[g].settled, attested, uploaded),
           UNCHANGED <<vaults, ledgers>>
    PROVE  OneEscrow(g)
<1>1. \A h : SameAccounts(h)
  BY DEF GiveawayEffect, SameTerms, SameAccounts
<1> QED  BY <1>1, EscrowUntouched DEF OneEscrow

LEMMA EntryOneEscrow ==
    ASSUME TypeOK, LedgersInvariant, NEW g \in DOMAIN giveaways, EntryStep(g)
    PROVE  OneEscrow(g)
<1>1. CASE WindowCloses(g)
  <2>1. UNCHANGED <<vaults, ledgers>>
    BY <1>1 DEF WindowCloses
  <2>2. UNCHANGED giveaways \/ giveaways' = [giveaways EXCEPT ![g].remediation = "expired"]
    BY <1>1 DEF WindowCloses
  <2>3. NoEffect(g)
    BY <2>2, SameGiveaways, FlagEffect
  <2> QED  BY <2>1, <2>3, QuietEscrows DEF NoEffect
<1>2. ASSUME NEW w \in Wallets, NEW c \in Commitments, Participate(g, w, c)
      PROVE  OneEscrow(g)
  <2>1. UNCHANGED <<vaults, ledgers>>
    BY <1>2 DEF Participate, EntryFrame
  <2>2. NoEffect(g)
    BY <1>2, ParticipateEffect
  <2> QED  BY <2>1, <2>2, QuietEscrows DEF NoEffect
<1>3. ASSUME NEW e \in DOMAIN entries, NEW c \in Creators, DisqualifyParticipant(g, e, c)
      PROVE  OneEscrow(g)
  <2>1. UNCHANGED <<giveaways, vaults, ledgers>>
    BY <1>3 DEF DisqualifyParticipant, EntryFrame
  <2>2. NoEffect(g)
    BY <2>1, SameGiveaways
  <2> QED  BY <2>1, <2>2, QuietEscrows DEF NoEffect
<1>4. ASSUME NEW e \in DOMAIN entries, NEW w \in Wallets, AttestUploaded(g, e, w)
      PROVE  OneEscrow(g)
  <2>1. UNCHANGED <<vaults, ledgers>>
    BY <1>4 DEF AttestUploaded, EntryFrame
  <2>2. GiveawayEffect(g, giveaways[g].settled, giveaways[g].attested_count + 1,
                       giveaways[g].provider_uploaded_count)
    BY <1>4, AttestEffect
  <2> QED  BY <2>1, <2>2, QuietEscrows
<1>5. ASSUME NEW batch \in SUBSET DOMAIN entries, NEW by_authority \in BOOLEAN,
             UploadReveals(g, batch, by_authority)
      PROVE  OneEscrow(g)
  <2>1. UNCHANGED <<vaults, ledgers>>
    BY <1>5 DEF UploadReveals, EntryFrame
  <2>2. GiveawayEffect(g, giveaways[g].settled, giveaways[g].attested_count,
                giveaways[g].provider_uploaded_count + Cardinality(batch))
    BY <1>5, UploadEffect
  <2> QED  BY <2>1, <2>2, QuietEscrows
<1> QED  BY <1>1, <1>2, <1>3, <1>4, <1>5 DEF EntryStep

\* How an escrow step shows in the accounts of its giveaway.
LEMMA EscrowSteps ==
    ASSUME NEW g
    PROVE  /\ EscrowOf(g)!Open \/ EscrowOf(g)!Draw \/ EscrowOf(g)!Pay
              \/ EscrowOf(g)!Distribute \/ EscrowOf(g)!Return
              => EscrowOf(g)!EscrowNext
           /\ \A S : EscrowOf(g)!Cardinality(S) = Cardinality(S)
           /\ EscrowStays(g) <=> UNCHANGED EscrowOf(g)!escrowVars
<1>1. \A S : EscrowOf(g)!Cardinality(S) = Cardinality(S)
  BY DEF EscrowOf!Cardinality, Cardinality
<1>2. EscrowStays(g) <=> UNCHANGED EscrowOf(g)!escrowVars
  BY DEF EscrowStays, EscrowOf!escrowVars
<1>3. EscrowOf(g)!Open \/ EscrowOf(g)!Draw \/ EscrowOf(g)!Pay
              \/ EscrowOf(g)!Distribute \/ EscrowOf(g)!Return
              => EscrowOf(g)!EscrowNext
  BY DEF EscrowOf!EscrowNext
<1> QED  BY <1>1, <1>2, <1>3

LEMMA CreateOneEscrow ==
    ASSUME TypeOK, LedgersInvariant, EscrowsInvariant,
           NEW c, NEW id, NEW total \in Payouts, NEW n, CreateGiveaway(c, id, total, n)
    PROVE  OneEscrow(id)
<1>1. /\ UNCHANGED ledgers
      /\ giveaways' = Put(giveaways, id, NewGiveaway(id, c, total, n))
      /\ vaults' = Put(vaults, id, total + RENT)
      /\ id \notin DOMAIN giveaways /\ total > 0
  BY DEF CreateGiveaway
<1>2. /\ DOMAIN vaults = DOMAIN giveaways
      /\ id \notin DOMAIN ledgers
  BY <1>1 DEF LedgersInvariant, AccountsTyped
<1>3. /\ DOMAIN giveaways' = DOMAIN giveaways \cup {id}
      /\ giveaways'[id] = NewGiveaway(id, c, total, n)
      /\ \A h \in DOMAIN giveaways : giveaways'[h] = giveaways[h]
  BY <1>1 DEF Put
<1>4. /\ DOMAIN vaults' = DOMAIN vaults \cup {id} /\ vaults'[id] = total + RENT
      /\ \A h \in DOMAIN vaults : vaults'[h] = vaults[h]
  BY <1>1, <1>2 DEF Put
<1>5. ASSUME NEW h, h # id
      PROVE  EscrowStays(h)
  <2>1. SameAccounts(h)
    BY <1>1, <1>3, <1>4, <1>5 DEF SameAccounts
  <2> QED  BY <2>1, EscrowUntouched
<1>6. EscrowStatus(id) = "none" /\ EscrowStatus(id)' = "open"
  <2>1. id \in DOMAIN giveaways' /\ ~giveaways'[id].settled /\ id \notin DOMAIN ledgers'
    BY <1>1, <1>2, <1>3 DEF NewGiveaway
  <2>2. ~Distributed(id)'
    BY <2>1 DEF Distributed
  <2> QED  BY <1>1, <2>1, <2>2 DEF EscrowStatus
<1>7. HeldFor(id)' = total + RENT /\ total + RENT > 0 /\ total + RENT >= total
  <2>1. HeldFor(id)' = total + RENT
    BY <1>4 DEF HeldFor
  <2>2. total \in Nat /\ RENT \in Nat
    BY AmountsAssumption
  <2> QED  BY <1>1, <2>1, <2>2
<1>8. FeeDue(id)' \in 0..total
  <2> DEFINE bps == config.service_fee_bps
  <2>1. total \in Nat /\ bps \in Nat /\ bps <= MAX_SERVICE_FEE_BPS
    BY AmountsAssumption DEF TypeOK, EscrowsInvariant
  <2>2. FeeOf(id)' = (total * bps) \div 10000
    BY <1>3 DEF FeeOf, NewGiveaway
  <2>3. FeeDue(id)' = FeeOf(id)'
    BY <1>3 DEF FeeDue
  <2> HIDE DEF bps
  <2>4. (total * bps) \div 10000 \in 0..total
    BY <2>1, FeeIsPart
  <2> QED  BY <2>2, <2>3, <2>4
<1>9. UNCHANGED <<WinnersOf(id), ShareOf(id), PaidOf(id)>>
  BY <1>1 DEF WinnersOf, ShareOf, PaidOf
<1>10. HeldFor(id)' > 0 /\ FeeDue(id)' \in 0..HeldFor(id)'
  <2>1. total \in Nat /\ RENT \in Nat
    BY AmountsAssumption
  <2> QED  BY <1>7, <1>8, <2>1
<1>11. EscrowOf(id)!Open
  BY <1>6, <1>9, <1>10 DEF EscrowOf!Open
<1> QED  BY <1>5, <1>11, EscrowSteps DEF OneEscrow

LEMMA RefundOneEscrow ==
    ASSUME LedgersInvariant, EscrowsInvariant, NEW g \in DOMAIN giveaways,
           NEW v, NEW c, SettleGiveaway(g, v, c)
    PROVE  OneEscrow(g)
<1>1. /\ UNCHANGED ledgers /\ ~giveaways[g].settled
      /\ giveaways' = [giveaways EXCEPT ![g].settled = TRUE]
      /\ vaults' = [vaults EXCEPT ![g] = 0]
  BY DEF SettleGiveaway, SettlementFrame, LinkedVault, LedgersInvariant
<1>2. DOMAIN vaults = DOMAIN giveaways
  BY DEF LedgersInvariant, AccountsTyped
<1>3. GiveawayEffect(g, TRUE, giveaways[g].attested_count,
                     giveaways[g].provider_uploaded_count)
  BY <1>1, SettleEffect
<1>4. /\ g \in DOMAIN giveaways' /\ giveaways'[g].settled
      /\ giveaways'[g].total_payout_lamports = giveaways[g].total_payout_lamports
      /\ giveaways'[g].service_fee_bps = giveaways[g].service_fee_bps
  BY <1>3 DEF GiveawayEffect, SameTerms
<1>5. EscrowStatus(g) \in {"open", "drawn"}
  BY <1>1 DEF EscrowStatus, Distributed
<1>6. EscrowStatus(g)' = "returned"
  <2>1. g \in DOMAIN ledgers => ledgers[g].paid # ledgers[g].winner_wallets
    BY <1>1 DEF EscrowsInvariant
  <2>2. ~Distributed(g)'
    BY <1>1, <2>1 DEF Distributed
  <2> QED  BY <1>4, <2>2 DEF EscrowStatus
<1>7. HeldFor(g)' = 0
  BY <1>1, <1>2 DEF HeldFor
<1>8. UNCHANGED <<FeeDue(g), WinnersOf(g), ShareOf(g), PaidOf(g)>>
  BY <1>1, <1>4 DEF FeeDue, FeeOf, WinnersOf, ShareOf, PaidOf
<1>9. EscrowOf(g)!Return
  BY <1>5, <1>6, <1>7, <1>8 DEF EscrowOf!Return
<1>10. ASSUME NEW h, h # g
       PROVE  EscrowStays(h)
  <2>1. DOMAIN vaults' = DOMAIN vaults /\ \A k \in DOMAIN vaults : k # g => vaults'[k] = vaults[k]
    BY <1>1
  <2> QED  BY <1>1, <1>3, <1>10, <2>1, OtherEscrows
<1> QED  BY <1>9, <1>10, EscrowSteps DEF OneEscrow

LEMMA LockOneEscrow ==
    ASSUME LedgersInvariant, NEW g \in DOMAIN giveaways,
           NEW l \in DOMAIN ledgers, NEW c, LockWinners(g, l, c)
    PROVE  OneEscrow(g)
<1>1. /\ UNCHANGED vaults
      /\ giveaways' = [giveaways EXCEPT ![g].winners_locked = TRUE]
      /\ ledgers' = [ledgers EXCEPT ![l].locked = TRUE]
  BY DEF LockWinners
<1>2. ledgers[l] \in LedgerType
  BY <1>1 DEF LedgersInvariant, AccountsTyped
<1>3. /\ DOMAIN ledgers' = DOMAIN ledgers
      /\ \A h \in DOMAIN ledgers :
            /\ ledgers'[h].winner_wallets = ledgers[h].winner_wallets
            /\ ledgers'[h].per_winner_lamports = ledgers[h].per_winner_lamports
            /\ ledgers'[h].paid = ledgers[h].paid
  BY <1>1, <1>2 DEF LedgerType
<1>4. NoEffect(g)
  BY <1>1, FlagEffect
<1>5. \A h : SameAccounts(h)
  BY <1>1, <1>3, <1>4 DEF NoEffect, GiveawayEffect, SameTerms, SameAccounts
<1> QED  BY <1>5, EscrowUntouched DEF OneEscrow

LEMMA ChunkOneEscrow ==
    ASSUME TypeOK, LedgersInvariant, EscrowsInvariant, VaultsFollowTheirLedgers,
           NEW g \in DOMAIN giveaways, NEW v,
           NEW chunk \in SUBSET DOMAIN entries, FinalizeChunk(g, v, chunk)
    PROVE  OneEscrow(g)
<1>1. UNCHANGED vaults /\ ~giveaways[g].settled
  BY DEF FinalizeChunk, FinalizeGuard
<1>2. NoEffect(g)
  BY FinalizeEffect
<1>3. CASE ledgers' = ledgers
  BY <1>1, <1>2, <1>3, QuietEscrows DEF NoEffect
<1>4. ASSUME NEW winners \in SUBSET Wallets, NEW share \in Nat,
             ledgers' = Put(ledgers, g, NewLedger(g, winners, share)),
             winners # {}, share > 0,
             share * Cardinality(winners) + FeeOf(g) <= giveaways[g].total_payout_lamports
      PROVE  OneEscrow(g)
  <2>1. g \notin DOMAIN ledgers
    BY ChunkLedgers
  <2>2. /\ DOMAIN ledgers' = DOMAIN ledgers \cup {g}
        /\ ledgers'[g] = NewLedger(g, winners, share)
        /\ \A h \in DOMAIN ledgers : ledgers'[h] = ledgers[h]
    BY <1>4, <2>1 DEF Put
  <2>3. ASSUME NEW h, h # g
        PROVE  EscrowStays(h)
    BY <1>1, <1>2, <2>2, <2>3, OtherEscrows DEF NoEffect
  <2>4. /\ g \in DOMAIN giveaways' /\ giveaways'[g].settled = giveaways[g].settled
        /\ giveaways'[g].total_payout_lamports = giveaways[g].total_payout_lamports
        /\ giveaways'[g].service_fee_bps = giveaways[g].service_fee_bps
    BY <1>2 DEF NoEffect, GiveawayEffect, SameTerms
  <2>5. EscrowStatus(g) = "open" /\ EscrowStatus(g)' = "drawn"
    BY <1>1, <2>1, <2>2, <2>4 DEF EscrowStatus, Distributed
  <2>6. /\ WinnersOf(g)' = winners /\ ShareOf(g)' = share
        /\ PaidOf(g)' = {} /\ PaidOf(g) = {}
    BY <2>1, <2>2 DEF WinnersOf, ShareOf, PaidOf, NewLedger
  <2>7. UNCHANGED <<HeldFor(g), FeeDue(g)>> /\ FeeDue(g) = FeeOf(g)
    BY <1>1, <2>4 DEF HeldFor, FeeDue, FeeOf
  <2>8. HeldFor(g) = giveaways[g].total_payout_lamports + RENT
    <3>1. DOMAIN vaults = DOMAIN giveaways
      BY DEF LedgersInvariant, AccountsTyped
    <3>2. vaults[g] = Deposit(g) - 0
      BY <1>1, <2>1 DEF VaultsFollowTheirLedgers, PaidOut
    <3>3. Deposit(g) = giveaways[g].total_payout_lamports + RENT
      BY DEF Deposit
    <3>4. Deposit(g) \in Int
      BY <3>3, FeeOfIsPart, AmountsAssumption
    <3> QED  BY <3>1, <3>2, <3>3, <3>4 DEF HeldFor
  <2>9. ledgers'[g].winner_wallets = winners /\ IsFiniteSet(winners)
        /\ Cardinality(winners) \in Nat \ {0}
    <3>1. \A w \in winners : <<g, w>> \in DOMAIN entries
      <4>1. LedgersInvariant'
        BY ChunkLedgers
      <4>2. DOMAIN entries' = DOMAIN entries
        BY DEF FinalizeChunk, Marked
      <4>3. ledgers'[g].winner_wallets = winners /\ g \in DOMAIN ledgers'
        BY <2>2 DEF NewLedger
      <4> QED  BY <4>1, <4>2, <4>3 DEF LedgersInvariant, IncludedIn
    <3>2. IsFiniteSet(winners) /\ Cardinality(winners) \in Nat
      BY <3>1, FewWallets
    <3> QED  BY <1>4, <2>2, <3>2, FS_EmptySet DEF NewLedger
  <2>10. share \in 1..HeldFor(g) /\ share * Cardinality(winners) + FeeDue(g) <= HeldFor(g)
    <3> DEFINE total == giveaways[g].total_payout_lamports
               count == Cardinality(winners)
               product == share * count
    <3>1. \A a, b \in Nat : b > 0 => a * b \in Nat /\ a <= a * b
      OBVIOUS
    <3>2. product \in Nat /\ share <= product
      BY <2>9, <3>1
    <3>3. total \in Nat /\ FeeOf(g) \in 0..total /\ RENT \in Nat
      BY FeeOfIsPart, AmountsAssumption
    <3>4. product + FeeOf(g) <= total
      BY <1>4
    <3>5. HeldFor(g) = total + RENT /\ FeeDue(g) = FeeOf(g)
      BY <2>7, <2>8
    <3> HIDE DEF product, total
    <3>6. share \in 1..HeldFor(g) /\ product + FeeDue(g) <= HeldFor(g)
      BY <1>4, <3>2, <3>3, <3>4, <3>5
    <3> QED  BY <3>6 DEF product
  <2>11. EscrowOf(g)!Draw
    <3>1. /\ WinnersOf(g)' \in (SUBSET Wallets) \ {{}}
          /\ ShareOf(g)' \in 1..HeldFor(g)
          /\ ShareOf(g)' * EscrowOf(g)!Cardinality(WinnersOf(g)') + FeeDue(g) <= HeldFor(g)
          /\ UNCHANGED <<HeldFor(g), FeeDue(g), PaidOf(g)>>
      BY <1>4, <2>6, <2>7, <2>10, EscrowSteps
    <3> QED  BY <2>5, <3>1 DEF EscrowOf!Draw
  <2> QED  BY <2>3, <2>11, EscrowSteps DEF OneEscrow
<1> QED  BY <1>3, <1>4, ChunkOutcome

LEMMA PayoutOneEscrow ==
    ASSUME LedgersInvariant, EscrowsInvariant, NEW g \in DOMAIN giveaways,
           NEW batch, PayoutStep(g, batch)
    PROVE  OneEscrow(g)
<1> DEFINE ledger == ledgers[g]
<1>1. /\ g \in DOMAIN ledgers /\ batch \in SUBSET ledger.winner_wallets
      /\ ledgers' = [ledgers EXCEPT ![g].paid = ledger.paid \cup batch]
      /\ batch # {} /\ batch \cap ledger.paid = {}
      /\ vaults' = [vaults EXCEPT ![g] = HeldAfter(g, batch)]
      /\ LeftAfter(g, batch) \in Int
      /\ PaysLast(g, batch) => LeftAfter(g, batch) >= FeeOf(g)
      /\ GiveawayEffect(g, PaysLast(g, batch), giveaways[g].attested_count,
                        giveaways[g].provider_uploaded_count)
      /\ ~giveaways[g].settled
  BY DEF PayoutStep
<1>2. DOMAIN vaults = DOMAIN giveaways /\ ledgers[g] \in LedgerType
  BY <1>1 DEF LedgersInvariant, AccountsTyped
<1>3. /\ DOMAIN ledgers' = DOMAIN ledgers
      /\ \A h \in DOMAIN ledgers : h # g => ledgers'[h] = ledgers[h]
      /\ ledgers'[g].winner_wallets = ledger.winner_wallets
      /\ ledgers'[g].per_winner_lamports = ledger.per_winner_lamports
      /\ ledgers'[g].paid = ledger.paid \cup batch
  BY <1>1, <1>2 DEF LedgerType
<1>4. ASSUME NEW h, h # g
      PROVE  EscrowStays(h)
  <2>1. DOMAIN vaults' = DOMAIN vaults /\ \A k \in DOMAIN vaults : k # g => vaults'[k] = vaults[k]
    BY <1>1
  <2> QED  BY <1>1, <1>3, <1>4, <2>1, OtherEscrows
<1>5. /\ g \in DOMAIN giveaways' /\ giveaways'[g].settled = PaysLast(g, batch)
      /\ giveaways'[g].total_payout_lamports = giveaways[g].total_payout_lamports
      /\ giveaways'[g].service_fee_bps = giveaways[g].service_fee_bps
  BY <1>1 DEF GiveawayEffect, SameTerms
<1>6. /\ WinnersOf(g) = ledger.winner_wallets /\ WinnersOf(g)' = WinnersOf(g)
      /\ ShareOf(g) = ledger.per_winner_lamports /\ ShareOf(g)' = ShareOf(g)
      /\ PaidOf(g) = ledger.paid /\ PaidOf(g)' = ledger.paid \cup batch
  BY <1>1, <1>3 DEF WinnersOf, ShareOf, PaidOf
<1>7. FeeDue(g)' = FeeDue(g) /\ FeeDue(g) = FeeOf(g)
  BY <1>5 DEF FeeDue, FeeOf
<1>8. EscrowStatus(g) = "drawn"
  BY <1>1 DEF EscrowStatus, Distributed
<1>9. HeldFor(g) = vaults[g] /\ HeldFor(g)' = HeldAfter(g, batch)
  BY <1>1, <1>2 DEF HeldFor
<1>10. ledger.paid \subseteq ledger.winner_wallets
  BY <1>1 DEF LedgersInvariant
<1>11. LeftAfter(g, batch) = HeldFor(g) - ShareOf(g) * Cardinality(batch)
  BY <1>6, <1>9 DEF LeftAfter
<1>12. CASE ~PaysLast(g, batch)
  <2>1. EscrowStatus(g)' = "drawn"
    BY <1>1, <1>3, <1>5, <1>12 DEF EscrowStatus, Distributed
  <2>2. /\ PaidOf(g) \subseteq PaidOf(g)' /\ PaidOf(g)' # PaidOf(g)
        /\ PaidOf(g)' \subseteq WinnersOf(g) /\ PaidOf(g)' # WinnersOf(g)
        /\ PaidOf(g)' \ PaidOf(g) = batch
    BY <1>1, <1>6, <1>10, <1>12 DEF PaysLast
  <2>3. HeldFor(g)' = HeldFor(g) - EscrowOf(g)!Due(PaidOf(g)' \ PaidOf(g))
    <3>1. EscrowOf(g)!Due(batch) = ShareOf(g) * Cardinality(batch)
      BY EscrowSteps DEF EscrowOf!Due
    <3> QED  BY <1>9, <1>11, <1>12, <2>2, <3>1 DEF HeldAfter
  <2>4. EscrowOf(g)!Pay
    BY <1>6, <1>7, <1>8, <2>1, <2>2, <2>3 DEF EscrowOf!Pay
  <2> QED  BY <1>4, <2>4, EscrowSteps DEF OneEscrow
<1>13. CASE PaysLast(g, batch)
  <2>1. /\ PaidOf(g)' = WinnersOf(g) /\ PaidOf(g) # WinnersOf(g)
        /\ WinnersOf(g) \ PaidOf(g) = batch /\ WinnersOf(g) # {}
    BY <1>1, <1>6, <1>10, <1>13 DEF PaysLast
  <2>2. EscrowStatus(g)' = "distributed"
    <3>1. Distributed(g)'
      BY <1>1, <1>3, <1>5, <1>6, <1>13, <2>1 DEF Distributed
    <3> QED  BY <1>5, <3>1 DEF EscrowStatus
  <2>3. HeldFor(g)' = 0
    BY <1>9, <1>13 DEF HeldAfter
  <2>4. EscrowOf(g)!Due(WinnersOf(g) \ PaidOf(g)) + FeeDue(g) <= HeldFor(g)
    <3>1. EscrowOf(g)!Due(batch) = ShareOf(g) * Cardinality(batch)
      BY EscrowSteps DEF EscrowOf!Due
    <3>2. LeftAfter(g, batch) >= FeeOf(g)
      BY <1>1, <1>13
    <3> DEFINE due == ShareOf(g) * Cardinality(batch)
    <3>3. due \in Int /\ HeldFor(g) \in Int /\ FeeOf(g) \in Int
      <4>1. Cardinality(batch) \in Nat
        BY <1>1, FewWinners
      <4>2. ShareOf(g) \in Int
        BY <1>2, <1>6 DEF LedgerType
      <4>3. HeldFor(g) \in Int
        BY <1>9 DEF LedgersInvariant, AccountsTyped
      <4>4. FeeOf(g) \in Int
        BY FeeOfIsPart
      <4> QED  BY <4>1, <4>2, <4>3, <4>4
    <3>4. LeftAfter(g, batch) = HeldFor(g) - due
      BY <1>11
    <3> HIDE DEF due
    <3>5. due + FeeOf(g) <= HeldFor(g)
      BY <3>2, <3>3, <3>4
    <3> QED  BY <1>7, <2>1, <3>1, <3>5 DEF due
  <2>5. EscrowOf(g)!Distribute
    BY <1>6, <1>7, <1>8, <2>1, <2>2, <2>3, <2>4 DEF EscrowOf!Distribute
  <2> QED  BY <1>4, <2>5, EscrowSteps DEF OneEscrow
<1> QED  BY <1>12, <1>13

LEMMA SettlementOneEscrow ==
    ASSUME TypeOK, LedgersInvariant, EscrowsInvariant, VaultsFollowTheirLedgers,
           NEW g \in DOMAIN giveaways, NEW v \in DOMAIN vaults, SettlementStep(g, v)
    PROVE  OneEscrow(g)
<1>1. CASE FinalizeOpensRemediation(g, v)
  <2>1. /\ UNCHANGED <<vaults, ledgers>>
        /\ giveaways' = [giveaways EXCEPT ![g].remediation = "open"]
    BY <1>1 DEF FinalizeOpensRemediation
  <2> QED  BY <2>1, FlagEffect, QuietEscrows DEF NoEffect
<1> QED  BY <1>1, ChunkOneEscrow, RefundOneEscrow, LockOneEscrow, PayoutEffect,
            PayoutOneEscrow DEF SettlementStep

\* Every step is a step of at most one escrow.
LEMMA OneEscrowMoves ==
    ASSUME ReceiptInvariant, LedgersInvariant, EscrowsInvariant,
           VaultsFollowTheirLedgers, [Next]_vars
    PROVE  (\A h : EscrowStays(h)) \/ \E g : OneEscrow(g)
<1>1. CASE IdleStep
  <2>1. \A h : SameAccounts(h)
    BY <1>1, IdleFrame DEF SameAccounts
  <2> QED  BY <2>1, EscrowUntouched
<1> QED  BY <1>1, ProgramCases, CreateOneEscrow, EntryOneEscrow, SettlementOneEscrow
         DEF ReceiptInvariant

\* For any number of giveaways and any accounts given to the instructions, each
\* giveaway behaves as an escrow of its own, and no step moves two of them.
THEOREM SeparateEscrows == Spec => GiveawaysAreSeparateEscrows
<1>1. ASSUME ReceiptInvariant, LedgersInvariant, EscrowsInvariant,
             VaultsFollowTheirLedgers, [Next]_vars
      PROVE  /\ \A g \in 1..MaxGiveaways :
                    EscrowOf(g)!EscrowNext \/ UNCHANGED EscrowOf(g)!escrowVars
             /\ \A g, h \in 1..MaxGiveaways :
                    g # h => \/ UNCHANGED EscrowOf(g)!escrowVars
                             \/ UNCHANGED EscrowOf(h)!escrowVars
  <2>1. ASSUME NEW k, OneEscrow(k)
        PROVE  /\ \A g : EscrowOf(g)!EscrowNext \/ EscrowStays(g)
               /\ \A g, h : g # h => EscrowStays(g) \/ EscrowStays(h)
    BY <2>1 DEF OneEscrow
  <2>2. /\ \A g : EscrowOf(g)!EscrowNext \/ EscrowStays(g)
        /\ \A g, h : g # h => EscrowStays(g) \/ EscrowStays(h)
    BY <1>1, <2>1, OneEscrowMoves
  <2> QED  BY <2>2, EscrowSteps
<1> QED  BY <1>1, ReceiptInvariantHolds, LedgersInvariantHolds, EscrowsInvariantHolds,
            VaultsAreTheirOwn, PTL DEF Spec, GiveawaysAreSeparateEscrows

-----------------------------------------------------------------------------
(* The books of the creators and of the authority *)

\* Sums are taken over finitely many giveaways, of integers.
BooksInvariant ==
    /\ lamports \in [Creators \cup Wallets \cup {Authority} -> Int]
    /\ IsFiniteSet(DOMAIN giveaways)
    /\ AccountsBalance

LEMMA PaidOutAmount ==
    ASSUME LedgersInvariant, NEW g \in DOMAIN giveaways
    PROVE  PaidOut(g) \in Int
<1>1. CASE g \notin DOMAIN ledgers
  BY <1>1 DEF PaidOut
<1>2. CASE g \in DOMAIN ledgers
  <2> DEFINE share == ledgers[g].per_winner_lamports
             count == Cardinality(ledgers[g].paid)
  <2>1. ledgers[g].paid \in SUBSET ledgers[g].winner_wallets
    BY <1>2 DEF LedgersInvariant
  <2>2. count \in Nat
    BY <1>2, <2>1, FewWinners
  <2>3. share \in Int
    BY <1>2 DEF LedgersInvariant, AccountsTyped, LedgerType
  <2>4. PaidOut(g) = share * count
    BY <1>2 DEF PaidOut
  <2> HIDE DEF share, count
  <2> QED  BY <2>2, <2>3, <2>4
<1> QED  BY <1>1, <1>2

LEMMA BookAmounts ==
    ASSUME LedgersInvariant, EscrowsInvariant, NEW g \in DOMAIN giveaways
    PROVE  Outlay(g) \in Int /\ FeePaid(g) \in Int /\ Deposit(g) \in Int /\ FeeOf(g) \in Int
<1>1. FeeOf(g) \in Int /\ Deposit(g) \in Int
  BY FeeOfIsPart, AmountsAssumption DEF Deposit
<1>2. FeePaid(g) \in Int
  BY <1>1 DEF FeePaid
<1> QED  BY <1>1, <1>2, PaidOutAmount DEF Outlay

\* A step of one giveaway moves the books of its creator and of the authority
\* by what it changes in the terms of that giveaway.
LEMMA BooksMove ==
    ASSUME LedgersInvariant, EscrowsInvariant, BooksInvariant,
           NEW g \in DOMAIN giveaways, NEW settled, NEW attested, NEW uploaded,
           GiveawayEffect(g, settled, attested, uploaded),
           \A h \in DOMAIN giveaways : h # g =>
                /\ h \in DOMAIN ledgers' <=> h \in DOMAIN ledgers
                /\ h \in DOMAIN ledgers => ledgers'[h] = ledgers[h],
           NEW outlay \in Int, Outlay(g)' = outlay,
           NEW fee \in Int, FeePaid(g)' = fee,
           lamports' \in [Creators \cup Wallets \cup {Authority} -> Int],
           \A c \in Creators : lamports'[c] =
                IF c = giveaways[g].creator THEN lamports[c] - (outlay - Outlay(g))
                ELSE lamports[c],
           lamports'[Authority] = lamports[Authority] + (fee - FeePaid(g))
    PROVE  BooksInvariant'
<1>1. /\ DOMAIN giveaways' = DOMAIN giveaways
      /\ \A h \in DOMAIN giveaways : h # g => giveaways'[h] = giveaways[h]
      /\ giveaways'[g].creator = giveaways[g].creator
  BY DEF GiveawayEffect, SameTerms
<1>2. ASSUME NEW h \in DOMAIN giveaways, h # g
      PROVE  Outlays'[h] = Outlays[h] /\ FeesPaid'[h] = FeesPaid[h]
  <2>1. /\ giveaways'[h] = giveaways[h]
        /\ h \in DOMAIN ledgers' <=> h \in DOMAIN ledgers
        /\ h \in DOMAIN ledgers => ledgers'[h] = ledgers[h]
    BY <1>1, <1>2
  <2>2. FeeOf(h)' = FeeOf(h) /\ PaidOut(h)' = PaidOut(h) /\ Deposit(h)' = Deposit(h)
    BY <2>1 DEF FeeOf, PaidOut, Deposit
  <2>3. Distributed(h)' <=> Distributed(h)
    BY <2>1 DEF Distributed
  <2>4. FeePaid(h)' = FeePaid(h)
    BY <2>2, <2>3 DEF FeePaid
  <2>5. Outlay(h)' = Outlay(h)
    BY <2>1, <2>2, <2>4 DEF Outlay
  <2> QED  BY <1>1, <2>4, <2>5 DEF Outlays, FeesPaid
<1>3. /\ Outlays'[g] = outlay /\ FeesPaid'[g] = fee
      /\ Outlays[g] = Outlay(g) /\ FeesPaid[g] = FeePaid(g)
  BY <1>1 DEF Outlays, FeesPaid
<1>4. \A h \in DOMAIN giveaways : Outlays[h] \in Int /\ FeesPaid[h] \in Int
  BY BookAmounts DEF Outlays, FeesPaid
<1>5. \A h \in DOMAIN giveaways : Outlays'[h] \in Int /\ FeesPaid'[h] \in Int
  BY <1>2, <1>3, <1>4
<1>6. \A c : CreatedBy(c)' = CreatedBy(c) /\ CreatedBy(c) \subseteq DOMAIN giveaways
  BY <1>1 DEF CreatedBy
<1>7. IsFiniteSet(DOMAIN giveaways) /\ \A c : IsFiniteSet(CreatedBy(c))
  BY <1>6, FS_Subset DEF BooksInvariant
<1> DEFINE o == Outlays
           p == Outlays'
           f == FeesPaid
           h == FeesPaid'
<1> HIDE DEF o, p, f, h
<1>8. ASSUME NEW c \in Creators
      PROVE  lamports'[c] = CreatorFunds - SumFunctionOnSet(p, CreatedBy(c))
  <2> DEFINE S == CreatedBy(c)
             a == SumFunctionOnSet(o, S)
             b == SumFunctionOnSet(p, S)
  <2>1. lamports[c] = CreatorFunds - a /\ lamports[c] \in Int
    BY DEF BooksInvariant, AccountsBalance, o
  <2>2. CASE c = giveaways[g].creator
    <3>1. g \in S
      BY <2>2 DEF CreatedBy
    <3>2. /\ IsFiniteSet(S) /\ S \subseteq DOMAIN giveaways
          /\ \A x \in S : o[x] \in Int /\ p[x] \in Int
          /\ \A x \in S : x # g => p[x] = o[x]
      BY <1>2, <1>4, <1>5, <1>6, <1>7 DEF o, p
    <3> HIDE DEF S
    <3>3. a \in Int /\ b = a + p[g] - o[g]
      BY <3>1, <3>2, SumChangesBy
    <3>4. p[g] = outlay /\ o[g] = Outlay(g) /\ Outlay(g) \in Int
      BY <1>3, <1>4 DEF o, p
    <3>5. lamports'[c] = lamports[c] - (outlay - Outlay(g))
      BY <2>2
    <3> HIDE DEF a, b
    <3> QED  BY <2>1, <3>3, <3>4, <3>5, AmountsAssumption DEF b, S
  <2>3. CASE c # giveaways[g].creator
    <3>1. g \notin S
      BY <2>3 DEF CreatedBy
    <3>2. IsFiniteSet(S) /\ \A x \in S : o[x] = p[x]
      BY <1>2, <1>6, <1>7, <3>1 DEF o, p
    <3> HIDE DEF S
    <3>3. a = b
      BY <3>2, SumsAgree
    <3> QED  BY <2>1, <2>3, <3>3 DEF S
  <2> QED  BY <2>2, <2>3
<1>9. lamports'[Authority] = SumFunctionOnSet(h, DOMAIN giveaways)
  <2> DEFINE S == DOMAIN giveaways
             a == SumFunctionOnSet(f, S)
             b == SumFunctionOnSet(h, S)
  <2>1. lamports[Authority] = a
    BY DEF BooksInvariant, AccountsBalance, f
  <2>2. /\ IsFiniteSet(S) /\ g \in S
        /\ \A x \in S : f[x] \in Int /\ h[x] \in Int
        /\ \A x \in S : x # g => h[x] = f[x]
    BY <1>2, <1>4, <1>5, <1>7 DEF f, h
  <2> HIDE DEF S
  <2>3. a \in Int /\ b = a + h[g] - f[g]
    BY <2>2, SumChangesBy
  <2>4. h[g] = fee /\ f[g] = FeePaid(g) /\ FeePaid(g) \in Int
    BY <1>3, <1>4 DEF f, h
  <2> HIDE DEF a, b
  <2>5. lamports'[Authority] = b
    BY <2>1, <2>3, <2>4
  <2> QED  BY <2>5 DEF b, S
<1>10. AccountsBalance'
  BY <1>1, <1>6, <1>8, <1>9 DEF AccountsBalance, p, h
<1> QED  BY <1>1, <1>7, <1>10 DEF BooksInvariant

\* A step that changes no lamports, and for giveaway g neither whether it is
\* settled nor what its ledger says of payments.
LEMMA BooksKept ==
    ASSUME LedgersInvariant, EscrowsInvariant, BooksInvariant,
           NEW g \in DOMAIN giveaways, NEW settled, NEW attested, NEW uploaded,
           GiveawayEffect(g, settled, attested, uploaded),
           \A h \in DOMAIN giveaways : h # g =>
                /\ h \in DOMAIN ledgers' <=> h \in DOMAIN ledgers
                /\ h \in DOMAIN ledgers => ledgers'[h] = ledgers[h],
           Outlay(g)' = Outlay(g), FeePaid(g)' = FeePaid(g), UNCHANGED lamports
    PROVE  BooksInvariant'
<1> DEFINE outlay == Outlay(g)
           fee == FeePaid(g)
<1>1. outlay \in Int /\ fee \in Int
  BY BookAmounts
<1>2. /\ lamports \in [Creators \cup Wallets \cup {Authority} -> Int]
      /\ lamports' = lamports
  BY DEF BooksInvariant
<1>3. \A c \in Creators : lamports[c] \in Int
  BY <1>2
<1>4. outlay - Outlay(g) = 0 /\ fee - FeePaid(g) = 0 /\ lamports[Authority] \in Int
  BY <1>1, <1>2
<1>5. \A a \in Int : a - 0 = a /\ a + 0 = a
  OBVIOUS
<1>6. /\ \A c \in Creators : lamports'[c] =
            IF c = giveaways[g].creator THEN lamports[c] - (outlay - Outlay(g))
            ELSE lamports[c]
      /\ lamports'[Authority] = lamports[Authority] + (fee - FeePaid(g))
  <2> HIDE DEF outlay, fee
  <2> QED  BY <1>2, <1>3, <1>4, <1>5
<1>7. Outlay(g)' = outlay /\ FeePaid(g)' = fee
  OBVIOUS
<1> HIDE DEF outlay, fee
<1> QED  BY <1>1, <1>2, <1>6, <1>7, BooksMove

\* Instructions that change no ledger and settle nothing.
LEMMA BooksQuiet ==
    ASSUME LedgersInvariant, EscrowsInvariant, BooksInvariant,
           NEW g \in DOMAIN giveaways, NEW attested, NEW uploaded,
           GiveawayEffect(g, giveaways[g].settled, attested, uploaded),
           UNCHANGED <<ledgers, lamports>>
    PROVE  BooksInvariant'
<1>1. /\ giveaways'[g].settled = giveaways[g].settled
      /\ giveaways'[g].total_payout_lamports = giveaways[g].total_payout_lamports
      /\ giveaways'[g].service_fee_bps = giveaways[g].service_fee_bps
  BY DEF GiveawayEffect, SameTerms
<1>2. PaidOut(g)' = PaidOut(g) /\ FeeOf(g)' = FeeOf(g) /\ Deposit(g)' = Deposit(g)
  BY <1>1 DEF PaidOut, FeeOf, Deposit
<1>3. Distributed(g)' <=> Distributed(g)
  BY <1>1 DEF Distributed
<1>4. FeePaid(g)' = FeePaid(g)
  BY <1>2, <1>3 DEF FeePaid
<1>5. Outlay(g)' = Outlay(g)
  BY <1>1, <1>2, <1>4 DEF Outlay
<1> QED  BY <1>4, <1>5, BooksKept

\* While a giveaway is unsettled its creator is out of pocket for the deposit.
LEMMA BooksUnsettled ==
    ASSUME LedgersInvariant, EscrowsInvariant, BooksInvariant,
           NEW g \in DOMAIN giveaways, NEW attested, NEW uploaded,
           GiveawayEffect(g, giveaways[g].settled, attested, uploaded),
           \A h \in DOMAIN giveaways : h # g =>
                /\ h \in DOMAIN ledgers' <=> h \in DOMAIN ledgers
                /\ h \in DOMAIN ledgers => ledgers'[h] = ledgers[h],
           ~giveaways[g].settled, UNCHANGED lamports
    PROVE  BooksInvariant'
<1>1. /\ ~giveaways'[g].settled
      /\ giveaways'[g].total_payout_lamports = giveaways[g].total_payout_lamports
  BY DEF GiveawayEffect, SameTerms
<1>2. Outlay(g)' = Outlay(g) /\ FeePaid(g)' = FeePaid(g)
  BY <1>1 DEF Outlay, FeePaid, Distributed, Deposit
<1> QED  BY <1>2, BooksKept

LEMMA EntryBooks ==
    ASSUME LedgersInvariant, EscrowsInvariant, BooksInvariant,
           NEW g \in DOMAIN giveaways, EntryStep(g)
    PROVE  BooksInvariant'
<1>1. CASE WindowCloses(g)
  <2>1. UNCHANGED <<ledgers, lamports>>
    BY <1>1 DEF WindowCloses
  <2>2. UNCHANGED giveaways \/ giveaways' = [giveaways EXCEPT ![g].remediation = "expired"]
    BY <1>1 DEF WindowCloses
  <2>3. NoEffect(g)
    BY <2>2, SameGiveaways, FlagEffect
  <2> QED  BY <2>1, <2>3, BooksQuiet DEF NoEffect
<1>2. ASSUME NEW w \in Wallets, NEW c \in Commitments, Participate(g, w, c)
      PROVE  BooksInvariant'
  <2>1. UNCHANGED <<ledgers, lamports>>
    BY <1>2 DEF Participate, EntryFrame
  <2>2. NoEffect(g)
    BY <1>2, ParticipateEffect
  <2> QED  BY <2>1, <2>2, BooksQuiet DEF NoEffect
<1>3. ASSUME NEW e \in DOMAIN entries, NEW c \in Creators, DisqualifyParticipant(g, e, c)
      PROVE  BooksInvariant'
  <2>1. UNCHANGED <<giveaways, ledgers, lamports>>
    BY <1>3 DEF DisqualifyParticipant, EntryFrame
  <2>2. NoEffect(g)
    BY <2>1, SameGiveaways
  <2> QED  BY <2>1, <2>2, BooksQuiet DEF NoEffect
<1>4. ASSUME NEW e \in DOMAIN entries, NEW w \in Wallets, AttestUploaded(g, e, w)
      PROVE  BooksInvariant'
  <2>1. UNCHANGED <<ledgers, lamports>>
    BY <1>4 DEF AttestUploaded, EntryFrame
  <2>2. GiveawayEffect(g, giveaways[g].settled, giveaways[g].attested_count + 1,
                       giveaways[g].provider_uploaded_count)
    BY <1>4, AttestEffect
  <2> QED  BY <2>1, <2>2, BooksQuiet
<1>5. ASSUME NEW batch \in SUBSET DOMAIN entries, NEW by_authority \in BOOLEAN,
             UploadReveals(g, batch, by_authority)
      PROVE  BooksInvariant'
  <2>1. UNCHANGED <<ledgers, lamports>>
    BY <1>5 DEF UploadReveals, EntryFrame
  <2>2. GiveawayEffect(g, giveaways[g].settled, giveaways[g].attested_count,
                giveaways[g].provider_uploaded_count + Cardinality(batch))
    BY <1>5, UploadEffect
  <2> QED  BY <2>1, <2>2, BooksQuiet
<1> QED  BY <1>1, <1>2, <1>3, <1>4, <1>5 DEF EntryStep

\* A new giveaway costs its creator the deposit; it is on nobody else's books.
LEMMA CreateBooks ==
    ASSUME LedgersInvariant, EscrowsInvariant, BooksInvariant,
           NEW c \in Creators, NEW id, NEW total \in Payouts,
           NEW n, CreateGiveaway(c, id, total, n)
    PROVE  BooksInvariant'
<1>1. /\ UNCHANGED ledgers
      /\ giveaways' = Put(giveaways, id, NewGiveaway(id, c, total, n))
      /\ lamports' = Add(lamports, c, -(total + RENT))
      /\ id \notin DOMAIN giveaways
  BY DEF CreateGiveaway
<1>2. id \notin DOMAIN ledgers
  BY <1>1 DEF LedgersInvariant
<1>3. /\ DOMAIN giveaways' = DOMAIN giveaways \cup {id}
      /\ giveaways'[id] = NewGiveaway(id, c, total, n)
      /\ \A h \in DOMAIN giveaways : giveaways'[h] = giveaways[h]
  BY <1>1 DEF Put
<1>4. total + RENT \in Int
  BY AmountsAssumption
<1>5. /\ lamports \in [Creators \cup Wallets \cup {Authority} -> Int]
      /\ Authority \notin Creators
  BY PartiesAssumption DEF BooksInvariant
<1>6. /\ lamports' \in [Creators \cup Wallets \cup {Authority} -> Int]
      /\ lamports'[c] = lamports[c] - (total + RENT)
      /\ lamports'[Authority] = lamports[Authority]
      /\ \A d \in Creators : d # c => lamports'[d] = lamports[d]
  <2> DEFINE deposit == total + RENT
  <2>1. lamports' = [lamports EXCEPT ![c] = @ + -deposit] /\ deposit \in Int
    BY <1>1, <1>4 DEF Add
  <2> HIDE DEF deposit
  <2>2. lamports[c] + -deposit \in Int /\ lamports[c] + -deposit = lamports[c] - deposit
    BY <1>5, <2>1
  <2>3. lamports' = [lamports EXCEPT ![c] = lamports[c] - deposit]
    BY <2>1, <2>2
  <2>4. /\ lamports' \in [Creators \cup Wallets \cup {Authority} -> Int]
        /\ lamports'[c] = lamports[c] - deposit
        /\ lamports'[Authority] = lamports[Authority]
        /\ \A d \in Creators : d # c => lamports'[d] = lamports[d]
    BY <1>5, <2>2, <2>3
  <2> QED  BY <2>4 DEF deposit
<1>7. Outlays'[id] = total + RENT /\ FeesPaid'[id] = 0
  <2>1. /\ id \in DOMAIN giveaways' /\ id \notin DOMAIN ledgers'
        /\ ~giveaways'[id].settled /\ giveaways'[id].total_payout_lamports = total
    BY <1>1, <1>2, <1>3 DEF NewGiveaway
  <2>2. Outlay(id)' = total + RENT
    BY <2>1 DEF Outlay, Deposit
  <2>3. FeePaid(id)' = 0
    BY <2>1 DEF FeePaid, Distributed
  <2> QED  BY <2>1, <2>2, <2>3 DEF Outlays, FeesPaid
<1>8. ASSUME NEW h \in DOMAIN giveaways
      PROVE  /\ Outlays'[h] = Outlays[h] /\ FeesPaid'[h] = FeesPaid[h]
             /\ Outlays[h] \in Int /\ FeesPaid[h] \in Int
  <2>1. giveaways'[h] = giveaways[h] /\ ledgers' = ledgers
    BY <1>1, <1>3
  <2>2. FeeOf(h)' = FeeOf(h) /\ PaidOut(h)' = PaidOut(h) /\ Deposit(h)' = Deposit(h)
    BY <2>1 DEF FeeOf, PaidOut, Deposit
  <2>3. Distributed(h)' <=> Distributed(h)
    BY <2>1 DEF Distributed
  <2>4. FeePaid(h)' = FeePaid(h)
    BY <2>2, <2>3 DEF FeePaid
  <2>5. Outlay(h)' = Outlay(h)
    BY <2>1, <2>2, <2>4 DEF Outlay
  <2>6. Outlay(h) \in Int /\ FeePaid(h) \in Int
    BY BookAmounts
  <2> QED  BY <1>3, <2>4, <2>5, <2>6 DEF Outlays, FeesPaid
<1>9. /\ CreatedBy(c)' = CreatedBy(c) \cup {id}
      /\ \A d \in Creators : d # c => CreatedBy(d)' = CreatedBy(d)
      /\ \A d : CreatedBy(d) \subseteq DOMAIN giveaways
  <2>1. giveaways'[id].creator = c
    BY <1>3 DEF NewGiveaway
  <2>2. ASSUME NEW d
        PROVE  CreatedBy(d)' = CreatedBy(d) \cup {k \in {id} : d = c}
    BY <1>3, <2>1 DEF CreatedBy
  <2>3. \A d : CreatedBy(d) \subseteq DOMAIN giveaways
    BY DEF CreatedBy
  <2>4. CreatedBy(c)' = CreatedBy(c) \cup {id}
    BY <2>2
  <2>5. \A d \in Creators : d # c => CreatedBy(d)' = CreatedBy(d)
    BY <2>2
  <2> QED  BY <2>3, <2>4, <2>5
<1>10. /\ IsFiniteSet(DOMAIN giveaways) /\ IsFiniteSet(DOMAIN giveaways')
       /\ \A d : IsFiniteSet(CreatedBy(d))
  BY <1>3, <1>9, FS_Subset, FS_AddElement DEF BooksInvariant
<1> DEFINE o == Outlays
           p == Outlays'
           f == FeesPaid
           h == FeesPaid'
<1> HIDE DEF o, p, f, h
<1>11. lamports'[c] = CreatorFunds - SumFunctionOnSet(p, CreatedBy(c)')
  <2> DEFINE S == CreatedBy(c)
             a == SumFunctionOnSet(o, S)
             b == SumFunctionOnSet(p, S)
             d == SumFunctionOnSet(p, S \cup {id})
  <2>1. lamports[c] = CreatorFunds - a
    BY DEF BooksInvariant, AccountsBalance, o
  <2>2. /\ IsFiniteSet(S) /\ id \notin S /\ S \subseteq DOMAIN giveaways
        /\ \A x \in S : o[x] = p[x] /\ p[x] \in Int
        /\ p[id] = total + RENT
    BY <1>1, <1>7, <1>8, <1>9, <1>10 DEF o, p
  <2>3. \A x \in S \cup {id} : p[x] \in Int
    BY <1>4, <2>2
  <2> HIDE DEF S
  <2>4. a = b
    BY <2>2, SumsAgree
  <2>5. b \in Int /\ d = b + p[id]
    BY <2>2, <2>3, SumGrows
  <2>6. d = SumFunctionOnSet(p, CreatedBy(c)')
    BY <1>9 DEF S
  <2> HIDE DEF a, b, d
  <2> DEFINE deposit == total + RENT
  <2>7. lamports'[c] = lamports[c] - deposit /\ p[id] = deposit /\ deposit \in Int
    BY <1>4, <1>6, <2>2
  <2> HIDE DEF deposit
  <2>8. lamports'[c] = CreatorFunds - d
    BY <2>1, <2>4, <2>5, <2>7, AmountsAssumption
  <2> QED  BY <2>6, <2>8
<1>12. ASSUME NEW d \in Creators, d # c
       PROVE  lamports'[d] = CreatorFunds - SumFunctionOnSet(p, CreatedBy(d)')
  <2> DEFINE S == CreatedBy(d)
  <2>1. IsFiniteSet(S) /\ \A x \in S : o[x] = p[x]
    BY <1>8, <1>9, <1>10 DEF o, p
  <2>2. CreatedBy(d)' = S /\ lamports'[d] = lamports[d]
    BY <1>6, <1>9, <1>12
  <2>3. lamports[d] = CreatorFunds - SumFunctionOnSet(o, S)
    BY DEF BooksInvariant, AccountsBalance, o
  <2> HIDE DEF S
  <2>4. SumFunctionOnSet(o, S) = SumFunctionOnSet(p, S)
    BY <2>1, SumsAgree
  <2> QED  BY <2>2, <2>3, <2>4
<1>13. lamports'[Authority] = SumFunctionOnSet(h, DOMAIN giveaways')
  <2> DEFINE S == DOMAIN giveaways
             a == SumFunctionOnSet(f, S)
             b == SumFunctionOnSet(h, S)
             d == SumFunctionOnSet(h, S \cup {id})
  <2>1. lamports[Authority] = a
    BY DEF BooksInvariant, AccountsBalance, f
  <2>2. /\ IsFiniteSet(S) /\ id \notin S
        /\ \A x \in S : f[x] = h[x] /\ h[x] \in Int
        /\ h[id] = 0
    BY <1>1, <1>7, <1>8, <1>10 DEF f, h
  <2>3. \A x \in S \cup {id} : h[x] \in Int
    BY <2>2
  <2>4. DOMAIN giveaways' = S \cup {id}
    BY <1>3
  <2> HIDE DEF S
  <2>5. a = b
    BY <2>2, SumsAgree
  <2>6. b \in Int /\ d = b + h[id]
    BY <2>2, <2>3, SumGrows
  <2> HIDE DEF a, b
  <2>7. d = a
    BY <2>2, <2>5, <2>6
  <2> QED  BY <1>6, <2>1, <2>4, <2>7
<1>14. AccountsBalance'
  BY <1>11, <1>12, <1>13 DEF AccountsBalance, p, h
<1> QED  BY <1>6, <1>10, <1>14 DEF BooksInvariant

\* A refund returns to the creator what the deposit exceeds the payments by.
LEMMA RefundBooks ==
    ASSUME LedgersInvariant, EscrowsInvariant, VaultsFollowTheirLedgers, BooksInvariant,
           NEW g \in DOMAIN giveaways, NEW v, NEW c \in Creators, SettleGiveaway(g, v, c)
    PROVE  BooksInvariant'
<1>1. /\ UNCHANGED ledgers /\ ~giveaways[g].settled
      /\ giveaways' = [giveaways EXCEPT ![g].settled = TRUE]
      /\ lamports' = Add(lamports, c, vaults[g])
      /\ c = giveaways[g].creator
  BY DEF SettleGiveaway, SettlementFrame, LinkedVault, LinkedCreator, LedgersInvariant
<1>2. GiveawayEffect(g, TRUE, giveaways[g].attested_count,
                     giveaways[g].provider_uploaded_count)
  BY <1>1, SettleEffect
<1> DEFINE held == vaults[g]
           outlay == PaidOut(g)
<1>3. held = Deposit(g) - outlay /\ outlay \in Int /\ Deposit(g) \in Int
  BY <1>1, PaidOutAmount, BookAmounts DEF VaultsFollowTheirLedgers
<1>4. Outlay(g) = Deposit(g) /\ FeePaid(g) = 0
  BY <1>1 DEF Outlay, FeePaid, Distributed
<1>5. FeePaid(g)' = 0
  <2>1. g \in DOMAIN ledgers => ledgers[g].paid # ledgers[g].winner_wallets
    BY <1>1 DEF EscrowsInvariant
  <2>2. ~Distributed(g)'
    BY <1>1, <2>1 DEF Distributed
  <2> QED  BY <2>2 DEF FeePaid
<1>6. Outlay(g)' = outlay
  <2>1. giveaways'[g].settled
    BY <1>2 DEF GiveawayEffect
  <2>2. PaidOut(g)' = PaidOut(g)
    BY <1>1 DEF PaidOut
  <2>3. Outlay(g)' = PaidOut(g)' + FeePaid(g)'
    BY <2>1 DEF Outlay
  <2> HIDE DEF outlay
  <2>4. PaidOut(g)' = outlay
    BY <2>2 DEF outlay
  <2> QED  BY <1>3, <1>5, <2>3, <2>4
<1>7. /\ lamports \in [Creators \cup Wallets \cup {Authority} -> Int]
      /\ Authority \notin Creators
  BY PartiesAssumption DEF BooksInvariant
<1> HIDE DEF held, outlay
<1>8. lamports' = [lamports EXCEPT ![c] = lamports[c] + held] /\ held \in Int
  BY <1>1, <1>3 DEF Add, held
<1>9. /\ lamports' \in [Creators \cup Wallets \cup {Authority} -> Int]
      /\ lamports'[c] = lamports[c] + held
      /\ lamports'[Authority] = lamports[Authority]
      /\ \A d \in Creators : d # c => lamports'[d] = lamports[d]
  <2>1. lamports[c] + held \in Int
    BY <1>7, <1>8
  <2> QED  BY <1>7, <1>8, <2>1
<1>10. lamports[c] + held = lamports[c] - (outlay - Outlay(g))
  BY <1>3, <1>4, <1>7
<1>11. lamports'[Authority] = lamports[Authority] + (0 - FeePaid(g))
  BY <1>4, <1>7, <1>9
<1>12. \A d \in Creators : lamports'[d] =
            IF d = giveaways[g].creator THEN lamports[d] - (outlay - Outlay(g))
            ELSE lamports[d]
  BY <1>1, <1>9, <1>10
<1>13. \A h \in DOMAIN giveaways : h # g =>
            /\ h \in DOMAIN ledgers' <=> h \in DOMAIN ledgers
            /\ h \in DOMAIN ledgers => ledgers'[h] = ledgers[h]
  BY <1>1
<1> DEFINE fee == 0
<1>14. /\ fee \in Int /\ FeePaid(g)' = fee
       /\ lamports'[Authority] = lamports[Authority] + (fee - FeePaid(g))
  BY <1>5, <1>11
<1> HIDE DEF fee
<1> QED  BY <1>2, <1>3, <1>6, <1>9, <1>12, <1>13, <1>14, BooksMove

LEMMA PayoutBooks ==
    ASSUME LedgersInvariant, EscrowsInvariant, VaultsFollowTheirLedgers, BooksInvariant,
           NEW g \in DOMAIN giveaways, NEW v, NEW l \in DOMAIN ledgers, NEW c \in Creators,
           NEW batch \in SUBSET ledgers[l].winner_wallets,
           SettlePayoutBatch(g, v, l, c, batch)
    PROVE  BooksInvariant'
<1> DEFINE due == ledgers[g].per_winner_lamports * Cardinality(batch)
           share == ledgers[g].per_winner_lamports
           fee == FeeOf(g)
           left == LeftAfter(g, batch)
           credited == [a \in DOMAIN lamports |->
                            lamports[a] + IF a \in batch THEN share ELSE 0]
<1>1. v = g /\ l = g /\ c = giveaways[g].creator
  BY DEF SettlePayoutBatch, LinkedVault, LinkedLedger, LinkedCreator, LedgersInvariant
<1>2. PayoutStep(g, batch)
  BY PayoutEffect
<1>3. /\ g \in DOMAIN ledgers /\ batch \in SUBSET ledgers[g].winner_wallets
      /\ ledgers' = [ledgers EXCEPT ![g].paid = ledgers[g].paid \cup batch]
      /\ batch # {}
      /\ GiveawayEffect(g, PaysLast(g, batch), giveaways[g].attested_count,
                        giveaways[g].provider_uploaded_count)
      /\ ~giveaways[g].settled
  BY <1>2 DEF PayoutStep
<1>4. lamports' = IF PaysLast(g, batch)
                  THEN Add(Add(credited, Authority, fee), c, left - fee)
                  ELSE credited
  BY <1>1 DEF SettlePayoutBatch, PaysLast, LeftAfter
<1>5. /\ ledgers[g] \in LedgerType /\ share \in Int
      /\ batch \subseteq Wallets
  BY <1>3 DEF LedgersInvariant, AccountsTyped, LedgerType
<1>6. /\ DOMAIN ledgers' = DOMAIN ledgers
      /\ \A h \in DOMAIN ledgers : h # g => ledgers'[h] = ledgers[h]
      /\ ledgers'[g].winner_wallets = ledgers[g].winner_wallets
      /\ ledgers'[g].paid = ledgers[g].paid \cup batch
  BY <1>3, <1>5 DEF LedgerType
<1>7. /\ due \in Int /\ PaidOut(g) \in Int /\ PaidOut(g)' = PaidOut(g) + due
  BY <1>2, PaidByBatch
<1>8. fee \in Int /\ Deposit(g) \in Int
  BY BookAmounts
<1>9. left = (Deposit(g) - PaidOut(g)) - due
  BY <1>3 DEF VaultsFollowTheirLedgers, LeftAfter
<1>10. Outlay(g) = Deposit(g) /\ FeePaid(g) = 0
  BY <1>3 DEF Outlay, FeePaid, Distributed
<1>11. /\ lamports \in [Creators \cup Wallets \cup {Authority} -> Int]
       /\ Authority \notin Creators \cup Wallets /\ Creators \cap Wallets = {}
  BY PartiesAssumption DEF BooksInvariant
<1>12. /\ credited \in [Creators \cup Wallets \cup {Authority} -> Int]
       /\ credited[Authority] = lamports[Authority]
       /\ \A d \in Creators : credited[d] = lamports[d]
  <2> HIDE DEF share
  <2>1. \A a \in Int : a + 0 = a
    OBVIOUS
  <2> QED  BY <1>5, <1>11, <2>1
<1> HIDE DEF due, share, left, fee, credited
<1>13. \A h \in DOMAIN giveaways : h # g =>
            /\ h \in DOMAIN ledgers' <=> h \in DOMAIN ledgers
            /\ h \in DOMAIN ledgers => ledgers'[h] = ledgers[h]
  BY <1>6
<1>14. CASE ~PaysLast(g, batch)
  <2>1. /\ ~giveaways'[g].settled
        /\ giveaways'[g].total_payout_lamports = giveaways[g].total_payout_lamports
    BY <1>3, <1>14 DEF GiveawayEffect, SameTerms
  <2>2. Outlay(g)' = Deposit(g) /\ FeePaid(g)' = 0
    BY <2>1 DEF Outlay, Deposit, FeePaid, Distributed
  <2>3. \A a, b \in Int : a - (b - b) = a /\ a + (0 - 0) = a
    OBVIOUS
  <2>4. lamports' = credited
    BY <1>4, <1>14
  <2>5. \A d \in Creators : lamports'[d] =
            IF d = giveaways[g].creator THEN lamports[d] - (Deposit(g) - Outlay(g))
            ELSE lamports[d]
    BY <1>8, <1>10, <1>11, <1>12, <2>3, <2>4
  <2>6. lamports'[Authority] = lamports[Authority] + (0 - FeePaid(g))
    BY <1>10, <1>11, <1>12, <2>3, <2>4
  <2> QED  BY <1>3, <1>8, <1>12, <1>13, <2>2, <2>4, <2>5, <2>6, BooksMove
<1>15. CASE PaysLast(g, batch)
  <2> DEFINE outlay == PaidOut(g) + due + fee
  <2>1. /\ giveaways'[g].settled
        /\ giveaways'[g].total_payout_lamports = giveaways[g].total_payout_lamports
        /\ giveaways'[g].service_fee_bps = giveaways[g].service_fee_bps
    BY <1>3, <1>15 DEF GiveawayEffect, SameTerms
  <2>2. Distributed(g)'
    BY <1>3, <1>6, <1>15, <2>1 DEF Distributed, PaysLast
  <2>3. FeePaid(g)' = fee
    BY <2>1, <2>2 DEF FeePaid, FeeOf, fee
  <2>4. Outlay(g)' = outlay /\ outlay \in Int
    BY <1>7, <1>8, <2>1, <2>3 DEF Outlay
  <2> HIDE DEF outlay
  <2> DEFINE excess == left - fee
  <2>5. excess = Outlay(g) - outlay /\ excess \in Int
    BY <1>7, <1>8, <1>9, <1>10 DEF outlay
  <2> HIDE DEF excess
  <2> DEFINE taxed == Add(credited, Authority, fee)
  <2>6. /\ taxed \in [Creators \cup Wallets \cup {Authority} -> Int]
        /\ taxed[Authority] = lamports[Authority] + fee
        /\ \A d \in Creators : taxed[d] = lamports[d]
    <3>1. credited[Authority] + fee \in Int
      BY <1>8, <1>12
    <3> QED  BY <1>11, <1>12, <3>1 DEF Add
  <2> HIDE DEF taxed
  <2>7. lamports' = [taxed EXCEPT ![c] = taxed[c] + excess] /\ taxed[c] + excess \in Int
    BY <1>4, <1>15, <2>5, <2>6 DEF Add, taxed, excess
  <2>8. /\ lamports' \in [Creators \cup Wallets \cup {Authority} -> Int]
        /\ lamports'[c] = lamports[c] + excess
        /\ lamports'[Authority] = lamports[Authority] + fee
        /\ \A d \in Creators : d # c => lamports'[d] = lamports[d]
    BY <1>11, <2>6, <2>7
  <2>9. lamports[c] + excess = lamports[c] - (outlay - Outlay(g))
    BY <1>8, <1>10, <1>11, <2>4, <2>5
  <2>10. \A d \in Creators : lamports'[d] =
            IF d = giveaways[g].creator THEN lamports[d] - (outlay - Outlay(g))
            ELSE lamports[d]
    BY <1>1, <2>8, <2>9
  <2>11. lamports'[Authority] = lamports[Authority] + (fee - FeePaid(g))
    BY <1>8, <1>10, <2>8
  <2> QED  BY <1>3, <1>8, <1>13, <2>3, <2>4, <2>8, <2>10, <2>11, BooksMove
<1> QED  BY <1>14, <1>15

LEMMA SettlementBooks ==
    ASSUME TypeOK, LedgersInvariant, EscrowsInvariant, VaultsFollowTheirLedgers,
           BooksInvariant, NEW g \in DOMAIN giveaways, NEW v \in DOMAIN vaults,
           SettlementStep(g, v)
    PROVE  BooksInvariant'
<1>1. CASE FinalizeOpensRemediation(g, v)
  <2>1. /\ UNCHANGED <<ledgers, lamports>>
        /\ giveaways' = [giveaways EXCEPT ![g].remediation = "open"]
    BY <1>1 DEF FinalizeOpensRemediation
  <2> QED  BY <2>1, FlagEffect, BooksQuiet DEF NoEffect
<1>2. ASSUME NEW chunk \in SUBSET DOMAIN entries, FinalizeChunk(g, v, chunk)
      PROVE  BooksInvariant'
  <2>1. /\ \A h \in DOMAIN ledgers : h \in DOMAIN ledgers' /\ ledgers'[h] = ledgers[h]
        /\ \A h \in DOMAIN ledgers' : h \notin DOMAIN ledgers => h = g
    BY <1>2, ChunkLedgers
  <2>2. NoEffect(g) /\ UNCHANGED lamports /\ ~giveaways[g].settled
    BY <1>2, FinalizeEffect DEF FinalizeChunk, FinalizeGuard
  <2> QED  BY <2>1, <2>2, BooksUnsettled DEF NoEffect
<1>3. ASSUME NEW c \in Creators, NEW l \in DOMAIN ledgers, LockWinners(g, l, c)
      PROVE  BooksInvariant'
  <2>1. /\ l = g /\ UNCHANGED lamports /\ ~giveaways[g].settled
        /\ giveaways' = [giveaways EXCEPT ![g].winners_locked = TRUE]
        /\ ledgers' = [ledgers EXCEPT ![g].locked = TRUE]
    BY <1>3 DEF LockWinners, LinkedLedger, LedgersInvariant
  <2>2. NoEffect(g)
    BY <2>1, FlagEffect
  <2>3. \A h \in DOMAIN giveaways : h # g =>
            /\ h \in DOMAIN ledgers' <=> h \in DOMAIN ledgers
            /\ h \in DOMAIN ledgers => ledgers'[h] = ledgers[h]
    BY <2>1
  <2> QED  BY <2>1, <2>2, <2>3, BooksUnsettled DEF NoEffect
<1> QED  BY <1>1, <1>2, <1>3, RefundBooks, PayoutBooks DEF SettlementStep

LEMMA BooksStep ==
    ASSUME ReceiptInvariant, LedgersInvariant, EscrowsInvariant,
           VaultsFollowTheirLedgers, BooksInvariant, [Next]_vars
    PROVE  BooksInvariant'
<1>1. CASE IdleStep
  <2>1. UNCHANGED <<giveaways, ledgers, lamports>>
    BY <1>1 DEF IdleStep, Initialize, UpdateServiceCharge, IssueReceipt, EntryFrame, vars
  <2>2. \A g : UNCHANGED <<Outlay(g), FeePaid(g)>>
    BY <2>1 DEF Outlay, FeePaid, Distributed, PaidOut, FeeOf, Deposit
  <2>3. UNCHANGED <<Outlays, FeesPaid>> /\ \A c : CreatedBy(c)' = CreatedBy(c)
    BY <2>1, <2>2 DEF Outlays, FeesPaid, CreatedBy
  <2> QED  BY <2>1, <2>3 DEF BooksInvariant, AccountsBalance
<1> QED  BY <1>1, ProgramCases, CreateBooks, EntryBooks, SettlementBooks
         DEF ReceiptInvariant

LEMMA InitBooks == Init => BooksInvariant
<1> SUFFICES ASSUME Init PROVE BooksInvariant
  OBVIOUS
<1>1. /\ DOMAIN giveaways = {}
      /\ lamports = [a \in Creators \cup Wallets \cup {Authority} |->
                        IF a \in Creators THEN CreatorFunds ELSE 0]
  BY DEF Init
<1>2. lamports \in [Creators \cup Wallets \cup {Authority} -> Int]
  BY <1>1, AmountsAssumption
<1>3. \A f : SumFunctionOnSet(f, {}) = 0
  BY SumUnfolds, FS_EmptySet
<1>4. \A c : CreatedBy(c) = {}
  BY <1>1 DEF CreatedBy
<1>5. /\ \A c \in Creators : lamports[c] = CreatorFunds - 0
      /\ lamports[Authority] = 0
  <2>1. CreatorFunds - 0 = CreatorFunds
    BY AmountsAssumption
  <2> QED  BY <1>1, <2>1, PartiesAssumption
<1>6. AccountsBalance
  BY <1>1, <1>3, <1>4, <1>5 DEF AccountsBalance
<1> QED  BY <1>1, <1>2, <1>6, FS_EmptySet DEF BooksInvariant

\* For any number of giveaways, creators and rates: a creator is out of pocket
\* for the creator's own giveaways only, and the authority has the fees of those
\* that paid their winners and nothing else.
THEOREM AccountsAddUp == Spec => []AccountsBalance
<1>1. /\ ReceiptInvariant /\ LedgersInvariant /\ EscrowsInvariant
      /\ VaultsFollowTheirLedgers /\ BooksInvariant /\ [Next]_vars
      => BooksInvariant'
  BY BooksStep
<1>2. BooksInvariant => AccountsBalance
  BY DEF BooksInvariant
<1> QED  BY <1>1, <1>2, InitBooks, ReceiptInvariantHolds, LedgersInvariantHolds,
            EscrowsInvariantHolds, VaultsAreTheirOwn, PTL DEF Spec
=============================================================================
