--------------------------- MODULE GiveawaysProofs ---------------------------
(***************************************************************************)
(* The types, the entropy and the draw of a giveaway, for every set of     *)
(* wallets, every rank function, every duration and every bound.           *)
(*                                                                         *)
(* TypeOK is inductive on its own.  EntropyInvariant, inductive given the  *)
(* types, says who can add to the entropy and that it does not change      *)
(* under the participants' feet.  DrawInvariant, inductive given both,     *)
(* has counters that agree with the accounts they count, a draw that       *)
(* happens once, and winners that are the best of all included             *)
(* participants however finalization was chunked.                          *)
(***************************************************************************)
EXTENDS GiveawayProperties, RankingTheorems

\* The groups of variables that instructions leave unchanged.
USE DEF windowVars, remediationVars, originVars, entryVars,
        disqualificationVars, attestationVars, revealVars, drawVars, payoutVars,
        settlementVars, frameVars
USE DEF MIN_WINNERS, MAX_WINNERS, MIN_WINNER_PAYOUT_LAMPORTS

\* The amounts a giveaway computes from its terms are natural numbers and the
\* fee never exceeds the total.
LEMMA AmountsType ==
    ASSUME NEW total \in Nat, NEW bps \in 0..MAX_SERVICE_FEE_BPS
    PROVE  /\ ServiceFeeOf(total, bps) \in 0..total
           /\ WinnersPoolOf(total, bps) \in Nat
<1>1. total * bps \in Nat /\ total * bps <= total * 10000
  BY DEF MAX_SERVICE_FEE_BPS
<1>2. ServiceFeeOf(total, bps) \in Nat /\ 10000 * ServiceFeeOf(total, bps) <= total * bps
  BY <1>1 DEF ServiceFeeOf
<1>3. ServiceFeeOf(total, bps) <= total
  BY <1>1, <1>2
<1> QED  BY <1>2, <1>3 DEF WinnersPoolOf

\* Recording a chunk leaves a well-formed ledger.
LEMMA StartedLedgerType ==
    ASSUME TypeOK
    PROVE  StartedLedger \in FinalizationLedgerType
BY DEF TypeOK, StartedLedger, FinalizationLedgerType, TermsType

LEMMA RecordChunkType ==
    ASSUME NEW ledger \in FinalizationLedgerType,
           NEW chunk \in SUBSET Wallets, NEW eligible \in SUBSET Wallets
    PROVE  RecordChunk(ledger, chunk, eligible) \in FinalizationLedgerType
<1>1. Cardinality(chunk) \in Nat /\ Cardinality(eligible) \in Nat
  BY WalletSetsFinite
<1>2. TopK(ledger.seed, ledger.candidates \cup eligible, ledger.target_winners)
        \in SUBSET Wallets
  BY DEF TopK, FinalizationLedgerType
<1> DEFINE p == ledger.processed_count + Cardinality(chunk)
           e == ledger.eligible_count + Cardinality(eligible)
           c == TopK(ledger.seed, ledger.candidates \cup eligible,
                     ledger.target_winners)
<1>3. p \in Nat /\ e \in Nat
  BY <1>1 DEF FinalizationLedgerType
<1>4. RecordChunk(ledger, chunk, eligible) =
        [ledger EXCEPT !.processed_count = p, !.eligible_count = e,
                       !.candidates = c]
  BY DEF RecordChunk
<1> HIDE DEF p, e, c
<1>5. c \in SUBSET Wallets
  BY <1>2 DEF c
<1> QED  BY <1>3, <1>4, <1>5 DEF FinalizationLedgerType

-----------------------------------------------------------------------------
LEMMA InitType == Init => TypeOK
<1> SUFFICES ASSUME Init PROVE TypeOK
  OBVIOUS
<1>1. terms \in TermsType
  BY DEF Init, TermsType, MAX_SERVICE_FEE_BPS
<1>2. config \in ConfigType
  BY AmountsAssumption DEF Init, ConfigType
<1>3. finalization_ledger \in FinalizationLedgerType
  BY DEF Init, NoFinalizationLedger, FinalizationLedgerType, Seeds
<1>4. winners_ledger \in WinnersLedgerType
  BY DEF Init, NoWinnersLedger, WinnersLedgerType
<1>5. lamports \in [Accounts -> Int]
  BY AmountsAssumption DEF Init
<1>6. poc_aggregate_hash \in Seeds
  BY DEF Init, Seeds
<1>7. commitment_hash \in [Wallets -> Commitments \cup {ZeroHash}]
  <2>1. commitment_hash = [w \in Wallets |-> ZeroHash]
    BY DEF Init
  <2>2. \A w \in Wallets : ZeroHash \in Commitments \cup {ZeroHash}
    OBVIOUS
  <2> HIDE DEF ZeroHash
  <2> QED  BY <2>1, <2>2
<1>8. finalization_version \in [Wallets -> Nat]
  BY DEF Init
<1>0. now \in Nat \ {0}
  <2>1. now = 1
    BY DEF Init
  <2> QED  BY <2>1
<1>9. /\ created \in BOOLEAN
      /\ active_deadline_unix \in Nat /\ upload_start_unix \in Nat
      /\ upload_deadline_unix \in Nat
      /\ remediation_start_unix \in Nat /\ remediation_deadline_unix \in Nat
  BY DEF Init
<1>10. /\ participants_count \in Nat /\ attested_count \in Nat
       /\ provider_uploaded_count \in Nat /\ disqualified_count \in Nat
       /\ uploads_complete \in BOOLEAN /\ winners_computed \in BOOLEAN
       /\ winners_locked \in BOOLEAN /\ recompute_version \in Nat
       /\ settled \in BOOLEAN
  BY DEF Init
<1>11. /\ enrolled \subseteq Wallets /\ attested_uploaded \subseteq Wallets
       /\ reveal_included \subseteq Wallets /\ disqualified \subseteq Wallets
       /\ receipts \subseteq Wallets \X (Commitments \cup {ZeroHash})
  BY DEF Init
<1> QED
  BY <1>1, <1>2, <1>3, <1>4, <1>5, <1>6, <1>7, <1>8, <1>9, <1>10,
     <1>11, <1>0 DEF TypeOK

LEMMA TransferType ==
    ASSUME NEW balance \in [Accounts -> Int], NEW from \in Accounts,
           NEW to \in Accounts, NEW amount \in Int
    PROVE  Transfer(balance, from, to, amount) \in [Accounts -> Int]
BY DEF Transfer

\* The instructions up to attestation.
LEMMA CreateGiveawayType ==
    ASSUME TypeOK, NEW total \in Payouts, NEW n \in WinnerCounts,
           NEW start \in Instants, NEW deadline \in Instants,
           NEW duration \in UploadDurations,
           CreateGiveaway(total, n, start, deadline, duration)
    PROVE  TypeOK'
<1>1. total \in Nat /\ n \in Nat /\ start \in Nat /\ deadline \in Nat
      /\ duration \in Nat /\ RENT \in Nat
  BY AmountsAssumption, DurationsAssumption DEF Instants, UploadDurations
<1>2. terms' \in TermsType
  BY <1>1 DEF CreateGiveaway, TypeOK, ConfigType, TermsType
<1>3. lamports' \in [Accounts -> Int]
  <2>1. Creator \in Accounts /\ Vault \in Accounts
    BY DEF Accounts
  <2>2. total + RENT \in Int /\ lamports \in [Accounts -> Int]
    BY <1>1 DEF TypeOK
  <2>3. Transfer(lamports, Creator, Vault, total + RENT) \in [Accounts -> Int]
    BY <2>1, <2>2, TransferType
  <2> QED  BY <2>3 DEF CreateGiveaway
<1>4. deadline + duration \in Nat
  BY <1>1
<1> QED  BY <1>1, <1>2, <1>3, <1>4 DEF CreateGiveaway, TypeOK

LEMMA EntryType ==
    ASSUME TypeOK,
           \/ \E bps \in FeeRates : UpdateServiceCharge(bps)
           \/ \E new_deadline \in Instants : ExtendActiveDeadline(new_deadline)
           \/ BeginUploadPhase
           \/ \E w \in Wallets : DisqualifyParticipant(w)
           \/ \E w \in Wallets : IssueReceipt(w)
           \/ \E w \in Wallets : AttestUploaded(w)
           \/ \E w \in Wallets, c \in Commitments : Participate(w, c)
    PROVE  TypeOK'
<1>1. CASE \E bps \in FeeRates : UpdateServiceCharge(bps)
  <2> PICK bps \in FeeRates : UpdateServiceCharge(bps)
    BY <1>1
  <2>1. config' \in ConfigType
    BY AmountsAssumption DEF UpdateServiceCharge, TypeOK, ConfigType
  <2> QED  BY <2>1 DEF UpdateServiceCharge, TypeOK
<1>2. CASE \E new_deadline \in Instants : ExtendActiveDeadline(new_deadline)
  <2> PICK new_deadline \in Instants : ExtendActiveDeadline(new_deadline)
    BY <1>2
  <2>1. new_deadline \in Nat
    BY DurationsAssumption DEF Instants
  <2>2. upload_deadline_unix - upload_start_unix \in Nat
    BY DurationsAssumption DEF ExtendActiveDeadline, UploadDurations
  <2>3. new_deadline + (upload_deadline_unix - upload_start_unix) \in Nat
    BY <2>1, <2>2
  <2> QED  BY <2>1, <2>3 DEF ExtendActiveDeadline, TypeOK
<1>3. CASE BeginUploadPhase
  <2>1. config.default_upload_duration_secs \in Nat
    BY DurationsAssumption DEF TypeOK, ConfigType, UploadDurations
  <2> QED  BY <1>3, <2>1 DEF BeginUploadPhase, EarlyActiveDeadline, TypeOK
<1>4. CASE \E w \in Wallets : DisqualifyParticipant(w)
  BY <1>4 DEF DisqualifyParticipant, TypeOK
<1>5. CASE \E w \in Wallets : IssueReceipt(w)
  BY <1>5 DEF IssueReceipt, TypeOK
<1>6. CASE \E w \in Wallets : AttestUploaded(w)
  BY <1>6 DEF AttestUploaded, TypeOK
<1>7. CASE \E w \in Wallets, c \in Commitments : Participate(w, c)
  BY <1>7 DEF Participate, TypeOK
<1> QED  BY <1>1, <1>2, <1>3, <1>4, <1>5, <1>6, <1>7

-----------------------------------------------------------------------------
\* The instructions after attestation.
LEMMA BeginRemediationType ==
    ASSUME TypeOK, BeginRemediation
    PROVE  remediation_start_unix' \in Nat /\ remediation_deadline_unix' \in Nat
BY DurationsAssumption DEF BeginRemediation, TypeOK

LEMMA UploadRevealsType ==
    ASSUME TypeOK, NEW by_authority \in BOOLEAN, NEW batch \in SUBSET Reveals,
           UploadReveals(by_authority, batch)
    PROVE  TypeOK'
<1>1. remediation_start_unix' \in Nat /\ remediation_deadline_unix' \in Nat
  <2>1. CASE UNCHANGED remediationVars
    BY <2>1 DEF TypeOK
  <2>2. CASE BeginRemediation
    BY <2>2, BeginRemediationType
  <2> QED  BY <2>1, <2>2 DEF UploadReveals
<1>2. reveal_included' \subseteq Wallets
  BY DEF UploadReveals, TypeOK, Reveals
<1>3. provider_uploaded_count' \in Nat
  <2>1. Cardinality(batch) \in Nat
    BY DEF UploadReveals
  <2> QED  BY <2>1 DEF UploadReveals, TypeOK
<1>4. poc_aggregate_hash' \in Seeds
  BY DEF UploadReveals, TypeOK, XorDigests, Seeds
<1>5. uploads_complete' \in BOOLEAN
  BY DEF UploadReveals
<1> QED  BY <1>1, <1>2, <1>3, <1>4, <1>5 DEF UploadReveals, TypeOK

LEMMA PublishWinnersType ==
    ASSUME TypeOK, NEW ledger \in FinalizationLedgerType, PublishWinners(ledger)
    PROVE  /\ winners_ledger' \in WinnersLedgerType
           /\ winners_computed' \in BOOLEAN
           /\ recompute_version' \in Nat
<1> DEFINE S == ledger.candidates
           n == Cardinality(S)
           list == InRankOrder(ledger.seed, S)
<1>1. S \in SUBSET Wallets /\ ledger.seed \in Seeds
  BY DEF FinalizationLedgerType
<1>2. n \in Nat
  BY <1>1, WalletSetsFinite
<1>3. list \in Seq(Wallets)
  <2>1. list \in [1..n -> S]
    BY <1>1, RankOrderIsSorted
  <2>2. list \in [1..n -> Wallets]
    BY <1>1, <2>1
  <2> HIDE DEF list, n
  <2> QED  BY <1>2, <2>2
<1>4. PerWinnerPayout(n) \in Nat
  <2>1. WinnersPool \in Nat
    BY AmountsType DEF WinnersPool, TypeOK, TermsType
  <2> HIDE DEF n
  <2> QED  BY <1>2, <2>1 DEF PerWinnerPayout
<1>5. winners_ledger' = [NoWinnersLedger EXCEPT
                            !.computed = TRUE, !.winner_wallets = list,
                            !.winners_count = n,
                            !.per_winner_lamports = PerWinnerPayout(n)]
  BY DEF PublishWinners
<1>6. winners_ledger' \in WinnersLedgerType
  <2> HIDE DEF list, n
  <2> QED  BY <1>2, <1>3, <1>4, <1>5 DEF NoWinnersLedger, WinnersLedgerType
<1> QED  BY <1>6 DEF PublishWinners, TypeOK

LEMMA FinalizeWinnersType ==
    ASSUME TypeOK, FinalizeWinners
    PROVE  TypeOK'
<1>1. CASE FinalizeOpensRemediation
  BY <1>1, BeginRemediationType DEF FinalizeOpensRemediation, TypeOK
<1>2. CASE \E chunk \in SUBSET Wallets : FinalizeChunk(chunk)
  <2> PICK chunk \in SUBSET Wallets : FinalizeChunk(chunk)
    BY <1>2
  <2> DEFINE start == StartedLedger
             eligible == (chunk \cap reveal_included) \ disqualified
             ledger == RecordChunk(start, chunk, eligible)
             completed == ledger.processed_count = provider_uploaded_count
  <2>1. start \in FinalizationLedgerType
    BY StartedLedgerType
  <2>2. ledger \in FinalizationLedgerType
    <3>1. eligible \in SUBSET Wallets
      OBVIOUS
    <3> QED  BY <2>1, <3>1, RecordChunkType
  <2>3. finalization_ledger' \in FinalizationLedgerType
    <3>1. finalization_ledger' = [ledger EXCEPT !.completed = completed]
      BY DEF FinalizeChunk
    <3>2. completed \in BOOLEAN
      OBVIOUS
    <3> HIDE DEF ledger, completed
    <3> QED  BY <2>2, <3>1, <3>2 DEF FinalizationLedgerType
  <2>4. finalization_version' \in [Wallets -> Nat]
    <3>1. finalization_version' =
            [w \in Wallets |-> IF w \in chunk THEN start.recompute_version
                               ELSE finalization_version[w]]
      BY DEF FinalizeChunk
    <3>2. start.recompute_version \in Nat
      BY <2>1 DEF FinalizationLedgerType
    <3> QED  BY <3>1, <3>2 DEF TypeOK
  <2>5. /\ winners_ledger' \in WinnersLedgerType
        /\ winners_computed' \in BOOLEAN
        /\ recompute_version' \in Nat
    <3>1. CASE PublishWinners(ledger)
      BY <2>2, <3>1, PublishWinnersType
    <3>2. CASE UNCHANGED <<winners_ledger, winners_computed, recompute_version>>
      BY <3>2 DEF TypeOK
    <3> QED  BY <3>1, <3>2 DEF FinalizeChunk
  <2> QED  BY <2>3, <2>4, <2>5 DEF FinalizeChunk, TypeOK
<1> QED  BY <1>1, <1>2 DEF FinalizeWinners

\* Locking, payout and refund.
LEMMA CloseVaultType ==
    ASSUME TypeOK, NEW balance \in [Accounts -> Int]
    PROVE  CloseVault(balance) \in [Accounts -> Int]
<1>1. ServiceFee \in Int
  BY AmountsType DEF ServiceFee, TypeOK, TermsType
<1>2. Creator \in Accounts /\ Authority \in Accounts /\ Vault \in Accounts
  BY DEF Accounts
<1> DEFINE charged == Transfer(balance, Vault, Authority, ServiceFee)
<1>3. charged \in [Accounts -> Int]
  BY <1>1, <1>2, TransferType
<1>4. charged[Vault] \in Int
  BY <1>2, <1>3
<1>5. CloseVault(balance) = Transfer(charged, Vault, Creator, charged[Vault])
  BY DEF CloseVault
<1>6. ASSUME NEW b \in [Accounts -> Int], NEW amount \in Int
      PROVE  Transfer(b, Vault, Creator, amount) \in [Accounts -> Int]
  BY <1>2, TransferType
<1> HIDE DEF charged
<1>7. Transfer(charged, Vault, Creator, charged[Vault]) \in [Accounts -> Int]
  BY <1>3, <1>4, <1>6
<1> QED  BY <1>5, <1>7

LEMMA PayoutType ==
    ASSUME TypeOK, PayoutBatch
    PROVE  TypeOK'
<1> PICK batch \in SUBSET (1..winners_ledger.winners_count) :
            SettlePayoutBatch(batch)
  BY DEF PayoutBatch
<1> DEFINE paid == winners_ledger.paid_count + Cardinality(batch)
<1>0. winners_ledger \in WinnersLedgerType /\ Cardinality(batch) \in Nat
  BY DEF SettlePayoutBatch, TypeOK
<1>1. PayWinners(batch) \in [Accounts -> Int]
  <2>1. winners_ledger.per_winner_lamports * Cardinality(batch) \in Int
        /\ winners_ledger.per_winner_lamports \in Int
    BY <1>0 DEF WinnersLedgerType
  <2> QED  BY <2>1 DEF PayWinners, TypeOK
<1>2. lamports' \in [Accounts -> Int]
  <2>1. CASE lamports' = PayWinners(batch)
    BY <1>1, <2>1
  <2>2. CASE lamports' = CloseVault(PayWinners(batch))
    BY <1>1, <2>2, CloseVaultType
  <2> QED  BY <2>1, <2>2 DEF SettlePayoutBatch
<1>3. winners_ledger' \in WinnersLedgerType
  <2>1. paid \in Nat /\ winners_ledger.paid \cup batch \in SUBSET Nat
    <3>1. /\ winners_ledger.paid_count \in Nat
          /\ winners_ledger.winners_count \in Nat
          /\ winners_ledger.paid \in SUBSET Nat
      BY <1>0 DEF WinnersLedgerType
    <3>2. paid \in Nat
      BY <1>0, <3>1
    <3>3. batch \in SUBSET Nat
      BY <3>1
    <3> QED  BY <3>1, <3>2, <3>3
  <2>2. winners_ledger' = [winners_ledger EXCEPT
                              !.paid = winners_ledger.paid \cup batch,
                              !.paid_count = paid,
                              !.settlement_started = TRUE]
    BY DEF SettlePayoutBatch
  <2> HIDE DEF paid
  <2> QED  BY <1>0, <2>1, <2>2 DEF WinnersLedgerType
<1>4. settled' \in BOOLEAN
  BY DEF SettlePayoutBatch
<1>5. UNCHANGED <<frameVars, uploads_complete, remediationVars, revealVars,
                  drawVars, winners_locked>>
  BY DEF SettlePayoutBatch
<1> QED  BY <1>2, <1>3, <1>4, <1>5 DEF TypeOK

LEMMA SettlementType ==
    ASSUME TypeOK, LockWinners \/ SettleGiveaway
    PROVE  TypeOK'
<1>1. CASE LockWinners
  <2>1. winners_ledger' = [winners_ledger EXCEPT !.locked = TRUE]
        /\ winners_ledger \in WinnersLedgerType
    BY <1>1 DEF LockWinners, TypeOK
  <2>2. winners_ledger' \in WinnersLedgerType
    BY <2>1 DEF WinnersLedgerType
  <2>3. UNCHANGED <<frameVars, uploads_complete, remediationVars, revealVars,
                    drawVars, settled, lamports>> /\ winners_locked' = TRUE
    BY <1>1 DEF LockWinners
  <2> QED  BY <2>2, <2>3 DEF TypeOK
<1>2. CASE SettleGiveaway
  <2>1. Creator \in Accounts /\ Vault \in Accounts
    BY DEF Accounts
  <2>2. lamports \in [Accounts -> Int] /\ lamports[Vault] \in Int
    BY <2>1 DEF TypeOK
  <2>3. lamports' = Transfer(lamports, Vault, Creator, lamports[Vault])
    BY <1>2 DEF SettleGiveaway
  <2>4. lamports' \in [Accounts -> Int]
    BY <2>1, <2>2, <2>3, TransferType
  <2>5. UNCHANGED <<frameVars, uploads_complete, remediationVars, revealVars,
                    drawVars, winners_ledger, winners_locked>> /\ settled' = TRUE
    BY <1>2 DEF SettleGiveaway
  <2> QED  BY <2>4, <2>5 DEF TypeOK
<1> QED  BY <1>1, <1>2

-----------------------------------------------------------------------------
\* A step of Next is a step of one of the instructions, or of the clock.
LEMMA NextCases ==
    ASSUME Next
    PROVE  \/ Tick
           \/ \E total \in Payouts, n \in WinnerCounts, start, deadline \in Instants,
                 duration \in UploadDurations :
                    CreateGiveaway(total, n, start, deadline, duration)
           \/ \E bps \in FeeRates : UpdateServiceCharge(bps)
           \/ \E new_deadline \in Instants : ExtendActiveDeadline(new_deadline)
           \/ BeginUploadPhase
           \/ \E w \in Wallets : DisqualifyParticipant(w)
           \/ \E w \in Wallets : IssueReceipt(w)
           \/ \E w \in Wallets : AttestUploaded(w)
           \/ \E w \in Wallets, c \in Commitments : Participate(w, c)
           \/ \E by_authority \in BOOLEAN, batch \in SUBSET Reveals :
                    UploadReveals(by_authority, batch)
           \/ FinalizeOpensRemediation
           \/ \E chunk \in SUBSET Wallets : FinalizeChunk(chunk)
           \/ LockWinners
           \/ PayoutBatch
           \/ SettleGiveaway
BY DEF Next, CreatorInstruction, AuthorityInstruction, ParticipantInstruction,
       ThirdPartyInstruction, FinalizeWinners

LEMMA NextType == TypeOK /\ [Next]_vars => TypeOK'
<1> SUFFICES ASSUME TypeOK, [Next]_vars PROVE TypeOK'
  OBVIOUS
<1>1. CASE UNCHANGED vars
  BY <1>1 DEF vars, TypeOK
<1>2. CASE Tick
  BY <1>2 DEF Tick, TypeOK
<1>3. CASE Next /\ ~Tick
  BY <1>3, NextCases, CreateGiveawayType, EntryType, UploadRevealsType,
     FinalizeWinnersType, PayoutType, SettlementType DEF FinalizeWinners
<1> QED  BY <1>1, <1>2, <1>3

\* Every reachable state is well typed: in particular counters never go
\* negative, windows stay instants, and the winner list is a sequence of wallets.
THEOREM TypeCorrect == Spec => []TypeOK
<1>1. Init => TypeOK
  BY InitType
<1>2. TypeOK /\ [Next]_vars => TypeOK'
  BY NextType
<1> QED  BY <1>1, <1>2, PTL DEF Spec

-----------------------------------------------------------------------------
(* The entropy *)

HIDE DEF MIN_WINNERS, MAX_WINNERS, MIN_WINNER_PAYOUT_LAMPORTS

LEMMA EntropyInit == Init => EntropyInvariant
<1> SUFFICES ASSUME Init PROVE EntropyInvariant
  OBVIOUS
<1>1. /\ active_deadline_unix = 0 /\ upload_start_unix = 0
      /\ enrolled = {} /\ attested_uploaded = {} /\ reveal_included = {}
      /\ poc_aggregate_hash = {}
  BY DEF Init
<1> QED  BY <1>1 DEF EntropyInvariant, AggregateIsIncludedReveals

\* Instructions that leave the entry, attestation and reveal accounts alone
\* keep the invariant if they keep the windows, or move them before anybody
\* has attested.
LEMMA EntropyFrame ==
    ASSUME TypeOK, EntropyInvariant,
           UNCHANGED <<entryVars, disqualificationVars, attestationVars, revealVars>>,
           receipts \subseteq receipts',
           active_deadline_unix' <= upload_start_unix',
           created' \/ created' = created,
           attested_uploaded # {} => now' >= upload_start_unix'
    PROVE  EntropyInvariant'
<1>1. /\ enrolled' = enrolled /\ commitment_hash' = commitment_hash
      /\ disqualified' = disqualified /\ attested_uploaded' = attested_uploaded
      /\ reveal_included' = reveal_included
      /\ poc_aggregate_hash' = poc_aggregate_hash
  OBVIOUS
<1>2. AggregateIsIncludedReveals'
  BY <1>1 DEF EntropyInvariant, AggregateIsIncludedReveals
<1>3. attested_uploaded' \subseteq enrolled' \ disqualified'
      /\ reveal_included' \subseteq attested_uploaded'
  BY <1>1 DEF EntropyInvariant
<1>4. \A w \in attested_uploaded' : <<w, commitment_hash'[w]>> \in receipts'
  BY <1>1 DEF EntropyInvariant
<1>5. ~created' => enrolled' = {}
  BY <1>1 DEF EntropyInvariant
<1>6. attested_uploaded' # {} => now' >= upload_start_unix'
  BY <1>1
<1> QED  BY <1>2, <1>3, <1>4, <1>5, <1>6 DEF EntropyInvariant

\* While entry or eligibility is open, nobody has attested and no reveal is in.
LEMMA NobodyAttestedBefore ==
    ASSUME TypeOK, EntropyInvariant,
           now < active_deadline_unix \/ now < upload_start_unix
    PROVE  attested_uploaded = {} /\ reveal_included = {} /\ poc_aggregate_hash = {}
<1>1. attested_uploaded = {}
  BY DEF TypeOK, EntropyInvariant
<1>2. reveal_included = {}
  BY <1>1 DEF EntropyInvariant
<1> QED  BY <1>1, <1>2 DEF EntropyInvariant, AggregateIsIncludedReveals

LEMMA UploadRevealsEntropy ==
    ASSUME TypeOK, EntropyInvariant, NEW by_authority \in BOOLEAN,
           NEW batch \in SUBSET Reveals, UploadReveals(by_authority, batch)
    PROVE  EntropyInvariant'
<1> DEFINE revealed == {r[1] : r \in batch}
<1>1. \A r \in batch : /\ r = <<r[1], r[2]>>
                       /\ r[1] \in attested_uploaded \ reveal_included
                       /\ r[2] = commitment_hash[r[1]]
  BY DEF UploadReveals, ValidReveal, Reveals
<1>2. reveal_included' = reveal_included \cup revealed
  BY DEF UploadReveals
<1>3. batch = {<<w, commitment_hash[w]>> : w \in revealed}
  BY <1>1
<1>4. batch \cap poc_aggregate_hash = {}
  BY <1>1 DEF EntropyInvariant, AggregateIsIncludedReveals
<1>5. poc_aggregate_hash' = poc_aggregate_hash \cup batch
  BY <1>4 DEF UploadReveals, XorDigests
<1>6. UNCHANGED frameVars
  BY DEF UploadReveals
<1>7. reveal_included' \subseteq attested_uploaded
  BY <1>1, <1>2 DEF EntropyInvariant
<1>8. poc_aggregate_hash' = {<<w, commitment_hash[w]>> : w \in reveal_included'}
  BY <1>2, <1>3, <1>5 DEF EntropyInvariant, AggregateIsIncludedReveals
<1> QED  BY <1>6, <1>7, <1>8 DEF EntropyInvariant, AggregateIsIncludedReveals

LEMMA EntropyStep ==
    ASSUME TypeOK, EntropyInvariant, [Next]_vars
    PROVE  EntropyInvariant'
<1>1. CASE UNCHANGED vars
  BY <1>1 DEF vars, EntropyInvariant, AggregateIsIncludedReveals
<1>2. CASE Tick
  <2>1. now' = now + 1 /\ now \in Nat /\ upload_start_unix \in Nat
    BY <1>2 DEF Tick, TypeOK
  <2>2. attested_uploaded # {} => now' >= upload_start_unix'
    BY <1>2, <2>1 DEF Tick, EntropyInvariant
  <2> QED  BY <1>2, <2>2, EntropyFrame DEF Tick, EntropyInvariant
<1>3. ASSUME NEW total \in Payouts, NEW n \in WinnerCounts, NEW start \in Instants,
             NEW deadline \in Instants, NEW duration \in UploadDurations,
             CreateGiveaway(total, n, start, deadline, duration)
      PROVE  EntropyInvariant'
  <2>1. deadline \in Nat
    BY DurationsAssumption DEF Instants
  <2>2. /\ active_deadline_unix' = deadline /\ upload_start_unix' = deadline
        /\ created' = TRUE /\ attested_uploaded = {}
    BY <1>3 DEF CreateGiveaway, EntropyInvariant
  <2>3. UNCHANGED <<entryVars, disqualificationVars, attestationVars, revealVars,
                    receipts>>
    BY <1>3 DEF CreateGiveaway
  <2> QED  BY <2>1, <2>2, <2>3, EntropyFrame
<1>4. ASSUME NEW bps \in FeeRates, UpdateServiceCharge(bps)
      PROVE  EntropyInvariant'
  BY <1>4, EntropyFrame DEF UpdateServiceCharge, EntropyInvariant
<1>5. ASSUME NEW new_deadline \in Instants, ExtendActiveDeadline(new_deadline)
      PROVE  EntropyInvariant'
  <2>1. new_deadline \in Nat
    BY DurationsAssumption DEF Instants
  <2>2. attested_uploaded = {}
    BY <1>5, NobodyAttestedBefore DEF ExtendActiveDeadline, CanExtend
  <2> QED  BY <1>5, <2>1, <2>2, EntropyFrame DEF ExtendActiveDeadline
<1>6. CASE BeginUploadPhase
  <2>1. /\ active_deadline_unix' = EarlyActiveDeadline /\ upload_start_unix' = now
        /\ now' = now
    BY <1>6 DEF BeginUploadPhase
  <2>2. active_deadline_unix' <= upload_start_unix'
    BY <2>1 DEF EarlyActiveDeadline, TypeOK
  <2>3. now' >= upload_start_unix'
    BY <2>1 DEF TypeOK
  <2> QED  BY <1>6, <2>2, <2>3, EntropyFrame DEF BeginUploadPhase
<1>7. ASSUME NEW w \in Wallets, DisqualifyParticipant(w)
      PROVE  EntropyInvariant'
  <2>1. attested_uploaded = {} /\ reveal_included = {} /\ poc_aggregate_hash = {}
    BY <1>7, NobodyAttestedBefore DEF DisqualifyParticipant, EligibilityOpen
  <2> QED  BY <1>7, <2>1 DEF DisqualifyParticipant, EntropyInvariant,
                             AggregateIsIncludedReveals
<1>8. ASSUME NEW w \in Wallets, IssueReceipt(w)
      PROVE  EntropyInvariant'
  BY <1>8, EntropyFrame DEF IssueReceipt, EntropyInvariant
<1>9. ASSUME NEW w \in Wallets, AttestUploaded(w)
      PROVE  EntropyInvariant'
  <2>1. now >= upload_start_unix
    BY <1>9 DEF AttestUploaded, IsInUploadPhase, TypeOK
  <2> QED  BY <1>9, <2>1 DEF AttestUploaded, HoldsReceipt, EntropyInvariant,
                             AggregateIsIncludedReveals
<1>10. ASSUME NEW w \in Wallets, NEW c \in Commitments, Participate(w, c)
       PROVE  EntropyInvariant'
  <2>1. attested_uploaded = {} /\ reveal_included = {} /\ poc_aggregate_hash = {}
    BY <1>10, NobodyAttestedBefore DEF Participate, IsInActivePhase
  <2> QED  BY <1>10, <2>1 DEF Participate, EntropyInvariant,
                              AggregateIsIncludedReveals
<1>11. CASE \/ FinalizeOpensRemediation \/ LockWinners \/ SettleGiveaway
            \/ \E chunk \in SUBSET Wallets : FinalizeChunk(chunk)
            \/ PayoutBatch
  <2>1. UNCHANGED <<frameVars, revealVars>>
    BY <1>11 DEF FinalizeOpensRemediation, LockWinners, SettleGiveaway,
                 FinalizeChunk, PayoutBatch, SettlePayoutBatch
  <2> QED  BY <2>1 DEF EntropyInvariant, AggregateIsIncludedReveals
<1> QED
  BY <1>1, <1>2, <1>3, <1>4, <1>5, <1>6, <1>7, <1>8, <1>9, <1>10, <1>11,
     NextCases, UploadRevealsEntropy

\* The invariant that carries the results below, on attestations, commitments
\* and what is XORed, holds for any number of participants.
THEOREM EntropyInvariantHolds == Spec => []EntropyInvariant
<1>1. Init => EntropyInvariant
  BY EntropyInit
<1>2. TypeOK /\ EntropyInvariant /\ [Next]_vars => EntropyInvariant'
  BY EntropyStep
<1> QED  BY <1>1, <1>2, TypeCorrect, PTL DEF Spec

-----------------------------------------------------------------------------
\* Disqualification and attestation exclude each other, whatever
\* extend_active_deadline and begin_upload_phase do to the windows.
THEOREM DisqualificationBeforeAttestation == Spec => []DisqualifiedNeverAttested
<1>1. EntropyInvariant => DisqualifiedNeverAttested
  BY DEF EntropyInvariant, DisqualifiedNeverAttested
<1> QED  BY <1>1, EntropyInvariantHolds, PTL

\* Every reveal in the entropy is one the provider signed a receipt for.
THEOREM OnlyReceiptedEntropy == Spec => []EntropyIsReceipted
<1>1. EntropyInvariant => EntropyIsReceipted
  BY DEF EntropyInvariant, EntropyIsReceipted, AggregateIsIncludedReveals
<1> QED  BY <1>1, EntropyInvariantHolds, PTL

\* No reveal cancels out of the XOR and none is left out of it.
THEOREM AggregateIsExact == Spec => []AggregateIsIncludedReveals
<1>1. EntropyInvariant => AggregateIsIncludedReveals
  BY DEF EntropyInvariant
<1> QED  BY <1>1, EntropyInvariantHolds, PTL

\* No step changes the commitment of a participant who has attested.
THEOREM AttestedCommitmentsFrozen == Spec => CommitmentFrozenByAttestation
<1>1. TypeOK /\ EntropyInvariant /\ [Next]_vars =>
        [\A w \in attested_uploaded : commitment_hash'[w] = commitment_hash[w]]_vars
  <2> SUFFICES ASSUME TypeOK, EntropyInvariant, Next
               PROVE  \A w \in attested_uploaded :
                        commitment_hash'[w] = commitment_hash[w]
    OBVIOUS
  <2>1. CASE \E w \in Wallets, c \in Commitments : Participate(w, c)
    <3>1. attested_uploaded = {}
      BY <2>1, NobodyAttestedBefore DEF Participate, IsInActivePhase
    <3> QED  BY <3>1
  <2>2. CASE ~\E w \in Wallets, c \in Commitments : Participate(w, c)
    <3>1. commitment_hash' = commitment_hash
      BY <2>2, NextCases
         DEF Tick, CreateGiveaway, UpdateServiceCharge, ExtendActiveDeadline,
             BeginUploadPhase, DisqualifyParticipant, IssueReceipt,
             AttestUploaded, UploadReveals, FinalizeOpensRemediation,
             FinalizeChunk, LockWinners, PayoutBatch, SettlePayoutBatch,
             SettleGiveaway
    <3> QED  BY <3>1
  <2> QED  BY <2>1, <2>2
<1> QED
  BY <1>1, TypeCorrect, EntropyInvariantHolds, PTL
     DEF Spec, CommitmentFrozenByAttestation

-----------------------------------------------------------------------------
(* The draw *)

\* Counting a set of wallets that were not counted before.
LEMMA CountMore ==
    ASSUME NEW S \in SUBSET Wallets, NEW T \in SUBSET Wallets, S \cap T = {}
    PROVE  Cardinality(S \cup T) = Cardinality(S) + Cardinality(T)
<1>1. /\ IsFiniteSet(S) /\ IsFiniteSet(T)
      /\ Cardinality(S) \in Nat /\ Cardinality(T) \in Nat
  BY WalletSetsFinite
<1>2. Cardinality(S \cap T) = 0
  BY FS_EmptySet
<1>3. Cardinality(S \cup T) = Cardinality(S) + Cardinality(T) - Cardinality(S \cap T)
  BY <1>1, FS_Union
<1> QED  BY <1>1, <1>2, <1>3

LEMMA NoBestOfNone ==
    ASSUME NEW seed, NEW k
    PROVE  TopK(seed, {}, k) = {}
BY DEF TopK

-----------------------------------------------------------------------------
LEMMA DrawInit == Init => DrawInvariant
<1> SUFFICES ASSUME Init PROVE DrawInvariant
  OBVIOUS
<1>1. /\ participants_count = 0 /\ attested_count = 0 /\ provider_uploaded_count = 0
      /\ disqualified_count = 0 /\ recompute_version = 0 /\ winners_computed = FALSE
      /\ enrolled = {} /\ attested_uploaded = {} /\ reveal_included = {}
      /\ disqualified = {}
      /\ finalization_version = [w \in Wallets |-> 0]
      /\ finalization_ledger = NoFinalizationLedger
      /\ winners_ledger = NoWinnersLedger
  BY DEF Init
<1>2. Finalised = {}
  BY <1>1 DEF Finalised
<1>3. /\ winners_ledger.computed = FALSE /\ winners_ledger.paid = {}
      /\ winners_ledger.paid_count = 0
  BY <1>1 DEF NoWinnersLedger
<1>4. /\ finalization_ledger.started = FALSE /\ finalization_ledger.completed = FALSE
      /\ finalization_ledger.processed_count = 0
      /\ finalization_ledger.candidates = {}
  BY <1>1 DEF NoFinalizationLedger
<1>5. CountersMatchAccounts
  BY <1>1, <1>2, <1>3, <1>4, FS_EmptySet DEF CountersMatchAccounts
<1>6. DrawnOnce
  BY <1>1, <1>4 DEF DrawnOnce
<1>7. LedgerInvariant
  <2>1. \A w \in Wallets : finalization_version[w] \in {0, 1}
    BY <1>1
  <2>2. winners_computed <=> recompute_version = 1
    BY <1>1
  <2>3. winners_ledger.computed = winners_computed
    BY <1>1, <1>3
  <2>4. finalization_ledger.candidates =
            TopK(finalization_ledger.seed, Finalised,
                 finalization_ledger.target_winners)
    BY <1>2, <1>4, NoBestOfNone
  <2> QED  BY <1>2, <1>4, <2>1, <2>2, <2>3, <2>4 DEF LedgerInvariant
<1> QED
  BY <1>1, <1>3, <1>5, <1>6, <1>7 DEF DrawInvariant, WinnersAreTopKOfIncluded

\* Instructions outside the draw: they may count participants, move the windows,
\* or pay winners, but keep what has been drawn.
LEMMA DrawFrame ==
    ASSUME TypeOK, DrawInvariant,
           UNCHANGED <<drawVars, revealVars, terms>>,
           created => created',
           disqualified' = disqualified \/ reveal_included = {},
           participants_count' = Cardinality(enrolled'),
           attested_count' = Cardinality(attested_uploaded'),
           disqualified_count' = Cardinality(disqualified'),
           winners_ledger'.computed = winners_ledger.computed,
           winners_ledger'.winner_wallets = winners_ledger.winner_wallets,
           winners_ledger'.paid_count = Cardinality(winners_ledger'.paid),
           winners_ledger'.paid \subseteq 1..winners_ledger'.winners_count
    PROVE  DrawInvariant'
<1>1. Finalised' = Finalised
  BY DEF Finalised
<1>2. CountersMatchAccounts'
  BY <1>1 DEF DrawInvariant, CountersMatchAccounts
<1>3. DrawnOnce'
  BY DEF DrawInvariant, DrawnOnce
<1>4. LedgerInvariant'
  BY <1>1 DEF DrawInvariant, LedgerInvariant
<1>5. reveal_included' \ disqualified' = reveal_included \ disqualified
  OBVIOUS
<1>6. WinnersAreTopKOfIncluded'
  BY <1>5 DEF DrawInvariant, WinnersAreTopKOfIncluded
<1> QED  BY <1>2, <1>3, <1>4, <1>6 DEF DrawInvariant

\* A frame in which the winners ledger does not change either.
LEMMA DrawFrameBeforePayout ==
    ASSUME TypeOK, DrawInvariant,
           UNCHANGED <<drawVars, revealVars, terms, winners_ledger>>,
           created => created',
           disqualified' = disqualified \/ reveal_included = {},
           participants_count' = Cardinality(enrolled'),
           attested_count' = Cardinality(attested_uploaded'),
           disqualified_count' = Cardinality(disqualified')
    PROVE  DrawInvariant'
<1>1. /\ winners_ledger'.paid_count = Cardinality(winners_ledger'.paid)
      /\ winners_ledger'.paid \subseteq 1..winners_ledger'.winners_count
  BY DEF DrawInvariant, CountersMatchAccounts
<1> QED  BY <1>1, DrawFrame

-----------------------------------------------------------------------------
\* No winners, no ledger: before a giveaway is created nothing has been drawn.
LEMMA DrawCreate ==
    ASSUME TypeOK, DrawInvariant, NEW total \in Payouts, NEW n \in WinnerCounts,
           NEW start \in Instants, NEW deadline \in Instants,
           NEW duration \in UploadDurations,
           CreateGiveaway(total, n, start, deadline, duration)
    PROVE  DrawInvariant'
<1>1. /\ ~created
      /\ UNCHANGED <<drawVars, revealVars, winners_ledger, entryVars,
                     attestationVars, disqualificationVars>>
  BY DEF CreateGiveaway
<1>2. ~finalization_ledger.started /\ ~finalization_ledger.completed
  BY <1>1 DEF DrawInvariant, LedgerInvariant
<1>3. ~winners_computed /\ Finalised' = Finalised
  BY <1>1, <1>2 DEF DrawInvariant, LedgerInvariant, DrawnOnce, Finalised
<1>4. CountersMatchAccounts' /\ DrawnOnce'
  BY <1>1, <1>3 DEF DrawInvariant, CountersMatchAccounts, DrawnOnce
<1>5. LedgerInvariant'
  BY <1>1, <1>2, <1>3 DEF DrawInvariant, LedgerInvariant
<1>6. WinnersAreTopKOfIncluded'
  BY <1>1, <1>3 DEF WinnersAreTopKOfIncluded
<1> QED  BY <1>1, <1>4, <1>5, <1>6 DEF DrawInvariant

LEMMA DrawUploadReveals ==
    ASSUME TypeOK, DrawInvariant, NEW by_authority \in BOOLEAN,
           NEW batch \in SUBSET Reveals, UploadReveals(by_authority, batch)
    PROVE  DrawInvariant'
<1> DEFINE revealed == {r[1] : r \in batch}
<1>1. /\ UNCHANGED <<frameVars, drawVars, payoutVars>>
      /\ ~winners_computed
      /\ reveal_included' = reveal_included \cup revealed
      /\ provider_uploaded_count' = provider_uploaded_count + Cardinality(batch)
      /\ Cardinality(revealed) = Cardinality(batch)
  BY DEF UploadReveals
<1>2. revealed \in SUBSET Wallets /\ reveal_included \cap revealed = {}
  BY DEF UploadReveals, ValidReveal, Reveals
<1>3. provider_uploaded_count' = Cardinality(reveal_included')
  <2>1. reveal_included \in SUBSET Wallets
        /\ provider_uploaded_count = Cardinality(reveal_included)
    BY DEF TypeOK, DrawInvariant, CountersMatchAccounts
  <2> HIDE DEF revealed
  <2>2. Cardinality(reveal_included \cup revealed)
            = Cardinality(reveal_included) + Cardinality(revealed)
    BY <1>2, <2>1, CountMore
  <2> QED  BY <1>1, <2>1, <2>2
<1>4. Finalised' = Finalised
  BY <1>1 DEF Finalised
<1>5. CountersMatchAccounts' /\ DrawnOnce'
  BY <1>1, <1>3, <1>4 DEF DrawInvariant, CountersMatchAccounts, DrawnOnce
<1>6. LedgerInvariant'
  BY <1>1, <1>4 DEF DrawInvariant, LedgerInvariant
<1>7. WinnersAreTopKOfIncluded'
  BY <1>1 DEF WinnersAreTopKOfIncluded
<1> QED  BY <1>1, <1>5, <1>6, <1>7 DEF DrawInvariant

LEMMA DrawPayout ==
    ASSUME TypeOK, DrawInvariant, PayoutBatch
    PROVE  DrawInvariant'
<1> PICK batch \in SUBSET (1..winners_ledger.winners_count) :
            SettlePayoutBatch(batch)
  BY DEF PayoutBatch
<1> DEFINE W == winners_ledger
           count == W.paid_count + Cardinality(batch)
<1>1. /\ W.winners_count \in Nat /\ W.paid_count = Cardinality(W.paid)
      /\ W.paid \subseteq 1..W.winners_count
  BY DEF TypeOK, WinnersLedgerType, DrawInvariant, CountersMatchAccounts
<1>2. /\ UNCHANGED <<frameVars, revealVars, drawVars>>
      /\ winners_ledger' = [winners_ledger EXCEPT !.paid = W.paid \cup batch,
                                                  !.paid_count = count,
                                                  !.settlement_started = TRUE]
      /\ batch \subseteq (1..W.winners_count) \ W.paid
  BY DEF SettlePayoutBatch, Payable
<1>3. winners_ledger \in WinnersLedgerType
  BY DEF TypeOK
<1>4. /\ winners_ledger'.computed = W.computed
      /\ winners_ledger'.winner_wallets = W.winner_wallets
      /\ winners_ledger'.winners_count = W.winners_count
      /\ winners_ledger'.paid = W.paid \cup batch
      /\ winners_ledger'.paid_count = count
  <2> HIDE DEF count
  <2> QED  BY <1>2, <1>3 DEF WinnersLedgerType
<1>5. count = Cardinality(W.paid \cup batch)
  <2>1. IsFiniteSet(1..W.winners_count)
    BY <1>1, FS_Interval
  <2>2. IsFiniteSet(W.paid) /\ IsFiniteSet(batch)
    BY <1>1, <2>1, FS_Subset
  <2>3. Cardinality(W.paid) \in Nat /\ Cardinality(batch) \in Nat
    BY <2>2, FS_CardinalityType
  <2>4. Cardinality(W.paid \cap batch) = 0
    <3>1. W.paid \cap batch = {}
      BY <1>2
    <3> QED  BY <3>1, FS_EmptySet
  <2>5. Cardinality(W.paid \cup batch)
            = Cardinality(W.paid) + Cardinality(batch) - Cardinality(W.paid \cap batch)
    BY <2>2, FS_Union
  <2> QED  BY <1>1, <2>3, <2>4, <2>5
<1>6. winners_ledger'.paid \subseteq 1..winners_ledger'.winners_count
  BY <1>1, <1>2, <1>4
<1>7. /\ participants_count' = Cardinality(enrolled')
      /\ attested_count' = Cardinality(attested_uploaded')
      /\ disqualified_count' = Cardinality(disqualified')
  BY <1>2 DEF DrawInvariant, CountersMatchAccounts
<1> QED  BY <1>2, <1>4, <1>5, <1>6, <1>7, DrawFrame

-----------------------------------------------------------------------------
\* A chunk is disjoint from what was finalized before, and merges into it.
LEMMA DrawFinalize ==
    ASSUME TypeOK, EntropyInvariant, DrawInvariant,
           NEW chunk \in SUBSET Wallets, FinalizeChunk(chunk)
    PROVE  DrawInvariant'
<1> DEFINE start == StartedLedger
           eligible == (chunk \cap reveal_included) \ disqualified
           ledger == RecordChunk(start, chunk, eligible)
           completed == ledger.processed_count = provider_uploaded_count
           best == TopK(start.seed, start.candidates \cup eligible,
                        start.target_winners)
<1>1. /\ UNCHANGED <<frameVars, revealVars>>
      /\ FinalizeGuard
      /\ start.recompute_version = recompute_version + 1 /\ ~start.completed
      /\ chunk \subseteq reveal_included
      /\ Unfinalised(chunk, start.recompute_version)
      /\ finalization_ledger' = [ledger EXCEPT !.completed = completed]
      /\ finalization_version' =
            [w \in Wallets |-> IF w \in chunk THEN start.recompute_version
                               ELSE finalization_version[w]]
      /\ \/ completed /\ PublishWinners(ledger)
         \/ ~completed /\ UNCHANGED <<winners_ledger, winners_computed,
                                      recompute_version>>
  BY DEF FinalizeChunk
<1>2. start \in FinalizationLedgerType
  BY StartedLedgerType
<1>3. recompute_version = 0 /\ start.recompute_version = 1
  <2>1. recompute_version \in {0, 1}
    BY DEF TypeOK, DrawInvariant, DrawnOnce
  <2>2. CASE finalization_ledger.started
    BY <1>1, <2>1, <2>2 DEF StartedLedger, DrawInvariant, LedgerInvariant
  <2>3. CASE ~finalization_ledger.started
    <3>1. recompute_version # 1
      BY <2>3 DEF DrawInvariant, DrawnOnce, LedgerInvariant
    <3> QED  BY <1>1, <2>1, <3>1
  <2> QED  BY <2>2, <2>3
<1>4. /\ start.started /\ start.target_winners = terms.number_of_winners
      /\ start.candidates = TopK(start.seed, Finalised, start.target_winners)
      /\ start.processed_count = Cardinality(Finalised)
  <2>1. CASE finalization_ledger.started
    BY <2>1 DEF StartedLedger, DrawInvariant, LedgerInvariant, CountersMatchAccounts
  <2>2. CASE ~finalization_ledger.started
    <3>1. Finalised = {}
      BY <2>2 DEF DrawInvariant, LedgerInvariant
    <3> QED  BY <2>2, <3>1, NoBestOfNone, FS_EmptySet DEF StartedLedger
  <2> QED  BY <2>1, <2>2
<1> HIDE DEF start
<1>5. /\ Finalised' = Finalised \cup chunk /\ Finalised \cap chunk = {}
      /\ \A w \in Wallets : finalization_version'[w] \in {0, 1}
  <2>1. \A w \in Wallets : finalization_version[w] \in {0, 1}
    BY DEF DrawInvariant, LedgerInvariant
  <2>2. \A w \in chunk : finalization_version[w] = 0
    BY <1>1, <1>3, <2>1 DEF Unfinalised
  <2>3. \A w \in Wallets : finalization_version'[w] =
            IF w \in chunk THEN 1 ELSE finalization_version[w]
    BY <1>1, <1>3
  <2> QED  BY <2>1, <2>2, <2>3 DEF Finalised
<1>6. /\ Finalised \in SUBSET Wallets /\ Finalised' \in SUBSET Wallets
      /\ Finalised' \subseteq reveal_included /\ reveal_included \in SUBSET Wallets
  BY <1>1, <1>5 DEF Finalised, TypeOK, DrawInvariant, LedgerInvariant
<1>7. eligible = chunk
  BY <1>1 DEF EntropyInvariant
<1>8. best = TopK(start.seed, Finalised', start.target_winners)
  <2>1. start.seed \in Seeds /\ start.target_winners \in Nat
    BY <1>2 DEF FinalizationLedgerType
  <2>2. TopK(start.seed, TopK(start.seed, Finalised, start.target_winners) \cup chunk,
             start.target_winners)
          = TopK(start.seed, Finalised \cup chunk, start.target_winners)
    BY <1>6, <2>1, TopKMerges
  <2>3. start.candidates \cup eligible
            = TopK(start.seed, Finalised, start.target_winners) \cup chunk
    BY <1>4, <1>7
  <2>4. Finalised' = Finalised \cup chunk
    BY <1>5
  <2> HIDE DEF eligible
  <2> QED  BY <2>2, <2>3, <2>4
<1>9. /\ ledger = [start EXCEPT !.processed_count = ledger.processed_count,
                                !.eligible_count = ledger.eligible_count,
                                !.candidates = best]
      /\ ledger.processed_count = start.processed_count + Cardinality(chunk)
      /\ ledger.seed = start.seed /\ ledger.candidates = best
  BY <1>2 DEF RecordChunk, FinalizationLedgerType
<1>10. ledger.processed_count = Cardinality(Finalised')
  BY <1>4, <1>5, <1>6, <1>9, CountMore
<1> HIDE DEF ledger, completed, best, eligible
<1>11. /\ finalization_ledger'.started /\ finalization_ledger'.recompute_version = 1
       /\ finalization_ledger'.target_winners = start.target_winners
       /\ finalization_ledger'.seed = start.seed
       /\ finalization_ledger'.candidates = best
       /\ finalization_ledger'.processed_count = ledger.processed_count
       /\ finalization_ledger'.completed = completed
  BY <1>1, <1>2, <1>3, <1>4, <1>9 DEF FinalizationLedgerType
<1>12. /\ recompute_version' = IF completed THEN 1 ELSE 0
       /\ winners_computed' = completed
       /\ winners_ledger'.computed = completed
       /\ completed => winners_ledger'.winner_wallets = InRankOrder(start.seed, best)
       /\ winners_ledger'.paid_count = Cardinality(winners_ledger'.paid)
       /\ winners_ledger'.paid \subseteq 1..winners_ledger'.winners_count
  <2>1. ~winners_computed /\ ~winners_ledger.computed
    BY <1>3 DEF DrawInvariant, LedgerInvariant
  <2>2. CASE completed
    <3>1. PublishWinners(ledger)
      BY <1>1, <2>2
    <3>2. /\ recompute_version' = 1 /\ winners_computed' = TRUE
          /\ winners_ledger'.computed = TRUE
          /\ winners_ledger'.winner_wallets = InRankOrder(start.seed, best)
          /\ winners_ledger'.paid_count = 0 /\ winners_ledger'.paid = {}
      BY <1>3, <1>9, <3>1 DEF PublishWinners, NoWinnersLedger
    <3> QED  BY <2>2, <3>2, FS_EmptySet
  <2>3. CASE ~completed
    <3>1. UNCHANGED <<winners_ledger, winners_computed, recompute_version>>
      BY <1>1, <2>3
    <3>2. /\ recompute_version' = 0 /\ winners_ledger' = winners_ledger
          /\ winners_ledger.computed = FALSE /\ winners_computed' = FALSE
      BY <1>3, <2>1, <3>1 DEF TypeOK, WinnersLedgerType
    <3>3. completed = FALSE
      BY <2>3 DEF completed
    <3> QED  BY <3>2, <3>3 DEF DrawInvariant, CountersMatchAccounts
  <2> QED  BY <2>2, <2>3
<1>13. CountersMatchAccounts'
  BY <1>1, <1>10, <1>11, <1>12 DEF DrawInvariant, CountersMatchAccounts
<1>14. DrawnOnce'
  BY <1>11, <1>12 DEF DrawnOnce
<1>15. LedgerInvariant'
  <2>1. created'
    BY <1>1 DEF FinalizeGuard
  <2> QED  BY <1>1, <1>4, <1>5, <1>6, <1>8, <1>11, <1>12, <2>1 DEF LedgerInvariant
<1>16. WinnersAreTopKOfIncluded'
  <2> SUFFICES ASSUME completed
               PROVE  winners_ledger'.winner_wallets =
                        InRankOrder(start.seed,
                                    TopK(start.seed, reveal_included \ disqualified,
                                         terms.number_of_winners))
    BY <1>1, <1>11, <1>12 DEF WinnersAreTopKOfIncluded
  <2>1. Cardinality(Finalised') = Cardinality(reveal_included)
    BY <1>10 DEF completed, DrawInvariant, CountersMatchAccounts
  <2>2. Finalised' = reveal_included
    BY <1>6, <2>1, WalletSetsFinite, FS_Subset
  <2>3. reveal_included \ disqualified = reveal_included
    BY DEF EntropyInvariant
  <2> QED  BY <1>4, <1>8, <1>12, <2>2, <2>3
<1> QED  BY <1>12, <1>13, <1>14, <1>15, <1>16 DEF DrawInvariant

-----------------------------------------------------------------------------
LEMMA DrawStep ==
    ASSUME TypeOK, EntropyInvariant, DrawInvariant, [Next]_vars
    PROVE  DrawInvariant'
<1>0. /\ participants_count = Cardinality(enrolled)
      /\ attested_count = Cardinality(attested_uploaded)
      /\ disqualified_count = Cardinality(disqualified)
      /\ enrolled \in SUBSET Wallets /\ attested_uploaded \in SUBSET Wallets
      /\ disqualified \in SUBSET Wallets
  BY DEF TypeOK, DrawInvariant, CountersMatchAccounts
<1>1. CASE UNCHANGED vars
  BY <1>0, <1>1, DrawFrameBeforePayout DEF vars
<1>2. CASE \/ Tick \/ BeginUploadPhase \/ FinalizeOpensRemediation \/ SettleGiveaway
           \/ \E bps \in FeeRates : UpdateServiceCharge(bps)
           \/ \E new_deadline \in Instants : ExtendActiveDeadline(new_deadline)
           \/ \E w \in Wallets : IssueReceipt(w)
  <2>1. UNCHANGED <<entryVars, attestationVars, disqualificationVars, originVars,
                    drawVars, revealVars, winners_ledger>>
    BY <1>2 DEF Tick, BeginUploadPhase, FinalizeOpensRemediation, SettleGiveaway,
                UpdateServiceCharge, ExtendActiveDeadline, IssueReceipt
  <2> QED  BY <1>0, <2>1, DrawFrameBeforePayout
<1>3. ASSUME NEW w \in Wallets, DisqualifyParticipant(w)
      PROVE  DrawInvariant'
  <2>1. reveal_included = {}
    BY <1>3, NobodyAttestedBefore DEF DisqualifyParticipant, EligibilityOpen
  <2>2. disqualified_count' = Cardinality(disqualified')
    BY <1>0, <1>3, CountOne DEF DisqualifyParticipant
  <2>3. UNCHANGED <<entryVars, attestationVars, originVars, drawVars, revealVars,
                    winners_ledger>>
    BY <1>3 DEF DisqualifyParticipant
  <2> QED  BY <1>0, <2>1, <2>2, <2>3, DrawFrameBeforePayout
<1>4. ASSUME NEW w \in Wallets, AttestUploaded(w)
      PROVE  DrawInvariant'
  <2>1. attested_count' = Cardinality(attested_uploaded')
    BY <1>0, <1>4, CountOne DEF AttestUploaded
  <2>2. UNCHANGED <<entryVars, disqualificationVars, originVars, drawVars,
                    revealVars, winners_ledger>>
    BY <1>4 DEF AttestUploaded
  <2> QED  BY <1>0, <2>1, <2>2, DrawFrameBeforePayout
<1>5. ASSUME NEW w \in Wallets, NEW c \in Commitments, Participate(w, c)
      PROVE  DrawInvariant'
  <2>1. participants_count' = Cardinality(enrolled')
    <3>1. CASE w \in enrolled
      <4>1. enrolled \cup {w} = enrolled
        BY <3>1
      <4> QED  BY <1>0, <1>5, <3>1, <4>1 DEF Participate
    <3>2. CASE w \notin enrolled
      BY <1>0, <1>5, <3>2, CountOne DEF Participate
    <3> QED  BY <3>1, <3>2
  <2>2. UNCHANGED <<attestationVars, disqualificationVars, originVars, drawVars,
                    revealVars, winners_ledger>>
    BY <1>5 DEF Participate
  <2> QED  BY <1>0, <2>1, <2>2, DrawFrameBeforePayout
<1>6. CASE LockWinners
  <2>1. /\ UNCHANGED <<frameVars, revealVars, drawVars>>
        /\ winners_ledger' = [winners_ledger EXCEPT !.locked = TRUE]
    BY <1>6 DEF LockWinners
  <2>2. winners_ledger \in WinnersLedgerType
    BY DEF TypeOK
  <2>3. /\ winners_ledger'.computed = winners_ledger.computed
        /\ winners_ledger'.winner_wallets = winners_ledger.winner_wallets
        /\ winners_ledger'.winners_count = winners_ledger.winners_count
        /\ winners_ledger'.paid = winners_ledger.paid
        /\ winners_ledger'.paid_count = winners_ledger.paid_count
    BY <2>1, <2>2 DEF WinnersLedgerType
  <2>4. /\ winners_ledger'.paid_count = Cardinality(winners_ledger'.paid)
        /\ winners_ledger'.paid \subseteq 1..winners_ledger'.winners_count
    BY <2>3 DEF DrawInvariant, CountersMatchAccounts
  <2> QED  BY <1>0, <2>1, <2>3, <2>4, DrawFrame
<1> QED
  BY <1>1, <1>2, <1>3, <1>4, <1>5, <1>6, NextCases, DrawCreate,
     DrawUploadReveals, DrawPayout, DrawFinalize

\* The invariant that carries the results below, on counters, ledgers and what
\* a draw has kept so far, holds for any number of participants and chunks.
THEOREM DrawInvariantHolds == Spec => []DrawInvariant
<1>1. Init => DrawInvariant
  BY DrawInit
<1>2. TypeOK /\ EntropyInvariant /\ DrawInvariant /\ [Next]_vars => DrawInvariant'
  BY DrawStep
<1> QED  BY <1>1, <1>2, TypeCorrect, EntropyInvariantHolds, PTL DEF Spec

\* Every counter equals the number of accounts it counts, in every reachable state.
THEOREM CountersAreExact == Spec => []CountersMatchAccounts
<1>1. DrawInvariant => CountersMatchAccounts
  BY DEF DrawInvariant
<1> QED  BY <1>1, DrawInvariantHolds, PTL

\* The winners are the best of the included participants, for any rank
\* function, any number of winners and any split into chunks.
THEOREM WinnersAreTheBest == Spec => []WinnersAreTopKOfIncluded
<1>1. DrawInvariant => WinnersAreTopKOfIncluded
  BY DEF DrawInvariant
<1> QED  BY <1>1, DrawInvariantHolds, PTL

\* There is no second draw.
THEOREM OneDraw == Spec => []DrawnOnce
<1>1. DrawInvariant => DrawnOnce
  BY DEF DrawInvariant
<1> QED  BY <1>1, DrawInvariantHolds, PTL

\* A chunk finds every attested reveal included, although attestations go on
\* arriving: it compares counts, and as only attested participants are
\* included, equal counts make the two sets equal.
LEMMA ChunkFindsAllReveals ==
    ASSUME TypeOK, EntropyInvariant, DrawInvariant,
           NEW chunk \in SUBSET Wallets, FinalizeChunk(chunk)
    PROVE  attested_uploaded \subseteq reveal_included
<1>1. /\ attested_count = Cardinality(attested_uploaded)
      /\ provider_uploaded_count = Cardinality(reveal_included)
  BY DEF DrawInvariant, CountersMatchAccounts
<1>2. /\ attested_count > 0
      /\ ~(attested_count > 0 /\ provider_uploaded_count < attested_count)
  BY DEF FinalizeChunk, FinalizeGuard, HasMissingAttestedReveals
<1>3. /\ attested_uploaded \in SUBSET Wallets
      /\ reveal_included \subseteq attested_uploaded
  BY DEF TypeOK, EntropyInvariant
<1>4. /\ IsFiniteSet(attested_uploaded)
      /\ Cardinality(attested_uploaded) \in Nat
      /\ Cardinality(reveal_included) \in Nat
  BY <1>3, WalletSetsFinite
<1>5. Cardinality(reveal_included) <= Cardinality(attested_uploaded)
  BY <1>3, <1>4, FS_Subset
<1>6. Cardinality(reveal_included) = Cardinality(attested_uploaded)
  BY <1>1, <1>2, <1>4, <1>5
<1> QED  BY <1>3, <1>4, <1>6, FS_Subset

\* The draw never starts, or goes on, without a reveal that was attested.
THEOREM DrawSeesAllReveals == Spec => DrawStartsFromAllReveals
<1>1. TypeOK /\ EntropyInvariant /\ DrawInvariant /\ [Next]_vars =>
        [finalization_ledger' # finalization_ledger =>
            attested_uploaded \subseteq reveal_included]_vars
  <2> SUFFICES ASSUME TypeOK, EntropyInvariant, DrawInvariant, Next,
                      finalization_ledger' # finalization_ledger
               PROVE  attested_uploaded \subseteq reveal_included
    OBVIOUS
  <2>1. CASE \E chunk \in SUBSET Wallets : FinalizeChunk(chunk)
    BY <2>1, ChunkFindsAllReveals
  <2>2. CASE ~\E chunk \in SUBSET Wallets : FinalizeChunk(chunk)
    <3>1. finalization_ledger' = finalization_ledger
      BY <2>2, NextCases
         DEF Tick, CreateGiveaway, UpdateServiceCharge, ExtendActiveDeadline,
             BeginUploadPhase, DisqualifyParticipant, IssueReceipt, Participate,
             AttestUploaded, UploadReveals, FinalizeOpensRemediation,
             LockWinners, PayoutBatch, SettlePayoutBatch, SettleGiveaway
    <3> QED  BY <3>1
  <2> QED  BY <2>1, <2>2
<1> QED
  BY <1>1, TypeCorrect, EntropyInvariantHolds, DrawInvariantHolds, PTL
     DEF Spec, DrawStartsFromAllReveals
=============================================================================
