----------------------------- MODULE MoneyProofs -----------------------------
(***************************************************************************)
(* The money of a giveaway: every lamport is accounted for, the vault      *)
(* always covers what is still owed, and the accounts implement Escrow.    *)
(*                                                                         *)
(* SharesInvariant is inductive relative to the invariants of the draw;    *)
(* BooksBalance is inductive relative to SharesInvariant.  With them the   *)
(* initial state is an empty escrow, and every step of an instruction or   *)
(* of the clock is a step of the escrow or leaves it alone; the escrow     *)
(* returns only after remediation.                                         *)
(***************************************************************************)
EXTENDS GiveawaysProofs, EscrowRefinement

USE DEF windowVars, remediationVars, originVars, entryVars,
        disqualificationVars, attestationVars, revealVars, drawVars, payoutVars,
        settlementVars, frameVars
USE DEF MIN_WINNERS, MIN_WINNER_PAYOUT_LAMPORTS

\* The best k of a non-empty set are not none, if k is not zero.
LEMMA SomebodyIsBest ==
    ASSUME NEW seed \in Seeds, NEW S \in SUBSET Wallets, S # {},
           NEW k \in Nat \ {0}
    PROVE  TopK(seed, S, k) # {}
<1>1. S \in SUBSET Wallets /\ IsFiniteSet(S) /\ Cardinality(S) \in Nat
  BY WalletSetsFinite
<1>2. CASE Cardinality(S) >= k
  <2>1. Cardinality(TopK(seed, S, k)) = k
    BY <1>2, TopKIsFull
  <2> QED  BY <2>1, FS_EmptySet
<1>3. CASE Cardinality(S) < k
  <2>1. \A w \in S : Cardinality(Predecessors(seed, S, w)) \in 0..(Cardinality(S) - 1)
    BY PredecessorsGrow
  <2>2. \A w \in S : Cardinality(Predecessors(seed, S, w)) < k
    BY <1>1, <1>3, <2>1
  <2> QED  BY <2>2 DEF TopK
<1> QED  BY <1>1, <1>2, <1>3

\* A total divided among n and multiplied again does not exceed the total.
LEMMA SharesFit ==
    ASSUME NEW pool \in Nat, NEW n \in Nat \ {0}
    PROVE  /\ pool \div n \in Nat
           /\ (pool \div n) * n <= pool
OBVIOUS

LEMMA Distributes ==
    ASSUME NEW a \in Int, NEW b \in Int, NEW c \in Int
    PROVE  /\ a * b \in Int
           /\ a * (b + c) = a * b + a * c
           /\ a * (b - c) = a * b - a * c
OBVIOUS

LEMMA ProductGrows ==
    ASSUME NEW a \in Nat, NEW b \in Nat, NEW c \in Nat, b <= c
    PROVE  a * b \in Nat /\ a * c \in Nat /\ a * b <= a * c
<1>1. PICK d \in Nat : c = b + d
  <2>1. c - b \in Nat /\ c = b + (c - b)
    OBVIOUS
  <2> QED  BY <2>1
<1>2. a * c = a * b + a * d
  BY <1>1, Distributes
<1>3. a * d \in Nat /\ a * b \in Nat
  OBVIOUS
<1> QED  BY <1>2, <1>3

-----------------------------------------------------------------------------
\* The chunk that completes the draw publishes the candidates of the ledger it
\* leaves behind; there is at least one, somebody of the chunk itself if need be.
LEMMA ChunkPublishes ==
    ASSUME TypeOK, EntropyInvariant, DrawInvariant, SharesInvariant,
           NEW chunk \in SUBSET Wallets, FinalizeChunk(chunk)
    PROVE  LET S == finalization_ledger'.candidates
               seed == finalization_ledger'.seed
           IN /\ created /\ ~settled /\ ~winners_computed
              /\ UNCHANGED <<created, terms, settled, lamports>>
              /\ S \in (SUBSET Wallets) \ {{}} /\ seed \in Seeds
              /\ \/ /\ winners_computed' = TRUE
                    /\ PerWinnerPayout(Cardinality(S)) >= MIN_WINNER_PAYOUT_LAMPORTS
                    /\ winners_ledger' =
                        [NoWinnersLedger EXCEPT
                            !.computed = TRUE,
                            !.winner_wallets = InRankOrder(seed, S),
                            !.winners_count = Cardinality(S),
                            !.per_winner_lamports = PerWinnerPayout(Cardinality(S))]
                 \/ winners_computed' = FALSE /\ winners_ledger' = winners_ledger
<1> DEFINE start == StartedLedger
           eligible == (chunk \cap reveal_included) \ disqualified
           ledger == RecordChunk(start, chunk, eligible)
           completed == ledger.processed_count = provider_uploaded_count
           S == finalization_ledger'.candidates
           seed == finalization_ledger'.seed
<1>1. /\ created /\ ~settled
      /\ UNCHANGED <<created, terms, settled, lamports>>
      /\ start.recompute_version = recompute_version + 1 /\ ~start.completed
      /\ chunk # {}
      /\ finalization_ledger' = [ledger EXCEPT !.completed = completed]
      /\ finalization_version' =
            [w \in Wallets |-> IF w \in chunk THEN start.recompute_version
                               ELSE finalization_version[w]]
      /\ \/ completed /\ PublishWinners(ledger)
         \/ ~completed /\ UNCHANGED <<winners_ledger, winners_computed>>
  BY DEF FinalizeChunk, FinalizeGuard
<1>2. ~winners_computed
  <2>1. CASE finalization_ledger.started
    BY <1>1, <2>1 DEF StartedLedger, DrawInvariant, DrawnOnce, LedgerInvariant
  <2>2. CASE ~finalization_ledger.started
    BY <2>2 DEF DrawInvariant, DrawnOnce, LedgerInvariant
  <2> QED  BY <2>1, <2>2
<1>3. ledger \in FinalizationLedgerType
  BY StartedLedgerType, RecordChunkType
<1> HIDE DEF ledger
<1>4. S = ledger.candidates /\ seed = ledger.seed
  BY <1>1, <1>3 DEF FinalizationLedgerType
<1>5. S \in SUBSET Wallets /\ seed \in Seeds
  BY <1>3, <1>4 DEF FinalizationLedgerType
<1>6. S # {}
  <2>1. DrawInvariant'
    BY DrawFinalize
  <2>2. TypeOK'
    BY FinalizeWinnersType DEF FinalizeWinners
  <2>3. S = TopK(seed, Finalised', terms.number_of_winners)
    <3>1. finalization_ledger'.started
      <4>1. start.started
        BY DEF StartedLedger
      <4>2. start \in FinalizationLedgerType
        BY StartedLedgerType
      <4>3. ledger.started
        BY <4>1, <4>2 DEF ledger, RecordChunk, FinalizationLedgerType
      <4> QED  BY <1>1, <1>3, <4>3 DEF FinalizationLedgerType
    <3> QED  BY <1>1, <2>1, <3>1 DEF DrawInvariant, LedgerInvariant
  <2>4. Finalised' # {}
    <3>1. PICK w \in chunk : TRUE
      BY <1>1
    <3>2. start.recompute_version # 0
      BY <1>1 DEF TypeOK
    <3>3. finalization_version'[w] # 0
      BY <1>1, <3>2
    <3> QED  BY <3>3 DEF Finalised
  <2>5. terms.number_of_winners \in Nat \ {0}
    BY <1>1 DEF TypeOK, TermsType, SharesInvariant
  <2>6. Finalised' \in SUBSET Wallets
    BY DEF Finalised
  <2> HIDE DEF S, seed
  <2> QED  BY <1>5, <2>3, <2>4, <2>5, <2>6, SomebodyIsBest
<1>7. CASE completed /\ PublishWinners(ledger)
  <2>1. Cardinality(S) > 0
    BY <1>5, <1>6, WalletSetsFinite, FS_EmptySet
  <2>2. /\ winners_computed' = TRUE
        /\ PerWinnerPayout(Cardinality(S)) >= MIN_WINNER_PAYOUT_LAMPORTS
        /\ winners_ledger' =
                [NoWinnersLedger EXCEPT
                    !.computed = TRUE,
                    !.winner_wallets = InRankOrder(seed, S),
                    !.winners_count = Cardinality(S),
                    !.per_winner_lamports = PerWinnerPayout(Cardinality(S))]
    BY <1>4, <1>7, <2>1 DEF PublishWinners
  <2> QED  BY <1>1, <1>2, <1>5, <1>6, <2>2
<1>8. CASE UNCHANGED <<winners_ledger, winners_computed>>
  BY <1>1, <1>2, <1>5, <1>6, <1>8 DEF TypeOK
<1> QED  BY <1>1, <1>7, <1>8

\* The ledger that a draw publishes.
LEMMA PublishedLedger ==
    ASSUME NEW list, NEW n, NEW share,
           winners_ledger' =
                [NoWinnersLedger EXCEPT
                    !.computed = TRUE, !.winner_wallets = list,
                    !.winners_count = n, !.per_winner_lamports = share]
    PROVE  /\ winners_ledger'.winner_wallets = list
           /\ winners_ledger'.winners_count = n
           /\ winners_ledger'.per_winner_lamports = share
           /\ winners_ledger'.paid = {}
           /\ winners_ledger'.paid_count = 0
BY DEF NoWinnersLedger

LEMMA PoolFits ==
    ASSUME TypeOK
    PROVE  /\ Fee \in Nat /\ Fee = ServiceFee /\ WinnersPool \in Nat
           /\ WinnersPool + Fee = terms.total_payout_lamports
           /\ terms.total_payout_lamports \in Nat
<1>1. /\ terms.total_payout_lamports \in Nat
      /\ terms.service_fee_bps \in 0..MAX_SERVICE_FEE_BPS
  BY DEF TypeOK, TermsType
<1>2. /\ ServiceFeeOf(terms.total_payout_lamports, terms.service_fee_bps)
            \in 0..terms.total_payout_lamports
      /\ WinnersPoolOf(terms.total_payout_lamports, terms.service_fee_bps) \in Nat
  BY <1>1, AmountsType
<1>3. Fee = ServiceFeeOf(terms.total_payout_lamports, terms.service_fee_bps)
  BY DEF Fee, ServiceFeeOf
<1> HIDE DEF Fee
<1>4. ServiceFee = Fee
  BY <1>3 DEF ServiceFee
<1>5. WinnersPool = terms.total_payout_lamports - Fee
  BY <1>3 DEF WinnersPool, WinnersPoolOf
<1> QED  BY <1>1, <1>2, <1>3, <1>4, <1>5

-----------------------------------------------------------------------------
LEMMA SharesInit == Init => SharesInvariant
<1> SUFFICES ASSUME Init PROVE SharesInvariant
  OBVIOUS
<1>1. /\ created = FALSE /\ settled = FALSE /\ winners_computed = FALSE
      /\ winners_ledger = NoWinnersLedger
  BY DEF Init
<1> QED  BY <1>1 DEF SharesInvariant

\* Instructions that neither draw nor pay, and settle only what exists.
LEMMA SharesFrame ==
    ASSUME SharesInvariant,
           UNCHANGED <<created, terms, winners_computed, winners_ledger>>,
           settled => settled', settled' => settled \/ created
    PROVE  SharesInvariant'
<1>1. UNCHANGED <<Fee, Share>>
  BY DEF Fee, Share
<1> HIDE DEF Fee, Share
<1> QED  BY <1>1 DEF SharesInvariant

LEMMA SharesCreate ==
    ASSUME TypeOK, DrawInvariant, SharesInvariant,
           NEW total \in Payouts, NEW n \in WinnerCounts,
           NEW start \in Instants, NEW deadline \in Instants,
           NEW duration \in UploadDurations,
           CreateGiveaway(total, n, start, deadline, duration)
    PROVE  SharesInvariant'
<1>1. /\ ~created /\ created' = TRUE
      /\ UNCHANGED <<winners_computed, winners_ledger, settled>>
      /\ terms'.number_of_winners = n /\ n >= 1
  BY DEF CreateGiveaway, MAX_WINNERS
<1>2. ~winners_computed
  BY <1>1 DEF DrawInvariant, DrawnOnce, LedgerInvariant
<1> QED  BY <1>1, <1>2 DEF SharesInvariant

LEMMA SharesFinalize ==
    ASSUME TypeOK, EntropyInvariant, DrawInvariant, SharesInvariant,
           NEW chunk \in SUBSET Wallets, FinalizeChunk(chunk)
    PROVE  SharesInvariant'
<1> DEFINE S == finalization_ledger'.candidates
           seed == finalization_ledger'.seed
           n == Cardinality(S)
           share == PerWinnerPayout(n)
           list == InRankOrder(seed, S)
<1>1. /\ created /\ ~settled /\ ~winners_computed
      /\ UNCHANGED <<created, terms, settled, lamports>>
      /\ S \in (SUBSET Wallets) \ {{}} /\ seed \in Seeds
      /\ \/ /\ winners_computed' = TRUE
            /\ share >= MIN_WINNER_PAYOUT_LAMPORTS
            /\ winners_ledger' =
                [NoWinnersLedger EXCEPT
                    !.computed = TRUE, !.winner_wallets = list,
                    !.winners_count = n, !.per_winner_lamports = share]
         \/ winners_computed' = FALSE /\ winners_ledger' = winners_ledger
  BY ChunkPublishes
<1>2. n \in Nat \ {0}
  BY <1>1, WalletSetsFinite, FS_EmptySet
<1>3. /\ list \in [1..n -> Wallets]
      /\ \A i, j \in 1..n : list[i] = list[j] => i = j
  BY <1>1, RankOrderIsInjective
<1>4. share \in Nat /\ share * n + Fee <= terms.total_payout_lamports
  <2> HIDE DEF n
  <2>1. share = WinnersPool \div n
    BY <1>2 DEF PerWinnerPayout
  <2>2. share \in Nat /\ share * n <= WinnersPool
    BY <1>2, <2>1, PoolFits, SharesFit
  <2> HIDE DEF share
  <2>3. share * n \in Nat
    BY <1>2, <2>2
  <2> QED  BY <2>2, <2>3, PoolFits
<1> HIDE DEF S, seed, n, share, list
<1>5. Fee' = Fee
  BY <1>1 DEF Fee
<1>6. CASE /\ winners_computed' = TRUE
           /\ share >= MIN_WINNER_PAYOUT_LAMPORTS
           /\ winners_ledger' =
                [NoWinnersLedger EXCEPT
                    !.computed = TRUE, !.winner_wallets = list,
                    !.winners_count = n, !.per_winner_lamports = share]
  <2>1. /\ winners_ledger'.winner_wallets = list
        /\ winners_ledger'.winners_count = n
        /\ winners_ledger'.paid_count = 0
        /\ Share' = share
    BY <1>6, PublishedLedger DEF Share
  <2> HIDE DEF Share, Fee
  <2> QED  BY <1>1, <1>2, <1>3, <1>4, <1>5, <1>6, <2>1 DEF SharesInvariant
<1>7. CASE winners_computed' = FALSE /\ winners_ledger' = winners_ledger
  BY <1>1, <1>7 DEF SharesInvariant
<1> QED  BY <1>1, <1>6, <1>7

\* What a payout batch does to the ledger: new positions become paid, and the
\* batch settles exactly if they are the last ones.
LEMMA BatchMarksPaid ==
    ASSUME TypeOK, DrawInvariant, SharesInvariant,
           NEW batch \in SUBSET (1..winners_ledger.winners_count),
           SettlePayoutBatch(batch)
    PROVE  LET W == winners_ledger IN
           /\ created /\ ~settled /\ winners_computed
           /\ UNCHANGED <<created, terms, winners_computed>>
           /\ W'.winner_wallets = W.winner_wallets
           /\ W'.winners_count = W.winners_count
           /\ W'.per_winner_lamports = W.per_winner_lamports
           /\ W'.paid = W.paid \cup batch /\ batch \cap W.paid = {}
           /\ IsFiniteSet(batch) /\ Cardinality(batch) \in Nat \ {0}
           /\ W'.paid_count = W.paid_count + Cardinality(batch)
           /\ W'.paid_count <= W.winners_count
           /\ settled' = (W'.paid_count = W.winners_count)
<1> DEFINE W == winners_ledger
           count == W.paid_count + Cardinality(batch)
<1>1. /\ created /\ ~settled /\ winners_computed
      /\ UNCHANGED <<created, terms, winners_computed>>
      /\ batch \cap W.paid = {}
      /\ settled' = (count = W.winners_count)
      /\ Cardinality(batch) \in 1..MAX_WINNERS_PER_BATCH
      /\ winners_ledger' = [winners_ledger EXCEPT !.paid = W.paid \cup batch,
                                                  !.paid_count = count,
                                                  !.settlement_started = TRUE]
  BY DEF SettlePayoutBatch, Payable
<1>2. winners_ledger \in WinnersLedgerType
  BY DEF TypeOK
<1>3. /\ W'.winner_wallets = W.winner_wallets
      /\ W'.winners_count = W.winners_count
      /\ W'.per_winner_lamports = W.per_winner_lamports
      /\ W'.paid = W.paid \cup batch
      /\ W'.paid_count = count
  <2> HIDE DEF count
  <2> QED  BY <1>1, <1>2 DEF WinnersLedgerType
<1>4. W.winners_count \in Nat /\ W.paid_count \in Nat
  BY <1>2 DEF WinnersLedgerType
<1>5. IsFiniteSet(1..W.winners_count) /\ Cardinality(1..W.winners_count) = W.winners_count
  BY <1>4, IntervalSize
<1>6. IsFiniteSet(batch) /\ Cardinality(batch) \in Nat \ {0}
  <2>1. IsFiniteSet(batch)
    BY <1>5, FS_Subset
  <2>2. Cardinality(batch) \in Nat
    BY <2>1, FS_CardinalityType
  <2> QED  BY <1>1, <2>1, <2>2, AmountsAssumption
<1>7. W'.paid_count <= W.winners_count
  <2>1. DrawInvariant'
    BY DrawPayout DEF PayoutBatch
  <2>2. W'.paid_count = Cardinality(W'.paid) /\ W'.paid \subseteq 1..W.winners_count
    BY <1>3, <2>1 DEF DrawInvariant, CountersMatchAccounts
  <2> QED  BY <1>4, <1>5, <2>2, FS_Subset
<1> QED  BY <1>1, <1>3, <1>6, <1>7

LEMMA SharesPayout ==
    ASSUME TypeOK, DrawInvariant, SharesInvariant, PayoutBatch
    PROVE  SharesInvariant'
<1> PICK batch \in SUBSET (1..winners_ledger.winners_count) :
            SettlePayoutBatch(batch)
  BY DEF PayoutBatch
<1> DEFINE W == winners_ledger
<1>1. /\ created /\ ~settled /\ winners_computed
      /\ UNCHANGED <<created, terms, winners_computed>>
      /\ W'.winner_wallets = W.winner_wallets
      /\ W'.winners_count = W.winners_count
      /\ W'.per_winner_lamports = W.per_winner_lamports
      /\ W'.paid_count <= W.winners_count
      /\ settled' = (W'.paid_count = W.winners_count)
  BY BatchMarksPaid
<1>2. W'.paid_count \in Nat /\ W.winners_count \in Nat
  <2>1. TypeOK'
    BY PayoutType
  <2> QED  BY <2>1 DEF TypeOK, WinnersLedgerType
<1>3. UNCHANGED <<Fee, Share>>
  BY <1>1 DEF Fee, Share
<1> HIDE DEF Fee, Share
<1>4. ~settled' => W'.paid_count < W'.winners_count
  <2>1. ~settled' => W'.paid_count # W.winners_count
    BY <1>1, Zenon
  <2> QED  BY <1>1, <1>2, <2>1
<1> QED  BY <1>1, <1>3, <1>4 DEF SharesInvariant

LEMMA SharesLock ==
    ASSUME TypeOK, SharesInvariant, LockWinners
    PROVE  SharesInvariant'
<1>1. /\ winners_computed
      /\ UNCHANGED <<created, terms, winners_computed, settled>>
      /\ winners_ledger' = [winners_ledger EXCEPT !.locked = TRUE]
  BY DEF LockWinners
<1>2. winners_ledger \in WinnersLedgerType
  BY DEF TypeOK
<1>3. /\ winners_ledger'.winner_wallets = winners_ledger.winner_wallets
      /\ winners_ledger'.winners_count = winners_ledger.winners_count
      /\ winners_ledger'.paid_count = winners_ledger.paid_count
      /\ UNCHANGED <<Share, Fee>>
  BY <1>1, <1>2 DEF WinnersLedgerType, Share, Fee
<1> HIDE DEF Share, Fee
<1> QED  BY <1>1, <1>3 DEF SharesInvariant

LEMMA SharesStep ==
    ASSUME TypeOK, EntropyInvariant, DrawInvariant, SharesInvariant, [Next]_vars
    PROVE  SharesInvariant'
<1>1. CASE UNCHANGED vars
  BY <1>1, SharesFrame DEF vars
<1>2. CASE \/ Tick \/ BeginUploadPhase \/ FinalizeOpensRemediation
           \/ \E bps \in FeeRates : UpdateServiceCharge(bps)
           \/ \E new_deadline \in Instants : ExtendActiveDeadline(new_deadline)
           \/ \E w \in Wallets : DisqualifyParticipant(w)
           \/ \E w \in Wallets : IssueReceipt(w)
           \/ \E w \in Wallets : AttestUploaded(w)
           \/ \E w \in Wallets, c \in Commitments : Participate(w, c)
           \/ \E by_authority \in BOOLEAN, batch \in SUBSET Reveals :
                    UploadReveals(by_authority, batch)
  <2>1. UNCHANGED <<created, terms, winners_computed, winners_ledger, settled>>
    BY <1>2 DEF Tick, BeginUploadPhase, FinalizeOpensRemediation,
                UpdateServiceCharge, ExtendActiveDeadline, DisqualifyParticipant,
                IssueReceipt, AttestUploaded, Participate, UploadReveals
  <2> QED  BY <2>1, SharesFrame
<1>3. CASE SettleGiveaway
  BY <1>3, SharesFrame DEF SettleGiveaway
<1> QED
  BY <1>1, <1>2, <1>3, NextCases, SharesCreate, SharesFinalize, SharesPayout,
     SharesLock

\* The shares of a draw are affordable and go to distinct wallets, in every
\* reachable state, for any total, fee rate, rank function and number of winners.
THEOREM SharesInvariantHolds == Spec => []SharesInvariant
<1>1. Init => SharesInvariant
  BY SharesInit
<1>2. TypeOK /\ EntropyInvariant /\ DrawInvariant /\ SharesInvariant /\ [Next]_vars
        => SharesInvariant'
  BY SharesStep
<1> QED
  BY <1>1, <1>2, TypeCorrect, EntropyInvariantHolds, DrawInvariantHolds, PTL
     DEF Spec

-----------------------------------------------------------------------------
\* Moving lamports between two different accounts.
LEMMA TransferEffect ==
    ASSUME NEW balance \in [Accounts -> Int], NEW from \in Accounts,
           NEW to \in Accounts, NEW amount \in Int, from # to
    PROVE  \A a \in Accounts :
            Transfer(balance, from, to, amount)[a] =
                IF a = from THEN balance[a] - amount
                ELSE IF a = to THEN balance[a] + amount ELSE balance[a]
BY DEF Transfer

\* Closing leaves nothing behind, even if creator and authority are one account.
LEMMA CloseVaultEffect ==
    ASSUME TypeOK, NEW balance \in [Accounts -> Int]
    PROVE  \A a \in Accounts :
            CloseVault(balance)[a] =
                IF a = Vault THEN 0
                ELSE balance[a]
                        + (IF a = Authority THEN ServiceFee ELSE 0)
                        + (IF a = Creator THEN balance[Vault] - ServiceFee ELSE 0)
<1> DEFINE charged == Transfer(balance, Vault, Authority, ServiceFee)
<1>1. /\ Creator \in Accounts /\ Authority \in Accounts /\ Vault \in Accounts
      /\ Vault # Creator /\ Vault # Authority
  BY AccountsAssumption DEF Accounts
<1>2. ServiceFee \in Int
  BY PoolFits
<1>3. charged \in [Accounts -> Int]
  BY <1>1, <1>2, TransferType
<1>4. \A a \in Accounts : charged[a] =
            IF a = Vault THEN balance[a] - ServiceFee
            ELSE IF a = Authority THEN balance[a] + ServiceFee ELSE balance[a]
  BY <1>1, <1>2, TransferEffect
<1>5. CloseVault(balance) = Transfer(charged, Vault, Creator, charged[Vault])
  BY DEF CloseVault
<1>6. ASSUME NEW b \in [Accounts -> Int], NEW amount \in Int
      PROVE  \A a \in Accounts : Transfer(b, Vault, Creator, amount)[a] =
                IF a = Vault THEN b[a] - amount
                ELSE IF a = Creator THEN b[a] + amount ELSE b[a]
  BY <1>1 DEF Transfer
<1> HIDE DEF charged
<1>7. \A a \in Accounts : CloseVault(balance)[a] =
            IF a = Vault THEN charged[a] - charged[Vault]
            ELSE IF a = Creator THEN charged[a] + charged[Vault] ELSE charged[a]
  BY <1>1, <1>3, <1>5, <1>6
<1>8. balance[Vault] \in Int
  BY <1>1
<1> QED  BY <1>1, <1>2, <1>4, <1>7, <1>8

LEMMA PayWinnersEffect ==
    ASSUME NEW batch
    PROVE  \A a \in Accounts :
            PayWinners(batch)[a] =
                IF a = Vault THEN lamports[a] - Share * Cardinality(batch)
                ELSE IF a \in {winners_ledger.winner_wallets[i] : i \in batch}
                     THEN lamports[a] + Share ELSE lamports[a]
BY DEF PayWinners, Share

\* Types of the quantities that the books are made of.
LEMMA BooksType ==
    ASSUME TypeOK
    PROVE  /\ Deposit \in Nat /\ Fee \in Nat /\ Share \in Nat /\ PaidOut \in Nat
           /\ FeePaid \in Nat /\ CreatorOutlay \in Nat /\ CreatorFunds \in Nat
           /\ winners_ledger.paid_count \in Nat /\ winners_ledger.winners_count \in Nat
           /\ lamports \in [Accounts -> Int]
<1>1. /\ winners_ledger.per_winner_lamports \in Nat
      /\ winners_ledger.paid_count \in Nat /\ winners_ledger.winners_count \in Nat
      /\ terms.total_payout_lamports \in Nat /\ lamports \in [Accounts -> Int]
  BY DEF TypeOK, WinnersLedgerType, TermsType
<1>2. Deposit \in Nat /\ Share \in Nat /\ PaidOut \in Nat /\ Fee \in Nat
  BY <1>1, AmountsAssumption, PoolFits DEF Deposit, Share, PaidOut
<1> HIDE DEF Deposit, Share, PaidOut, Fee
<1>3. FeePaid \in Nat
  BY <1>2 DEF FeePaid
<1>4. CreatorOutlay \in Nat
  BY <1>2, <1>3 DEF CreatorOutlay
<1> QED  BY <1>1, <1>2, <1>3, <1>4, AmountsAssumption

\* Nothing has been paid from a giveaway whose winners have not been drawn.
LEMMA NothingPaidBeforeDraw ==
    ASSUME SharesInvariant, ~winners_computed
    PROVE  PaidWallets = {} /\ PaidOut = 0 /\ FeePaid = 0 /\ ~Distributed
<1>1. /\ winners_ledger.paid = {} /\ winners_ledger.paid_count = 0
      /\ winners_ledger.per_winner_lamports = 0 /\ winners_ledger.winners_count = 0
  BY DEF SharesInvariant, NoWinnersLedger
<1> QED  BY <1>1 DEF PaidWallets, PaidOut, Share, FeePaid, Distributed

LEMMA NothingPaidYet ==
    ASSUME winners_ledger'.paid = {}, winners_ledger'.paid_count = 0,
           winners_ledger'.per_winner_lamports \in Nat, ~settled'
    PROVE  PaidWallets' = {} /\ PaidOut' = 0 /\ FeePaid' = 0
<1>1. PaidWallets' = {}
  BY DEF PaidWallets
<1>2. PaidOut' = 0
  BY DEF PaidOut, Share
<1>3. ~Distributed'
  BY DEF Distributed
<1>4. FeePaid' = 0
  BY <1>3 DEF FeePaid
<1> QED  BY <1>1, <1>2, <1>4

\* Books that are not touched stay balanced.
LEMMA BooksFrame ==
    ASSUME BooksBalance,
           UNCHANGED <<lamports, created, settled, Deposit, CreatorOutlay, FeePaid,
                       PaidOut, PaidWallets>>,
           PaidWallets # {} => Share' = Share
    PROVE  BooksBalance'
<1> HIDE DEF Deposit, CreatorOutlay, FeePaid, PaidOut, PaidWallets, Share
<1>1. ASSUME NEW a \in Accounts
      PROVE  ExpectedBalance(a)' = ExpectedBalance(a)
  BY DEF ExpectedBalance
<1> QED  BY <1>1 DEF BooksBalance

LEMMA BooksInit == Init => BooksBalance
<1> SUFFICES ASSUME Init, NEW a \in Accounts
             PROVE  lamports[a] = ExpectedBalance(a)
  BY DEF BooksBalance
<1>1. /\ created = FALSE /\ settled = FALSE
      /\ lamports = [x \in Accounts |-> IF x = Creator THEN CreatorFunds ELSE 0]
      /\ winners_ledger.paid = {} /\ CreatorFunds \in Int
  BY AmountsAssumption DEF Init, NoWinnersLedger
<1>2. PaidWallets = {} /\ FeePaid = 0 /\ CreatorOutlay = 0
  BY <1>1 DEF PaidWallets, FeePaid, CreatorOutlay, Distributed
<1> HIDE DEF PaidWallets, FeePaid, CreatorOutlay, PaidOut, Deposit, Share
<1> QED  BY <1>1, <1>2 DEF ExpectedBalance

LEMMA BooksCreate ==
    ASSUME TypeOK, DrawInvariant, SharesInvariant, BooksBalance,
           NEW total \in Payouts, NEW n \in WinnerCounts,
           NEW start \in Instants, NEW deadline \in Instants,
           NEW duration \in UploadDurations,
           CreateGiveaway(total, n, start, deadline, duration)
    PROVE  BooksBalance'
<1>1. /\ ~created /\ created' = TRUE /\ ~settled /\ ~settled' /\ ~winners_computed
      /\ UNCHANGED <<winners_computed, winners_ledger>>
      /\ terms'.total_payout_lamports = total
      /\ lamports' = Transfer(lamports, Creator, Vault, total + RENT)
  <2>1. ~winners_computed /\ ~settled
    BY DEF CreateGiveaway, DrawInvariant, DrawnOnce, LedgerInvariant, SharesInvariant
  <2> QED  BY <2>1 DEF CreateGiveaway
<1>2. PaidWallets = {} /\ FeePaid = 0 /\ CreatorOutlay = 0
  BY <1>1, NothingPaidBeforeDraw DEF CreatorOutlay
<1>3. PaidWallets' = {} /\ PaidOut' = 0 /\ FeePaid' = 0
  <2>1. /\ winners_ledger.paid = {} /\ winners_ledger.paid_count = 0
        /\ winners_ledger.per_winner_lamports = 0
    BY <1>1 DEF SharesInvariant, NoWinnersLedger
  <2> QED  BY <1>1, <2>1, NothingPaidYet
<1>4. total \in Nat /\ RENT \in Nat /\ CreatorFunds \in Nat
      /\ lamports \in [Accounts -> Int]
  BY AmountsAssumption DEF TypeOK
<1>5. Deposit' = total + RENT /\ CreatorOutlay' = Deposit'
  BY <1>1, <1>4 DEF Deposit, CreatorOutlay
<1>6. \A a \in Accounts : lamports'[a] =
            IF a = Creator THEN lamports[a] - (total + RENT)
            ELSE IF a = Vault THEN lamports[a] + (total + RENT) ELSE lamports[a]
  <2>1. Creator \in Accounts /\ Vault \in Accounts /\ Creator # Vault
    BY AccountsAssumption DEF Accounts
  <2> QED  BY <1>1, <1>4, <2>1, TransferEffect
<1>7. ASSUME NEW a \in Accounts
      PROVE  lamports'[a] = ExpectedBalance(a)'
  <2>1. lamports[a] = IF a = Creator THEN CreatorFunds ELSE 0
    <3>1. lamports[a] = ExpectedBalance(a)
      BY DEF BooksBalance
    <3> HIDE DEF PaidWallets, FeePaid, CreatorOutlay, PaidOut, Deposit, Share
    <3> QED  BY <1>1, <1>2, <1>4, <3>1 DEF ExpectedBalance
  <2> HIDE DEF PaidWallets, FeePaid, CreatorOutlay, PaidOut, Deposit, Share
  <2>2. Creator # Vault
    BY AccountsAssumption
  <2> QED  BY <1>1, <1>3, <1>4, <1>5, <1>6, <2>1, <2>2 DEF ExpectedBalance
<1> QED  BY <1>7 DEF BooksBalance

LEMMA BooksFinalize ==
    ASSUME TypeOK, EntropyInvariant, DrawInvariant, SharesInvariant, BooksBalance,
           NEW chunk \in SUBSET Wallets, FinalizeChunk(chunk)
    PROVE  BooksBalance'
<1>1. /\ ~winners_computed /\ ~settled /\ created
      /\ UNCHANGED <<created, terms, settled, lamports>>
  BY ChunkPublishes
<1>2. PaidWallets = {} /\ PaidOut = 0 /\ FeePaid = 0
  BY <1>1, NothingPaidBeforeDraw
<1>3. winners_ledger'.paid = {} /\ winners_ledger'.paid_count = 0
  <2>1. winners_ledger.paid = {} /\ winners_ledger.paid_count = 0
    BY <1>1 DEF SharesInvariant, NoWinnersLedger
  <2>2. \/ \E list, n, share :
                winners_ledger' =
                    [NoWinnersLedger EXCEPT
                        !.computed = TRUE, !.winner_wallets = list,
                        !.winners_count = n, !.per_winner_lamports = share]
        \/ winners_ledger' = winners_ledger
    BY ChunkPublishes
  <2> QED  BY <2>1, <2>2, PublishedLedger
<1>4. winners_ledger'.per_winner_lamports \in Nat
  <2>1. TypeOK'
    BY FinalizeWinnersType DEF FinalizeWinners
  <2> QED  BY <2>1 DEF TypeOK, WinnersLedgerType
<1>5. PaidWallets' = {} /\ PaidOut' = 0 /\ FeePaid' = 0
  BY <1>1, <1>3, <1>4, NothingPaidYet
<1>6. UNCHANGED <<Deposit, CreatorOutlay>>
  BY <1>1 DEF Deposit, CreatorOutlay
<1> QED  BY <1>1, <1>2, <1>5, <1>6, BooksFrame

LEMMA BooksLock ==
    ASSUME TypeOK, BooksBalance, LockWinners
    PROVE  BooksBalance'
<1>1. /\ UNCHANGED <<created, terms, settled, lamports>>
      /\ winners_ledger' = [winners_ledger EXCEPT !.locked = TRUE]
      /\ winners_ledger \in WinnersLedgerType
  BY DEF LockWinners, TypeOK
<1>2. /\ winners_ledger'.winner_wallets = winners_ledger.winner_wallets
      /\ winners_ledger'.winners_count = winners_ledger.winners_count
      /\ winners_ledger'.per_winner_lamports = winners_ledger.per_winner_lamports
      /\ winners_ledger'.paid = winners_ledger.paid
      /\ winners_ledger'.paid_count = winners_ledger.paid_count
  BY <1>1 DEF WinnersLedgerType
<1>3. UNCHANGED <<Deposit, Share, PaidOut, PaidWallets, Fee>>
  BY <1>1, <1>2 DEF Deposit, Share, PaidOut, PaidWallets, Fee
<1>4. UNCHANGED <<FeePaid, CreatorOutlay>>
  <2> HIDE DEF Deposit, Share, PaidOut, Fee
  <2> QED  BY <1>1, <1>2, <1>3 DEF FeePaid, CreatorOutlay, Distributed
<1> QED  BY <1>1, <1>3, <1>4, BooksFrame

-----------------------------------------------------------------------------
\* Only winners are paid, and winners are wallets.
LEMMA PaidAreWallets ==
    ASSUME DrawInvariant, SharesInvariant
    PROVE  PaidWallets \subseteq Wallets
<1>1. CASE winners_computed
  <2>1. winners_ledger.paid \subseteq 1..winners_ledger.winners_count
    BY DEF DrawInvariant
  <2>2. winners_ledger.winner_wallets \in [1..winners_ledger.winners_count -> Wallets]
    BY <1>1 DEF SharesInvariant
  <2>3. \A i \in winners_ledger.paid : winners_ledger.winner_wallets[i] \in Wallets
    BY <2>1, <2>2
  <2> QED  BY <2>3 DEF PaidWallets
<1>2. CASE ~winners_computed
  BY <1>2, NothingPaidBeforeDraw
<1> QED  BY <1>1, <1>2

\* A batch pays wallets that had not been paid, one share each.
LEMMA BatchPaysNewWallets ==
    ASSUME TypeOK, DrawInvariant, SharesInvariant,
           NEW batch \in SUBSET (1..winners_ledger.winners_count),
           SettlePayoutBatch(batch)
    PROVE  LET recipients == {winners_ledger.winner_wallets[i] : i \in batch} IN
           /\ PaidWallets' = PaidWallets \cup recipients
           /\ PaidWallets \cap recipients = {}
           /\ PaidWallets' \subseteq Wallets
           /\ Share' = Share
           /\ PaidOut' = PaidOut + Share * Cardinality(batch)
           /\ Share * Cardinality(batch) \in Nat
<1> DEFINE W == winners_ledger
           recipients == {W.winner_wallets[i] : i \in batch}
<1>1. /\ winners_computed
      /\ W'.winner_wallets = W.winner_wallets
      /\ W'.per_winner_lamports = W.per_winner_lamports
      /\ W'.paid = W.paid \cup batch /\ batch \cap W.paid = {}
      /\ Cardinality(batch) \in Nat
      /\ W'.paid_count = W.paid_count + Cardinality(batch)
  BY BatchMarksPaid
<1>2. /\ W.winner_wallets \in [1..W.winners_count -> Wallets]
      /\ \A i, j \in 1..W.winners_count :
            W.winner_wallets[i] = W.winner_wallets[j] => i = j
  BY <1>1 DEF SharesInvariant
<1>3. W.paid \subseteq 1..W.winners_count
  BY DEF DrawInvariant
<1>4. PaidWallets' = PaidWallets \cup recipients
  BY <1>1 DEF PaidWallets
<1>5. PaidWallets \cap recipients = {}
  BY <1>1, <1>2, <1>3 DEF PaidWallets
<1>6. PaidWallets' \subseteq Wallets
  <2>1. recipients \subseteq Wallets
    BY <1>2
  <2>2. PaidWallets \subseteq Wallets
    BY PaidAreWallets
  <2> HIDE DEF recipients, PaidWallets
  <2> QED  BY <1>4, <2>1, <2>2
<1>7. Share' = Share /\ Share \in Nat /\ W.paid_count \in Nat
  BY <1>1, BooksType DEF Share
<1>8. PaidOut' = Share * (W.paid_count + Cardinality(batch))
  BY <1>1, <1>7 DEF PaidOut
<1>9. PaidOut' = PaidOut + Share * Cardinality(batch)
  BY <1>1, <1>7, <1>8, Distributes DEF PaidOut
<1>10. Share * Cardinality(batch) \in Nat
  BY <1>1, <1>7
<1> QED  BY <1>4, <1>5, <1>6, <1>7, <1>9, <1>10

\* A batch that leaves winners unpaid.
LEMMA BooksPay ==
    ASSUME TypeOK, DrawInvariant, SharesInvariant, BooksBalance,
           NEW batch \in SUBSET (1..winners_ledger.winners_count),
           SettlePayoutBatch(batch), ~settled'
    PROVE  BooksBalance'
<1> DEFINE recipients == {winners_ledger.winner_wallets[i] : i \in batch}
           amount == Share * Cardinality(batch)
<1>1. /\ created /\ ~settled /\ created' = created /\ terms' = terms
  BY BatchMarksPaid
<1>2. /\ PaidWallets' = PaidWallets \cup recipients
      /\ PaidWallets \cap recipients = {}
      /\ PaidWallets' \subseteq Wallets
      /\ Share' = Share /\ PaidOut' = PaidOut + amount /\ amount \in Nat
  BY BatchPaysNewWallets
<1>3. lamports' = PayWinners(batch)
  <2> DEFINE complete == winners_ledger.paid_count + Cardinality(batch)
                            = winners_ledger.winners_count
  <2>1. /\ settled' = complete
        /\ ~complete => lamports' = PayWinners(batch)
    BY DEF SettlePayoutBatch
  <2> QED  BY <2>1, Zenon
<1>4. \A a \in Accounts : lamports'[a] =
            IF a = Vault THEN lamports[a] - amount
            ELSE IF a \in recipients THEN lamports[a] + Share ELSE lamports[a]
  BY <1>3, PayWinnersEffect
<1>5. Deposit' = Deposit /\ FeePaid' = 0 /\ FeePaid = 0
  BY <1>1 DEF Deposit, FeePaid, Distributed
<1>6. CreatorOutlay' = Deposit /\ CreatorOutlay = Deposit
  BY <1>1, <1>5 DEF CreatorOutlay
<1>7. Deposit \in Nat /\ Share \in Nat /\ PaidOut \in Nat /\ CreatorFunds \in Nat
  BY BooksType
<1> HIDE DEF recipients, amount, PaidWallets, FeePaid, CreatorOutlay, PaidOut,
             Deposit, Share
<1>8. ASSUME NEW a \in Accounts
      PROVE  lamports'[a] = ExpectedBalance(a)'
  <2>1. lamports[a] = ExpectedBalance(a)
    BY DEF BooksBalance
  <2>2. Vault \notin PaidWallets'
    BY <1>2, AccountsAssumption
  <2>3. a \in PaidWallets' <=> a \in PaidWallets \/ a \in recipients
    BY <1>2
  <2>4. ~(a \in PaidWallets /\ a \in recipients)
    BY <1>2
  <2>5. a = Vault => a \notin PaidWallets' /\ a \notin PaidWallets /\ a \notin recipients
    BY <2>2, <2>3
  <2> QED
    BY <1>1, <1>2, <1>4, <1>5, <1>6, <1>7, <2>1, <2>3, <2>4, <2>5
       DEF ExpectedBalance
<1> QED  BY <1>8 DEF BooksBalance

\* The batch that pays the last winners, then the fee, then the creator.
LEMMA BooksDistribute ==
    ASSUME TypeOK, DrawInvariant, SharesInvariant, BooksBalance,
           NEW batch \in SUBSET (1..winners_ledger.winners_count),
           SettlePayoutBatch(batch), settled'
    PROVE  BooksBalance' /\ Distributed' /\ lamports'[Vault] = 0
<1> DEFINE recipients == {winners_ledger.winner_wallets[i] : i \in batch}
           amount == Share * Cardinality(batch)
           after == PayWinners(batch)
<1>1. /\ created /\ ~settled /\ winners_computed
      /\ created' = created /\ terms' = terms
      /\ winners_ledger'.winners_count = winners_ledger.winners_count
      /\ settled' = (winners_ledger'.paid_count = winners_ledger.winners_count)
  BY BatchMarksPaid
<1>2. /\ PaidWallets' = PaidWallets \cup recipients
      /\ PaidWallets \cap recipients = {}
      /\ PaidWallets' \subseteq Wallets
      /\ Share' = Share /\ PaidOut' = PaidOut + amount /\ amount \in Nat
  BY BatchPaysNewWallets
<1>3. lamports' = CloseVault(after)
  <2> DEFINE complete == winners_ledger.paid_count + Cardinality(batch)
                            = winners_ledger.winners_count
  <2>1. /\ settled' = complete
        /\ complete => lamports' = CloseVault(after)
    BY DEF SettlePayoutBatch
  <2> HIDE DEF after
  <2> QED  BY <2>1, Zenon
<1>4. \A a \in Accounts : after[a] =
            IF a = Vault THEN lamports[a] - amount
            ELSE IF a \in recipients THEN lamports[a] + Share ELSE lamports[a]
  BY PayWinnersEffect
<1>5. /\ Deposit \in Nat /\ Share \in Nat /\ PaidOut \in Nat /\ CreatorFunds \in Nat
      /\ Fee \in Nat /\ Fee = ServiceFee /\ lamports \in [Accounts -> Int]
  BY BooksType, PoolFits
<1>6. after \in [Accounts -> Int]
  <2> HIDE DEF amount
  <2> QED  BY <1>2, <1>5 DEF PayWinners, Share, amount
<1>7. Vault \in Accounts /\ Creator \in Accounts /\ Vault # Creator /\ Vault # Authority
  BY AccountsAssumption DEF Accounts
<1> HIDE DEF after
<1>8. \A a \in Accounts : lamports'[a] =
            IF a = Vault THEN 0
            ELSE after[a] + (IF a = Authority THEN Fee ELSE 0)
                          + (IF a = Creator THEN after[Vault] - Fee ELSE 0)
  BY <1>3, <1>5, <1>6, CloseVaultEffect
<1>9. winners_ledger'.paid_count = winners_ledger'.winners_count
      /\ winners_ledger'.winners_count > 0
  <2>1. winners_ledger'.paid_count = winners_ledger.winners_count
    BY <1>1, Zenon
  <2>2. winners_ledger.winners_count > 0
    BY <1>1 DEF SharesInvariant
  <2> QED  BY <1>1, <2>1, <2>2
<1>10. Distributed'
  BY <1>9 DEF Distributed
<1>11. Deposit' = Deposit /\ Fee' = Fee
  BY <1>1 DEF Deposit, Fee
<1>12. FeePaid' = Fee /\ FeePaid = 0
  BY <1>1, <1>10, <1>11 DEF FeePaid, Distributed
<1>13. CreatorOutlay' = PaidOut + amount + Fee /\ CreatorOutlay = Deposit
  <2> HIDE DEF amount, PaidOut, FeePaid, Fee, Deposit
  <2> QED  BY <1>1, <1>2, <1>12 DEF CreatorOutlay
<1> HIDE DEF recipients, amount, PaidWallets, FeePaid, CreatorOutlay, PaidOut,
             Deposit, Share, Fee
<1>14. PaidWallets \subseteq Wallets /\ Vault \notin Wallets
  BY <1>2, AccountsAssumption
<1>15. after[Vault] = Deposit - PaidOut - amount
  <2>1. lamports[Vault] = ExpectedBalance(Vault)
    BY <1>7 DEF BooksBalance
  <2> QED  BY <1>1, <1>2, <1>4, <1>5, <1>7, <1>12, <1>14, <2>1 DEF ExpectedBalance
<1>16. ASSUME NEW a \in Accounts
       PROVE  lamports'[a] = ExpectedBalance(a)'
  <2>1. lamports[a] = ExpectedBalance(a)
    BY DEF BooksBalance
  <2>2. a \in PaidWallets' <=> a \in PaidWallets \/ a \in recipients
    BY <1>2
  <2>3. ~(a \in PaidWallets /\ a \in recipients)
    BY <1>2
  <2>4. CASE a = Vault
    <3>1. a \notin PaidWallets'
      BY <1>2, <1>14, <2>4
    <3> QED  BY <1>7, <1>8, <2>4, <3>1 DEF ExpectedBalance
  <2>5. CASE a # Vault
    <3>1. after[a] = (IF a = Creator THEN CreatorFunds - Deposit ELSE 0)
                        + (IF a \in PaidWallets' THEN Share ELSE 0)
      BY <1>1, <1>4, <1>5, <1>12, <1>13, <2>1, <2>2, <2>3, <2>5 DEF ExpectedBalance
    <3>2. lamports'[a] = after[a] + (IF a = Authority THEN Fee ELSE 0)
                            + (IF a = Creator THEN after[Vault] - Fee ELSE 0)
      BY <1>8, <2>5
    <3> QED
      BY <1>2, <1>5, <1>12, <1>13, <1>15, <2>5, <3>1, <3>2 DEF ExpectedBalance
  <2> QED  BY <2>4, <2>5
<1>17. BooksBalance'
  BY <1>16 DEF BooksBalance
<1> QED  BY <1>7, <1>8, <1>10, <1>17

\* The refund: whatever winners have not received goes back to the creator.
LEMMA BooksRefund ==
    ASSUME TypeOK, DrawInvariant, SharesInvariant, BooksBalance, SettleGiveaway
    PROVE  BooksBalance' /\ ~Distributed' /\ lamports'[Vault] = 0
<1>1. /\ created /\ ~settled /\ settled' = TRUE
      /\ UNCHANGED <<created, terms, winners_ledger, winners_computed>>
      /\ lamports' = Transfer(lamports, Vault, Creator, lamports[Vault])
  BY DEF SettleGiveaway
<1>2. Vault \in Accounts /\ Creator \in Accounts /\ Vault # Creator
  BY AccountsAssumption DEF Accounts
<1>3. /\ Deposit \in Nat /\ Share \in Nat /\ PaidOut \in Nat /\ CreatorFunds \in Nat
      /\ lamports \in [Accounts -> Int]
  BY BooksType
<1>4. \A a \in Accounts : lamports'[a] =
            IF a = Vault THEN lamports[a] - lamports[Vault]
            ELSE IF a = Creator THEN lamports[a] + lamports[Vault] ELSE lamports[a]
  BY <1>1, <1>2, <1>3, TransferEffect
<1>5. ~Distributed'
  <2>1. CASE winners_computed
    <3>1. winners_ledger.paid_count < winners_ledger.winners_count
      BY <1>1, <2>1 DEF SharesInvariant
    <3>2. winners_ledger.paid_count # winners_ledger.winners_count
      BY <3>1, BooksType
    <3> QED  BY <1>1, <3>2 DEF Distributed
  <2>2. CASE ~winners_computed
    BY <1>1, <2>2 DEF SharesInvariant, NoWinnersLedger, Distributed
  <2> QED  BY <2>1, <2>2
<1>6. FeePaid = 0 /\ FeePaid' = 0
  BY <1>1, <1>5 DEF FeePaid, Distributed
<1>7. UNCHANGED <<Share, PaidOut, PaidWallets, Deposit>>
  BY <1>1 DEF Share, PaidOut, PaidWallets, Deposit
<1>8. CreatorOutlay = Deposit /\ CreatorOutlay' = PaidOut
  <2> HIDE DEF FeePaid, PaidOut, Deposit
  <2> QED  BY <1>1, <1>3, <1>6, <1>7 DEF CreatorOutlay
<1>9. Vault \notin PaidWallets
  BY PaidAreWallets, AccountsAssumption
<1> HIDE DEF PaidWallets, FeePaid, CreatorOutlay, PaidOut, Deposit, Share
<1>10. lamports[Vault] = Deposit - PaidOut
  <2>1. lamports[Vault] = ExpectedBalance(Vault)
    BY <1>2 DEF BooksBalance
  <2>2. Vault # Authority
    BY AccountsAssumption
  <2> QED  BY <1>1, <1>2, <1>3, <1>9, <2>1, <2>2 DEF ExpectedBalance
<1>11. ASSUME NEW a \in Accounts
       PROVE  lamports'[a] = ExpectedBalance(a)'
  <2>1. lamports[a] = ExpectedBalance(a)
    BY DEF BooksBalance
  <2> QED
    BY <1>1, <1>2, <1>3, <1>4, <1>6, <1>7, <1>8, <1>9, <1>10, <2>1
       DEF ExpectedBalance
<1>12. BooksBalance'
  BY <1>11 DEF BooksBalance
<1> QED  BY <1>2, <1>3, <1>4, <1>5, <1>12

-----------------------------------------------------------------------------
LEMMA BooksStep ==
    ASSUME TypeOK, EntropyInvariant, DrawInvariant, SharesInvariant, BooksBalance,
           [Next]_vars
    PROVE  BooksBalance'
<1>1. CASE \/ Tick \/ BeginUploadPhase \/ FinalizeOpensRemediation \/ UNCHANGED vars
           \/ \E bps \in FeeRates : UpdateServiceCharge(bps)
           \/ \E new_deadline \in Instants : ExtendActiveDeadline(new_deadline)
           \/ \E w \in Wallets : DisqualifyParticipant(w)
           \/ \E w \in Wallets : IssueReceipt(w)
           \/ \E w \in Wallets : AttestUploaded(w)
           \/ \E w \in Wallets, c \in Commitments : Participate(w, c)
           \/ \E by_authority \in BOOLEAN, batch \in SUBSET Reveals :
                    UploadReveals(by_authority, batch)
  <2>1. UNCHANGED <<created, terms, settled, winners_ledger, lamports>>
    BY <1>1 DEF Tick, BeginUploadPhase, FinalizeOpensRemediation, vars,
                UpdateServiceCharge, ExtendActiveDeadline, DisqualifyParticipant,
                IssueReceipt, AttestUploaded, Participate, UploadReveals
  <2>2. UNCHANGED <<Deposit, Share, PaidOut, PaidWallets, Fee, Distributed>>
    BY <2>1 DEF Deposit, Share, PaidOut, PaidWallets, Fee, Distributed
  <2>3. UNCHANGED <<FeePaid, CreatorOutlay>>
    BY <2>1 DEF FeePaid, CreatorOutlay, Deposit, PaidOut, Share, Fee, Distributed
  <2> QED  BY <2>1, <2>2, <2>3, BooksFrame
<1>2. CASE PayoutBatch
  BY <1>2, BooksPay, BooksDistribute DEF PayoutBatch
<1> QED
  BY <1>1, <1>2, NextCases, BooksCreate, BooksFinalize, BooksLock, BooksRefund

\* Every lamport of every account is accounted for, in every reachable state,
\* for any amounts and fee rates and even if creator, authority and winners
\* coincide: payouts, fee, refund and rounding dust neither lose nor create any.
THEOREM MoneyIsConserved == Spec => []BooksBalance
<1>1. Init => BooksBalance
  BY BooksInit
<1>2. TypeOK /\ EntropyInvariant /\ DrawInvariant /\ SharesInvariant /\ BooksBalance
        /\ [Next]_vars => BooksBalance'
  BY BooksStep
<1> QED
  BY <1>1, <1>2, TypeCorrect, EntropyInvariantHolds, DrawInvariantHolds,
     SharesInvariantHolds, PTL DEF Spec

\* What a vault holds while its giveaway is open.
LEMMA HeldWhileOpen ==
    ASSUME TypeOK, DrawInvariant, SharesInvariant, BooksBalance, created, ~settled
    PROVE  lamports[Vault] = Deposit - PaidOut
<1>1. Vault \in Accounts /\ Vault # Creator /\ Vault # Authority
  BY AccountsAssumption DEF Accounts
<1>2. Vault \notin PaidWallets
  BY PaidAreWallets, AccountsAssumption
<1>3. lamports[Vault] = ExpectedBalance(Vault)
  BY <1>1 DEF BooksBalance
<1>4. Deposit \in Nat /\ PaidOut \in Nat
  BY BooksType
<1> HIDE DEF PaidWallets, PaidOut, Deposit, Share
<1> QED  BY <1>1, <1>2, <1>3, <1>4 DEF ExpectedBalance

LEMMA VaultCovers ==
    ASSUME TypeOK, DrawInvariant, SharesInvariant, BooksBalance
    PROVE  VaultCoversObligations
<1> SUFFICES ASSUME winners_computed, ~settled
             PROVE  lamports[Vault] >=
                Share * (winners_ledger.winners_count - winners_ledger.paid_count)
                    + ServiceFee
  BY DEF VaultCoversObligations
<1> DEFINE n == winners_ledger.winners_count
           k == winners_ledger.paid_count
<1>1. created
  BY DEF DrawInvariant, DrawnOnce, LedgerInvariant
<1>2. /\ Share \in Nat /\ n \in Nat /\ k \in Nat /\ PaidOut \in Nat
      /\ Fee \in Nat /\ Fee = ServiceFee /\ RENT \in Nat
      /\ terms.total_payout_lamports \in Nat
  BY BooksType, PoolFits, AmountsAssumption
<1>3. Share * n + Fee <= terms.total_payout_lamports
  BY DEF SharesInvariant
<1>4. lamports[Vault] = Deposit - PaidOut
  BY <1>1, HeldWhileOpen
<1>5. Deposit = RENT + terms.total_payout_lamports /\ PaidOut = Share * k
  BY DEF Deposit, PaidOut
<1> HIDE DEF n, k, Share, Deposit, PaidOut, Fee
<1>6. Share * (n - k) = Share * n - Share * k /\ Share * n \in Int /\ Share * k \in Int
  BY <1>2, Distributes
<1>7. lamports[Vault] >= Share * (n - k) + ServiceFee
  BY <1>2, <1>3, <1>4, <1>5, <1>6
<1> QED  BY <1>7 DEF n, k

\* No payout batch can fail for lack of funds: the vault holds what the winners
\* still unpaid will receive and the fee, whatever the authority did to the rate.
THEOREM VaultAlwaysCovers == Spec => []VaultCoversObligations
<1>1. TypeOK /\ DrawInvariant /\ SharesInvariant /\ BooksBalance
        => VaultCoversObligations
  BY VaultCovers
<1> QED
  BY <1>1, TypeCorrect, DrawInvariantHolds, SharesInvariantHolds, MoneyIsConserved,
     PTL

-----------------------------------------------------------------------------
(* The escrow *)

EscrowUnchanged ==
    UNCHANGED <<EscrowStatus, lamports[Vault], Fee, Beneficiaries, Share, PaidWallets>>

\* The invariants that the steps of the escrow rest on.
EscrowInvariant ==
    TypeOK /\ EntropyInvariant /\ DrawInvariant /\ SharesInvariant /\ BooksBalance

\* The escrow counts as the giveaway does.
LEMMA SameCount ==
    ASSUME NEW S
    PROVE  E!Cardinality(S) = Cardinality(S)
BY DEF E!Cardinality, Cardinality

LEMMA EscrowInitMaps == Init => E!EscrowInit
<1> SUFFICES ASSUME Init PROVE E!EscrowInit
  OBVIOUS
<1>1. /\ created = FALSE /\ winners_ledger = NoWinnersLedger
      /\ terms.total_payout_lamports = 0 /\ terms.service_fee_bps = 0
      /\ lamports = [a \in Accounts |-> IF a = Creator THEN CreatorFunds ELSE 0]
  BY DEF Init
<1>2. EscrowStatus = "none"
  BY <1>1 DEF EscrowStatus
<1>3. lamports[Vault] = 0
  BY <1>1, AccountsAssumption DEF Accounts
<1>4. Fee = 0
  BY <1>1 DEF Fee
<1>5. Beneficiaries = {} /\ Share = 0 /\ PaidWallets = {}
  BY <1>1 DEF NoWinnersLedger, Beneficiaries, Share, PaidWallets
<1> QED  BY <1>2, <1>3, <1>4, <1>5 DEF E!EscrowInit

-----------------------------------------------------------------------------
\* create_giveaway opens the escrow.
LEMMA CreateOpens ==
    ASSUME EscrowInvariant, NEW total \in Payouts, NEW n \in WinnerCounts,
           NEW start \in Instants, NEW deadline \in Instants,
           NEW duration \in UploadDurations,
           CreateGiveaway(total, n, start, deadline, duration)
    PROVE  E!Open
<1>1. /\ ~created /\ created' = TRUE /\ ~settled /\ ~settled' /\ ~winners_computed
      /\ ~winners_computed'
      /\ UNCHANGED <<winners_computed, winners_ledger>>
      /\ terms'.total_payout_lamports = total /\ total > 0
  <2>1. ~winners_computed /\ ~settled
    BY DEF CreateGiveaway, DrawInvariant, DrawnOnce, LedgerInvariant,
           SharesInvariant, EscrowInvariant
  <2> QED  BY <2>1 DEF CreateGiveaway
<1>2. EscrowStatus = "none" /\ EscrowStatus' = "open"
  BY <1>1 DEF EscrowStatus, Distributed
<1>3. UNCHANGED <<Beneficiaries, Share, PaidWallets>>
  BY <1>1 DEF Beneficiaries, Share, PaidWallets
<1>4. TypeOK' /\ DrawInvariant' /\ SharesInvariant' /\ BooksBalance'
  BY CreateGiveawayType, DrawCreate, SharesCreate, BooksCreate DEF EscrowInvariant
<1>5. lamports'[Vault] = total + RENT
  <2>1. lamports[Vault] = 0
    <3>1. Vault \in Accounts /\ Vault # Creator /\ Vault # Authority
      BY AccountsAssumption DEF Accounts
    <3>2. lamports[Vault] = ExpectedBalance(Vault) /\ PaidWallets = {} /\ FeePaid = 0
      BY <1>1, <3>1, NothingPaidBeforeDraw DEF BooksBalance, EscrowInvariant
    <3> HIDE DEF PaidWallets, FeePaid, Deposit, PaidOut, Share
    <3> QED  BY <1>1, <3>1, <3>2 DEF ExpectedBalance
  <2>2. lamports' = Transfer(lamports, Creator, Vault, total + RENT)
    BY DEF CreateGiveaway
  <2>3. total + RENT \in Int /\ lamports \in [Accounts -> Int]
    BY AmountsAssumption DEF EscrowInvariant, TypeOK
  <2>4. Vault \in Accounts /\ Creator \in Accounts /\ Creator # Vault
    BY AccountsAssumption DEF Accounts
  <2>5. lamports'[Vault] = lamports[Vault] + (total + RENT)
    BY <2>2, <2>3, <2>4, TransferEffect
  <2> QED  BY <2>1, <2>3, <2>5
<1>6. Fee' \in 0..total
  <2>1. total \in Nat /\ terms'.service_fee_bps \in 0..MAX_SERVICE_FEE_BPS
    BY <1>4, AmountsAssumption DEF TypeOK, TermsType
  <2>2. ServiceFeeOf(total, terms'.service_fee_bps) \in 0..total
    BY <2>1, AmountsType
  <2> QED  BY <1>1, <2>2 DEF Fee, ServiceFeeOf
<1>7. lamports'[Vault] > 0 /\ Fee' \in 0..lamports'[Vault]
  <2>1. total \in Nat /\ RENT \in Nat
    BY AmountsAssumption
  <2> HIDE DEF Fee
  <2> QED  BY <1>1, <1>5, <1>6, <2>1
<1> HIDE DEF Fee, EscrowStatus, Beneficiaries, Share, PaidWallets
<1> QED  BY <1>2, <1>3, <1>7 DEF E!Open

-----------------------------------------------------------------------------
\* The chunk that completes the draw is the draw of the escrow, on the pool
\* that the deposit covers; an earlier chunk does nothing.
LEMMA FinalizeDraws ==
    ASSUME EscrowInvariant, NEW chunk \in SUBSET Wallets, FinalizeChunk(chunk)
    PROVE  E!Draw \/ EscrowUnchanged
<1> DEFINE n == winners_ledger'.winners_count
<1>1. /\ created /\ ~settled /\ ~winners_computed
      /\ created' = created /\ ~settled' /\ terms' = terms /\ lamports' = lamports
      /\ winners_computed' => winners_ledger'.paid = {}
      /\ winners_computed' \/ winners_ledger' = winners_ledger
  <2>1. /\ created /\ ~settled /\ ~winners_computed
        /\ UNCHANGED <<created, terms, settled, lamports>>
        /\ \/ \E list, m, share :
                winners_ledger' =
                    [NoWinnersLedger EXCEPT
                        !.computed = TRUE, !.winner_wallets = list,
                        !.winners_count = m, !.per_winner_lamports = share]
           \/ winners_computed' = FALSE /\ winners_ledger' = winners_ledger
        /\ winners_computed' = TRUE \/ winners_ledger' = winners_ledger
    BY ChunkPublishes DEF EscrowInvariant
  <2> QED  BY <2>1, PublishedLedger
<1>2. TypeOK' /\ SharesInvariant'
  BY FinalizeWinnersType, SharesFinalize DEF FinalizeWinners, EscrowInvariant
<1>3. EscrowStatus = "open" /\ Fee' = Fee
  BY <1>1 DEF EscrowStatus, Distributed, Fee
<1>4. CASE winners_computed'
  <2>1. EscrowStatus' = "drawn"
    BY <1>1, <1>4 DEF EscrowStatus, Distributed
  <2>2. PaidWallets' = {} /\ PaidWallets = {} /\ PaidOut = 0
    BY <1>1, <1>4, NothingPaidBeforeDraw DEF PaidWallets, EscrowInvariant
  <2>3. lamports[Vault] = Deposit - PaidOut
    BY <1>1, HeldWhileOpen DEF EscrowInvariant
  <2>4. /\ n \in Nat \ {0} /\ Share' \in Nat /\ Share' >= 1
        /\ winners_ledger'.winner_wallets \in [1..n -> Wallets]
        /\ \A i, j \in 1..n : winners_ledger'.winner_wallets[i]
                                = winners_ledger'.winner_wallets[j] => i = j
        /\ Share' * n + Fee' <= terms'.total_payout_lamports
    <3>1. n \in Nat /\ Share' \in Nat
      BY <1>2 DEF TypeOK, WinnersLedgerType, Share
    <3> HIDE DEF Share, Fee
    <3>2. /\ n > 0 /\ Share' >= 1
          /\ winners_ledger'.winner_wallets \in [1..n -> Wallets]
          /\ \A i, j \in 1..n : winners_ledger'.winner_wallets[i]
                                = winners_ledger'.winner_wallets[j] => i = j
          /\ Share' * n + Fee' <= terms'.total_payout_lamports
      BY <1>2, <1>4 DEF SharesInvariant
    <3> QED  BY <3>1, <3>2
  <2>5. Cardinality(Beneficiaries') = n /\ Beneficiaries' \in (SUBSET Wallets) \ {{}}
    <3> DEFINE list == winners_ledger'.winner_wallets
    <3>1. Beneficiaries' = {list[i] : i \in 1..n}
      BY DEF Beneficiaries
    <3>2. /\ n \in Nat /\ list \in [1..n -> Wallets] /\ 1..n \in SUBSET (1..n)
          /\ \A i, j \in 1..n : list[i] = list[j] => i = j
      BY <2>4
    <3>3. list[1] \in Beneficiaries'
      BY <2>4, <3>1
    <3> HIDE DEF n, list
    <3>4. Cardinality({list[i] : i \in 1..n}) = Cardinality(1..n)
      BY <3>2, ImageSize
    <3>5. Cardinality(Beneficiaries') = n
      BY <3>1, <3>2, <3>4, IntervalSize
    <3> QED  BY <3>1, <3>2, <3>3, <3>5
  <2>6. /\ terms.total_payout_lamports \in Nat /\ RENT \in Nat
        /\ Fee \in Nat /\ lamports[Vault] = RENT + terms.total_payout_lamports
    BY <2>2, <2>3, PoolFits, AmountsAssumption DEF Deposit, EscrowInvariant
  <2>7. /\ Share' \in 1..lamports[Vault]
        /\ Share' * Cardinality(Beneficiaries') + Fee <= lamports[Vault]
    <3>1. Share' * 1 \in Nat /\ Share' * n \in Nat /\ Share' * 1 <= Share' * n
      <4> HIDE DEF n, Share
      <4>1. n \in Nat /\ 1 <= n
        BY <2>4
      <4> QED  BY <2>4, <4>1, ProductGrows
    <3> HIDE DEF n, Share, Fee, Beneficiaries
    <3>2. Share' * Cardinality(Beneficiaries') = Share' * n
      BY <2>5
    <3>3. Share' * n + Fee <= terms.total_payout_lamports
      BY <1>1, <1>3, <2>4
    <3> QED  BY <2>4, <2>6, <3>1, <3>2, <3>3
  <2>8. UNCHANGED <<lamports[Vault], Fee, PaidWallets>>
    BY <1>1, <1>3, <2>2
  <2> HIDE DEF n, Share, Fee, Beneficiaries, PaidWallets, EscrowStatus
  <2>9. E!Draw
    BY <1>3, <2>1, <2>5, <2>7, <2>8, SameCount, Zenon DEF E!Draw
  <2> QED  BY <2>9
<1>5. CASE ~winners_computed'
  <2>1. winners_ledger' = winners_ledger
    BY <1>1, <1>5
  <2>2. EscrowStatus' = EscrowStatus
    BY <1>1, <1>3, <1>5 DEF EscrowStatus, Distributed
  <2>3. UNCHANGED <<Beneficiaries, Share, PaidWallets>>
    BY <2>1 DEF Beneficiaries, Share, PaidWallets
  <2> HIDE DEF Share, Fee, Beneficiaries, PaidWallets, EscrowStatus
  <2> QED  BY <1>1, <1>3, <2>2, <2>3 DEF EscrowUnchanged
<1> QED  BY <1>4, <1>5

\* A batch that leaves winners unpaid pays some of the beneficiaries.
LEMMA BatchPays ==
    ASSUME EscrowInvariant, NEW batch \in SUBSET (1..winners_ledger.winners_count),
           SettlePayoutBatch(batch), ~settled'
    PROVE  E!Pay
<1> DEFINE W == winners_ledger
           n == W.winners_count
           recipients == {W.winner_wallets[i] : i \in batch}
<1>1. /\ created /\ ~settled /\ winners_computed
      /\ created' = created /\ terms' = terms /\ winners_computed' = winners_computed
      /\ W'.winner_wallets = W.winner_wallets
      /\ W'.winners_count = W.winners_count
      /\ W'.paid = W.paid \cup batch
      /\ Cardinality(batch) \in Nat \ {0}
      /\ settled' = (W'.paid_count = W.winners_count)
  BY BatchMarksPaid DEF EscrowInvariant
<1>2. /\ PaidWallets' = PaidWallets \cup recipients
      /\ PaidWallets \cap recipients = {}
      /\ Share' = Share /\ PaidOut' = PaidOut + Share * Cardinality(batch)
  BY BatchPaysNewWallets DEF EscrowInvariant
<1>3. EscrowStatus = "drawn" /\ EscrowStatus' = "drawn"
  BY <1>1 DEF EscrowStatus, Distributed
<1>4. Fee' = Fee /\ Beneficiaries' = Beneficiaries
  BY <1>1 DEF Fee, Beneficiaries
<1>5. /\ n \in Nat /\ W.winner_wallets \in [1..n -> Wallets]
      /\ \A i, j \in 1..n : W.winner_wallets[i] = W.winner_wallets[j] => i = j
  BY <1>1, BooksType DEF SharesInvariant, EscrowInvariant
<1>6. TypeOK' /\ DrawInvariant' /\ SharesInvariant' /\ BooksBalance'
  BY PayoutType, DrawPayout, SharesPayout, BooksPay DEF PayoutBatch, EscrowInvariant
<1>7. W'.paid_count = Cardinality(W'.paid) /\ W'.paid \subseteq 1..n
  BY <1>1, <1>6 DEF DrawInvariant, CountersMatchAccounts
<1>8. PaidWallets' \subseteq Beneficiaries /\ PaidWallets' # Beneficiaries
  <2>1. /\ PaidWallets' = {W.winner_wallets[i] : i \in W'.paid}
        /\ Beneficiaries = {W.winner_wallets[i] : i \in 1..n}
    BY <1>1 DEF PaidWallets, Beneficiaries
  <2>2. W'.paid_count # n
    BY <1>1, Zenon
  <2>3. PICK i \in 1..n : i \notin W'.paid
    <3>1. W'.paid # 1..n
      BY <1>5, <1>7, <2>2, IntervalSize
    <3> QED  BY <1>7, <3>1
  <2>4. W.winner_wallets[i] \notin PaidWallets'
    BY <1>5, <1>7, <2>1, <2>3
  <2>5. W.winner_wallets[i] \in Beneficiaries
    BY <2>1
  <2> QED  BY <1>7, <2>1, <2>4, <2>5
<1>9. Cardinality(recipients) = Cardinality(batch) /\ recipients # {}
  <2>1. batch \in SUBSET (1..n)
    OBVIOUS
  <2>2. \E i : i \in batch
    BY <1>1, FS_EmptySet
  <2> DEFINE list == W.winner_wallets
  <2>3. list \in [1..n -> Wallets] /\ \A i, j \in 1..n : list[i] = list[j] => i = j
    BY <1>5
  <2> HIDE DEF n, list
  <2>4. Cardinality({list[i] : i \in batch}) = Cardinality(batch)
    BY <1>5, <2>1, <2>3, ImageSize
  <2> QED  BY <2>2, <2>4 DEF list
<1>10. PaidWallets' \ PaidWallets = recipients
  <2> HIDE DEF recipients, PaidWallets
  <2> QED  BY <1>2
<1>11. lamports'[Vault] = lamports[Vault] - Share * Cardinality(PaidWallets' \ PaidWallets)
  <2>1. lamports[Vault] = Deposit - PaidOut
    BY <1>1, HeldWhileOpen DEF EscrowInvariant
  <2>2. lamports'[Vault] = lamports[Vault] - Share * Cardinality(batch)
    <3> DEFINE complete == W.paid_count + Cardinality(batch) = W.winners_count
    <3>1. /\ settled' = complete
          /\ ~complete => lamports' = PayWinners(batch)
      BY DEF SettlePayoutBatch
    <3>2. lamports' = PayWinners(batch)
      BY <3>1, Zenon
    <3>3. Vault \in Accounts
      BY DEF Accounts
    <3> QED  BY <3>2, <3>3, PayWinnersEffect
  <2> HIDE DEF recipients, PaidWallets
  <2> QED  BY <1>9, <1>10, <2>2
<1> HIDE DEF recipients, PaidWallets, Beneficiaries, EscrowStatus, Fee, Share
<1>12. PaidWallets \subseteq PaidWallets' /\ PaidWallets' # PaidWallets
  BY <1>2, <1>9
<1>13. UNCHANGED <<EscrowStatus, Fee, Beneficiaries, Share>>
  BY <1>2, <1>3, <1>4
<1>14. PaidWallets' \subseteq Beneficiaries
  BY <1>8
<1> QED
  BY <1>3, <1>8, <1>11, <1>12, <1>13, <1>14, SameCount, Zenon
     DEF E!Pay, E!Due

\* The batch that pays the last winners distributes the rest.
LEMMA LastBatchDistributes ==
    ASSUME EscrowInvariant, NEW batch \in SUBSET (1..winners_ledger.winners_count),
           SettlePayoutBatch(batch), settled'
    PROVE  E!Distribute
<1> DEFINE W == winners_ledger
           n == W.winners_count
           recipients == {W.winner_wallets[i] : i \in batch}
<1>1. /\ created /\ ~settled /\ winners_computed
      /\ created' = created /\ terms' = terms /\ winners_computed' = winners_computed
      /\ W'.winner_wallets = W.winner_wallets
      /\ W'.winners_count = W.winners_count
      /\ W'.paid = W.paid \cup batch
      /\ Cardinality(batch) \in Nat \ {0}
      /\ W'.paid_count = W.paid_count + Cardinality(batch)
      /\ settled' = (W'.paid_count = W.winners_count)
  BY BatchMarksPaid DEF EscrowInvariant
<1>2. /\ PaidWallets' = PaidWallets \cup recipients
      /\ PaidWallets \cap recipients = {}
      /\ Share' = Share
  BY BatchPaysNewWallets DEF EscrowInvariant
<1>3. Distributed' /\ lamports'[Vault] = 0
  BY BooksDistribute DEF EscrowInvariant
<1>4. EscrowStatus = "drawn" /\ EscrowStatus' = "distributed"
  BY <1>1, <1>3 DEF EscrowStatus, Distributed
<1>5. Fee' = Fee /\ Beneficiaries' = Beneficiaries
  BY <1>1 DEF Fee, Beneficiaries
<1>6. /\ n \in Nat /\ W.winner_wallets \in [1..n -> Wallets]
      /\ \A i, j \in 1..n : W.winner_wallets[i] = W.winner_wallets[j] => i = j
  BY <1>1, BooksType DEF SharesInvariant, EscrowInvariant
<1>7. PaidWallets' = Beneficiaries
  <2>1. DrawInvariant'
    BY DrawPayout DEF PayoutBatch, EscrowInvariant
  <2>2. W'.paid_count = Cardinality(W'.paid) /\ W'.paid \subseteq 1..n
    BY <1>1, <2>1 DEF DrawInvariant, CountersMatchAccounts
  <2>3. W'.paid_count = n
    BY <1>1, Zenon
  <2>4. W'.paid = 1..n
    <3>1. IsFiniteSet(1..n) /\ Cardinality(1..n) = n
      BY <1>6, IntervalSize
    <3>2. Cardinality(W'.paid) = n
      BY <2>2, <2>3
    <3>3. W'.paid \subseteq 1..n
      BY <2>2
    <3> DEFINE paid == W'.paid
               all == 1..n
    <3> HIDE DEF paid, all
    <3> QED  BY <3>1, <3>2, <3>3, FS_Subset DEF paid, all
  <2> QED  BY <1>1, <2>4 DEF PaidWallets, Beneficiaries
<1>8. Cardinality(recipients) = Cardinality(batch) /\ recipients # {}
  <2>1. batch \in SUBSET (1..n)
    OBVIOUS
  <2>2. \E i : i \in batch
    BY <1>1, FS_EmptySet
  <2> DEFINE list == W.winner_wallets
  <2>3. list \in [1..n -> Wallets] /\ \A i, j \in 1..n : list[i] = list[j] => i = j
    BY <1>6
  <2> HIDE DEF n, list
  <2>4. Cardinality({list[i] : i \in batch}) = Cardinality(batch)
    BY <1>6, <2>1, <2>3, ImageSize
  <2> QED  BY <2>2, <2>4 DEF list
<1>9. Beneficiaries \ PaidWallets = recipients
  <2> HIDE DEF recipients, PaidWallets, Beneficiaries
  <2> QED  BY <1>2, <1>7
<1>10. Share * Cardinality(Beneficiaries \ PaidWallets) + Fee <= lamports[Vault]
  <2>1. lamports[Vault] >= Share * (n - W.paid_count) + ServiceFee
    BY <1>1, VaultCovers DEF VaultCoversObligations, EscrowInvariant
  <2>2. n - W.paid_count = Cardinality(batch)
    <3>1. W.paid_count + Cardinality(batch) = n
      BY <1>1, Zenon
    <3>2. W.paid_count \in Nat
      BY BooksType DEF EscrowInvariant
    <3> QED  BY <1>1, <3>1, <3>2
  <2>3. Fee = ServiceFee /\ Fee \in Nat /\ Share \in Nat /\ lamports[Vault] \in Int
    <3>1. Vault \in Accounts
      BY DEF Accounts
    <3> QED  BY <3>1, PoolFits, BooksType DEF EscrowInvariant
  <2> HIDE DEF recipients, PaidWallets, Beneficiaries, Fee, Share
  <2>4. Share * Cardinality(batch) \in Int
    BY <1>1, <2>3
  <2>5. Cardinality(Beneficiaries \ PaidWallets) = Cardinality(batch)
    BY <1>8, <1>9
  <2>6. lamports[Vault] >= Share * Cardinality(batch) + Fee
    BY <2>1, <2>2, <2>3
  <2> QED  BY <2>3, <2>4, <2>5, <2>6
<1> HIDE DEF recipients, PaidWallets, Beneficiaries, EscrowStatus, Fee, Share
<1>11. PaidWallets # Beneficiaries
  BY <1>8, <1>9
<1> QED
  BY <1>2, <1>3, <1>4, <1>5, <1>7, <1>10, <1>11, SameCount, Zenon
     DEF E!Distribute, E!Due

\* The refund returns what is held, before or after the draw.
LEMMA RefundReturns ==
    ASSUME EscrowInvariant, SettleGiveaway
    PROVE  E!Return
<1>1. /\ created /\ ~settled /\ settled' = TRUE
      /\ UNCHANGED <<created, terms, winners_ledger, winners_computed>>
  BY DEF SettleGiveaway
<1>2. ~Distributed' /\ lamports'[Vault] = 0
  BY BooksRefund DEF EscrowInvariant
<1>3. EscrowStatus \in {"open", "drawn"} /\ EscrowStatus' = "returned"
  BY <1>1, <1>2 DEF EscrowStatus, Distributed
<1>4. UNCHANGED <<Fee, Beneficiaries, Share, PaidWallets>>
  BY <1>1 DEF Fee, Beneficiaries, Share, PaidWallets
<1> HIDE DEF PaidWallets, Beneficiaries, EscrowStatus, Fee, Share
<1> QED  BY <1>2, <1>3, <1>4 DEF E!Return

-----------------------------------------------------------------------------
LEMMA EscrowStepMaps ==
    ASSUME EscrowInvariant, [Next]_vars
    PROVE  E!EscrowNext \/ EscrowUnchanged
<1>1. CASE \/ Tick \/ BeginUploadPhase \/ FinalizeOpensRemediation \/ UNCHANGED vars
           \/ LockWinners
           \/ \E bps \in FeeRates : UpdateServiceCharge(bps)
           \/ \E new_deadline \in Instants : ExtendActiveDeadline(new_deadline)
           \/ \E w \in Wallets : DisqualifyParticipant(w)
           \/ \E w \in Wallets : IssueReceipt(w)
           \/ \E w \in Wallets : AttestUploaded(w)
           \/ \E w \in Wallets, c \in Commitments : Participate(w, c)
           \/ \E by_authority \in BOOLEAN, batch \in SUBSET Reveals :
                    UploadReveals(by_authority, batch)
  <2>1. /\ UNCHANGED <<created, terms, settled, winners_computed, lamports>>
        /\ \/ winners_ledger' = winners_ledger
           \/ winners_ledger' = [winners_ledger EXCEPT !.locked = TRUE]
    BY <1>1 DEF Tick, BeginUploadPhase, FinalizeOpensRemediation, vars, LockWinners,
                UpdateServiceCharge, ExtendActiveDeadline, DisqualifyParticipant,
                IssueReceipt, AttestUploaded, Participate, UploadReveals
  <2>2. winners_ledger \in WinnersLedgerType
    BY DEF EscrowInvariant, TypeOK
  <2>3. /\ winners_ledger'.winner_wallets = winners_ledger.winner_wallets
        /\ winners_ledger'.winners_count = winners_ledger.winners_count
        /\ winners_ledger'.per_winner_lamports = winners_ledger.per_winner_lamports
        /\ winners_ledger'.paid = winners_ledger.paid
        /\ winners_ledger'.paid_count = winners_ledger.paid_count
    BY <2>1, <2>2 DEF WinnersLedgerType
  <2>4. UNCHANGED <<Fee, Beneficiaries, Share, PaidWallets>>
    BY <2>1, <2>3 DEF Fee, Beneficiaries, Share, PaidWallets
  <2>5. EscrowStatus' = EscrowStatus
    BY <2>1, <2>3 DEF EscrowStatus, Distributed
  <2> HIDE DEF PaidWallets, Beneficiaries, EscrowStatus, Fee, Share
  <2> QED  BY <2>1, <2>4, <2>5 DEF EscrowUnchanged
<1>2. CASE PayoutBatch
  BY <1>2, BatchPays, LastBatchDistributes DEF PayoutBatch, E!EscrowNext
<1>3. ASSUME NEW chunk \in SUBSET Wallets, FinalizeChunk(chunk)
      PROVE  E!EscrowNext \/ EscrowUnchanged
  BY <1>3, FinalizeDraws DEF E!EscrowNext
<1>4. CASE SettleGiveaway
  BY <1>4, RefundReturns DEF E!EscrowNext
<1>5. ASSUME NEW total \in Payouts, NEW n \in WinnerCounts, NEW start \in Instants,
             NEW deadline \in Instants, NEW duration \in UploadDurations,
             CreateGiveaway(total, n, start, deadline, duration)
      PROVE  E!EscrowNext
  BY <1>5, CreateOpens DEF E!EscrowNext
<1> QED  BY <1>1, <1>2, <1>3, <1>4, <1>5, NextCases

\* The giveaway implements the escrow: for any participants, windows, chunks,
\* batches and retries, its vault is funded once, pays each beneficiary of one
\* draw at most once and is closed once, by distribution or by return.
THEOREM EscrowIsImplemented == Spec => ImplementsEscrow
<1>1. Init => E!EscrowInit
  BY EscrowInitMaps
<1>2. EscrowInvariant /\ [Next]_vars => [E!EscrowNext]_(E!escrowVars)
  BY EscrowStepMaps DEF EscrowUnchanged, E!escrowVars
<1>3. TypeOK /\ EntropyInvariant /\ DrawInvariant /\ SharesInvariant /\ BooksBalance
        => EscrowInvariant
  BY DEF EscrowInvariant
<1> QED
  BY <1>1, <1>2, <1>3, TypeCorrect, EntropyInvariantHolds, DrawInvariantHolds,
     SharesInvariantHolds, MoneyIsConserved, PTL
     DEF Spec, ImplementsEscrow, E!EscrowSpec
-----------------------------------------------------------------------------
(* When the escrow may return *)

LEMMA RemediationInit == Init => RemediationInvariant
BY DEF Init, RemediationInvariant

\* Steps that leave the upload window and the remediation window alone.
LEMMA RemediationFrame ==
    ASSUME TypeOK, RemediationInvariant, created' = created, now' \in {now, now + 1},
           UNCHANGED <<remediationVars, upload_start_unix, upload_deadline_unix>>
    PROVE  RemediationInvariant'
BY DEF RemediationInvariant, TypeOK

\* begin_remediation keeps the invariant when the upload deadline has passed.
LEMMA RemediationBegins ==
    ASSUME TypeOK, RemediationInvariant, BeginRemediation, created,
           now >= upload_deadline_unix, UNCHANGED frameVars
    PROVE  RemediationInvariant'
<1>1. /\ created' = created /\ now' = now
      /\ upload_start_unix' = upload_start_unix
      /\ upload_deadline_unix' = upload_deadline_unix
  OBVIOUS
<1>2. CASE remediation_start_unix = 0
  BY <1>1, <1>2, DurationsAssumption DEF BeginRemediation, RemediationInvariant, TypeOK
<1>3. CASE remediation_start_unix # 0
  BY <1>1, <1>3, RemediationFrame DEF BeginRemediation
<1> QED  BY <1>2, <1>3

LEMMA RemediationUpload ==
    ASSUME TypeOK, RemediationInvariant, NEW by_authority \in BOOLEAN,
           NEW batch \in SUBSET Reveals, UploadReveals(by_authority, batch)
    PROVE  RemediationInvariant'
<1>1. created /\ UNCHANGED frameVars
  BY DEF UploadReveals
<1>2. CASE by_authority
  <2>1. UNCHANGED remediationVars
    BY <1>2 DEF UploadReveals
  <2> QED  BY <1>1, <2>1, RemediationFrame
<1>3. CASE ~by_authority
  <2>1. BeginRemediation /\ now >= upload_deadline_unix
    BY <1>3 DEF UploadReveals, CanUpload
  <2> QED  BY <1>1, <2>1, RemediationBegins
<1> QED  BY <1>2, <1>3

\* The deadline is extended only before remediation could have opened.
LEMMA RemediationExtend ==
    ASSUME TypeOK, EntropyInvariant, RemediationInvariant,
           NEW new_deadline \in Instants, ExtendActiveDeadline(new_deadline)
    PROVE  RemediationInvariant'
<1>1. new_deadline \in Nat
  BY DurationsAssumption DEF Instants
<1>2. /\ created /\ created' = created /\ now' = now /\ UNCHANGED remediationVars
      /\ now < active_deadline_unix
      /\ upload_start_unix' = new_deadline
      /\ upload_deadline_unix' =
            new_deadline + (upload_deadline_unix - upload_start_unix)
  BY DEF ExtendActiveDeadline, CanExtend
<1>3. AllowEarlyUpload \/ remediation_start_unix = 0
  BY <1>2 DEF EntropyInvariant, RemediationInvariant, TypeOK
<1> QED  BY <1>1, <1>2, <1>3 DEF RemediationInvariant, TypeOK

LEMMA RemediationStep ==
    ASSUME TypeOK, EntropyInvariant, RemediationInvariant, [Next]_vars
    PROVE  RemediationInvariant'
<1>1. CASE \/ Tick \/ LockWinners \/ SettleGiveaway \/ PayoutBatch \/ UNCHANGED vars
           \/ \E chunk \in SUBSET Wallets : FinalizeChunk(chunk)
           \/ \E bps \in FeeRates : UpdateServiceCharge(bps)
           \/ \E w \in Wallets : DisqualifyParticipant(w)
           \/ \E w \in Wallets : IssueReceipt(w)
           \/ \E w \in Wallets : AttestUploaded(w)
           \/ \E w \in Wallets, c \in Commitments : Participate(w, c)
  <2>1. /\ created' = created /\ now' \in {now, now + 1}
        /\ UNCHANGED <<remediationVars, upload_start_unix, upload_deadline_unix>>
    BY <1>1 DEF Tick, LockWinners, SettleGiveaway, PayoutBatch, SettlePayoutBatch,
                FinalizeChunk, vars, UpdateServiceCharge, DisqualifyParticipant,
                IssueReceipt, AttestUploaded, Participate
  <2> QED  BY <2>1, RemediationFrame
<1>2. CASE FinalizeOpensRemediation
  BY <1>2, RemediationBegins DEF FinalizeOpensRemediation, FinalizeGuard
<1>3. CASE BeginUploadPhase
  <2>1. AllowEarlyUpload /\ created /\ created' = created /\ now' = now
        /\ UNCHANGED remediationVars /\ upload_start_unix' = now
        /\ upload_deadline_unix' = now + config.default_upload_duration_secs
    BY <1>3 DEF BeginUploadPhase
  <2>2. config.default_upload_duration_secs \in Nat
    BY DurationsAssumption DEF TypeOK, ConfigType, UploadDurations
  <2> QED  BY <2>1, <2>2 DEF RemediationInvariant, TypeOK
<1>4. ASSUME NEW total \in Payouts, NEW n \in WinnerCounts, NEW start \in Instants,
             NEW deadline \in Instants, NEW duration \in UploadDurations,
             CreateGiveaway(total, n, start, deadline, duration)
      PROVE  RemediationInvariant'
  <2>1. deadline \in Nat /\ duration \in Nat
    BY DurationsAssumption DEF Instants, UploadDurations
  <2>2. /\ ~created /\ created' = TRUE /\ now' = now /\ UNCHANGED remediationVars
        /\ upload_start_unix' = deadline /\ upload_deadline_unix' = deadline + duration
    BY <1>4 DEF CreateGiveaway
  <2> QED  BY <2>1, <2>2 DEF RemediationInvariant, TypeOK
<1> QED
  BY <1>1, <1>2, <1>3, <1>4, NextCases, RemediationUpload, RemediationExtend

\* Once opened, the remediation window is a full window that started at or
\* after the upload deadline in force, however late the deadline was moved.
THEOREM RemediationInvariantHolds == Spec => []RemediationInvariant
<1>1. Init => RemediationInvariant
  BY RemediationInit
<1>2. TypeOK /\ EntropyInvariant /\ RemediationInvariant /\ [Next]_vars
        => RemediationInvariant'
  BY RemediationStep
<1> QED  BY <1>1, <1>2, TypeCorrect, EntropyInvariantHolds, PTL DEF Spec

\* A payout batch that settles pays the last winner: it is no refund.
LEMMA OnlyTheCreatorRefunds ==
    ASSUME EscrowInvariant, [Next]_vars, RefundStep
    PROVE  SettleGiveaway
<1>1. ASSUME NEW batch \in SUBSET (1..winners_ledger.winners_count),
             SettlePayoutBatch(batch)
      PROVE  FALSE
  <2>1. /\ winners_computed
        /\ winners_ledger'.winners_count = winners_ledger.winners_count
        /\ settled' = (winners_ledger'.paid_count = winners_ledger.winners_count)
    BY <1>1, BatchMarksPaid DEF EscrowInvariant
  <2>2. winners_ledger.winners_count > 0 /\ winners_ledger.winners_count \in Nat
    BY <2>1, BooksType DEF SharesInvariant, EscrowInvariant
  <2>3. winners_ledger'.paid_count = winners_ledger.winners_count
    BY <2>1, Zenon DEF RefundStep
  <2> QED  BY <2>1, <2>2, <2>3 DEF RefundStep
<1>2. CASE ~(SettleGiveaway \/ PayoutBatch)
  <2>1. settled' = settled
    BY <1>2, NextCases
       DEF Tick, CreateGiveaway, UpdateServiceCharge, ExtendActiveDeadline,
           BeginUploadPhase, DisqualifyParticipant, IssueReceipt, Participate,
           AttestUploaded, UploadReveals, FinalizeOpensRemediation,
           FinalizeChunk, LockWinners, vars
  <2> QED  BY <2>1 DEF RefundStep
<1> QED  BY <1>1, <1>2 DEF PayoutBatch

\* With somebody attested, settle_giveaway has expired remediation to go by:
\* the other reasons for a refund need nobody entered or nobody drawn.
LEMMA RefundNeedsExpiry ==
    ASSUME EscrowInvariant, SettleGiveaway, attested_count > 0
    PROVE  RemediationExpired
<1>1. RefundDue
  BY DEF SettleGiveaway
<1>2. attested_count # 0
  BY DEF EscrowInvariant, TypeOK
<1>3. participants_count # 0
  <2>1. SUFFICES ASSUME participants_count = 0 PROVE FALSE
    OBVIOUS
  <2>2. IsFiniteSet(enrolled)
    BY WalletsAssumption, FS_Subset DEF EscrowInvariant, TypeOK
  <2>3. Cardinality(enrolled) = 0
    BY <2>1 DEF EscrowInvariant, DrawInvariant, CountersMatchAccounts
  <2>4. enrolled = {}
    BY <2>2, <2>3, FS_EmptySet
  <2>5. attested_uploaded = {}
    BY <2>4 DEF EscrowInvariant, EntropyInvariant
  <2>6. Cardinality(attested_uploaded) = 0
    BY <2>5, FS_EmptySet
  <2> QED  BY <1>2, <2>6 DEF EscrowInvariant, DrawInvariant, CountersMatchAccounts
<1>4. winners_computed => winners_ledger.winners_count # 0
  BY BooksType DEF EscrowInvariant, SharesInvariant
<1> QED  BY <1>1, <1>2, <1>3, <1>4 DEF RefundDue

\* In a production build the creator of a giveaway with attested participants
\* waits out a full remediation window past the upload deadline, and a reveal
\* is still missing then.
THEOREM RefundWaits ==
    ASSUME ~AllowEarlyUpload
    PROVE  Spec => RefundWaitsForRemediation
<1>1. ASSUME EscrowInvariant, RemediationInvariant, [Next]_vars,
             RefundStep, attested_count > 0
      PROVE  /\ now > upload_deadline_unix + DEFAULT_REMEDIATION_WINDOW_SECS
             /\ attested_uploaded \ reveal_included # {}
  <2>1. RemediationExpired
    BY <1>1, OnlyTheCreatorRefunds, RefundNeedsExpiry
  <2>2. now > upload_deadline_unix + DEFAULT_REMEDIATION_WINDOW_SECS
    BY <1>1, <2>1, DurationsAssumption
       DEF RemediationExpired, RemediationInvariant, EscrowInvariant, TypeOK
  <2>3. attested_uploaded \ reveal_included # {}
    <3>1. SUFFICES ASSUME attested_uploaded \subseteq reveal_included PROVE FALSE
      OBVIOUS
    <3>2. attested_uploaded = reveal_included
      BY <1>1, <3>1 DEF EscrowInvariant, EntropyInvariant
    <3>3. attested_count = provider_uploaded_count
      BY <1>1, <3>2 DEF EscrowInvariant, DrawInvariant, CountersMatchAccounts
    <3> QED
      BY <1>1, <2>1, <3>3 DEF RemediationExpired, HasMissingAttestedReveals,
                              EscrowInvariant, TypeOK
  <2> QED  BY <2>2, <2>3
<1>2. TypeOK /\ EntropyInvariant /\ DrawInvariant /\ SharesInvariant /\ BooksBalance
        /\ RemediationInvariant /\ [Next]_vars
        => [RefundStep /\ attested_count > 0 =>
                /\ now > upload_deadline_unix + DEFAULT_REMEDIATION_WINDOW_SECS
                /\ attested_uploaded \ reveal_included # {}]_vars
  BY <1>1 DEF EscrowInvariant
<1> QED
  BY <1>2, TypeCorrect, EntropyInvariantHolds, DrawInvariantHolds,
     SharesInvariantHolds, MoneyIsConserved, RemediationInvariantHolds, PTL
     DEF Spec, RefundWaitsForRemediation
=============================================================================
