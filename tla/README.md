# Giveaways: a verification development

TLA+ models of the Solana program in `programs/giveaways`, the TLC
configurations that check them on small instances, and proofs, checked by
TLAPS, of its central properties for every value of the constants.

## 1. The system

A creator deposits a prize into a vault. Participants commit to a secret
phrase, upload the phrase to a service provider, and attest on chain, with the
provider's signed receipt, that they did. The provider reveals the phrases on
chain; their XOR is the entropy of the draw. The draw ranks the participants in
chunks and keeps the best `number_of_winners`; the creator locks the result and
the authority pays the winners in batches. A giveaway without participants or
attestations, or whose attested reveals stay missing through a remediation
window, is refunded to the creator.

Every instruction is one atomic transaction; a failing guard rejects it whole.
The hard part is therefore not interleaving inside an instruction but the order
of instructions sent by five kinds of actors (creator, authority, participants,
third-party uploaders, and the clock), none of whom waits for another.

### Components

| component | state | operations | what makes it correct |
|---|---|---|---|
| Giveaway account, phases | windows, counters, flags | read by everything | counters agree with accounts; windows never overlap |
| Creation, configuration, windows | terms, config, windows, vault | `create_giveaway`, `update_service_charge`, `extend_active_deadline`, `begin_upload_phase` | fee and terms are a snapshot; moved windows keep their order |
| Entry, eligibility, attestation | Participant accounts | `participate`, `disqualify_participant`, `attest_uploaded` | a commitment is frozen, and eligibility decided, before entropy is revealed |
| Reveal upload, remediation | aggregate, included reveals, remediation window | `upload_reveals` | the aggregate is exactly the attested reveals included, each once |
| Chunked finalization | FinalizationLedger, finalization versions | `finalize_winners` | the result does not depend on how the chunks are cut |
| Locking, payout, refund | WinnersLedger, lamports | `lock_winners`, `settle_payout_batch`, `settle_giveaway` | every lamport is accounted for, nobody is paid twice, the vault is closed once |
| Paid bitmap, payout batches | bitmap, paid count | `is_winner_paid`, `mark_winner_paid`, the claims of `settle_payout_batch` | bits are payments; a refused winner holds back only itself |
| Merkle commitment | root in WinnersLedger | `build_merkle_tree`, `verify_merkle_proof` | every listed winner's proof verifies, no other does |
| Ed25519 receipts | none, reads its transaction | `verify_provider_receipt`, `parse_ed25519_ix` | what is accepted was signed by the provider |
| Config registry, account linkage | next id, fee rate; accounts named by their seeds | `initialize`, ids in `create_giveaway`, the constraints of every instruction | ids are sequential; giveaways do not touch each other's entries, vaults and ledgers |
| Legacy selection, events, errors | none that an instruction reads | | not modelled, section 7 |

They interact through shared accounts only: the counters of the Giveaway
account gate finalization and refund, the aggregate becomes the seed of the
FinalizationLedger at its first chunk, the completed FinalizationLedger becomes
the WinnersLedger, and payout and refund draw on the same vault.

Hard behaviours: attestations and reveals that arrive while a draw is under way
or done; windows moved by extension or early upload; the refund racing the
payout; XOR cancellation; rounding and fee changes between creation and
settlement; accounts that play several roles; ledgers too large to allocate;
creators racing for an id; accounts of one giveaway passed to an instruction for
another; winners whose accounts the runtime refuses to credit.
`PROJECT.json` lists each hazard at its line with the properties that cover it.

## 2. Modules

```
Ranking                       order of candidates, TopK, InRankOrder
  GiveawayState               accounts, phases, amounts, ledgers
    EntryInstructions         creation ... attestation
    SettlementInstructions    uploads ... payout and refund
      Giveaways               Init, Next, fairness
        GiveawayProperties    invariants, action properties, liveness
          EscrowRefinement    refinement mapping to Escrow
            GiveawaysMC       instances for TLC
          DocumentedClaims    sentences of the docs, DocumentedClaimsMC
  FinalizationLedger          the candidate array, FinalizationLedgerMC
  RankingTheorems             proofs about the order
MerkleTree                    root and proofs over hash terms
  PayoutLedger                bitmap, batches, refused recipients
    PayoutProperties          PayoutMC
ProviderReceipt               Ed25519 receipts in a transaction
  RegistryEntries             many giveaways: config, creation ... uploads
    Registry                  draw, payout, refund; Next
      RegistryProperties      RegistryMC
Escrow                        the abstract vault, implemented by EscrowRefinement,
                              PayoutProperties and RegistryProperties
GiveawaysProofs               types, entropy and draw of Giveaways
  MoneyProofs                 balances, escrow and remediation of Giveaways
FinalizationProofs            proofs about FinalizationLedger
SetTheorems                   induction over naturals, sums over finite sets
  MerkleProofs                proofs about MerkleTree
    PayoutProofs              proofs about PayoutLedger
  RegistryProofs              proofs about Registry
```

Three views of the program share their parts of the code. `Giveaways` has one
giveaway with all its timing and its draw. `PayoutLedger` takes over where the
draw has published its winners and refines how they are paid. `Registry` has
many giveaways and keeps of each what the others could disturb. All three are
shown to implement `Escrow`.

How state and actions correspond to the code:

- The fields of the Giveaway account are variables under their own names.
  Boolean fields of Participant accounts are sets of wallets
  (`attested_uploaded`, `reveal_included`, `disqualified`), and `enrolled` is
  the set of wallets whose account exists. `terms` groups the fields that only
  `create_giveaway` writes.
- The ledgers are records; `started` and `computed` stand for "the `giveaway`
  field is no longer the default key", which is how the program tells a fresh
  `init_if_needed` account. `settlement_started` stands for a nonzero
  `settlement_started_at_unix`.
- The paid bitmap is the set `paid` of positions. Index i of the program is
  position i + 1 of `winner_wallets`.
- Every instruction is one action with the name of the handler. The failure
  branches are the guards. `finalize_winners` has two: opening remediation,
  which succeeds without processing anything, and processing a chunk.
- `lamports` holds the vault's, the authority's, the creator's and the wallets'
  balances. Only the vault's rent is kept (`RENT`); what payers spend on the
  rent of other accounts and on transaction fees is left out, so balances mean
  "owed to this giveaway". Nothing is ever read of the other balances but the
  creator's funds at creation.
- A wallet is a number, its place in byte order. A reveal is the pair of wallet
  and commitment: SHA-256 is treated as injective, XOR as symmetric difference
  of sets, the seed as the aggregate it hashes. `Rank` is an arbitrary
  function, so ties are possible and no proof relies on ranks being distinct.
- `FinalizeChunk` keeps the candidates as the set `TopK`. `FinalizationLedger`
  models the array insertion by insertion and its run checks that it holds
  exactly that set, sorted.
- `IssueReceipt` is the off-chain provider: it may sign for any commitment in
  force at the time, and signatures never expire. `Tick` is the chain's clock.
- `PayoutLedger`: a claim is the `WinnerProof` with the account passed for it; a
  batch folds over its claims, and `ok` turning false is the error that undoes
  the transaction. `paid_bitmap` is a sequence of bytes, tested and set by
  arithmetic. `funded` is the set of accounts at or above the rent minimum,
  which their owners may empty; `RentRuleHolds` is the runtime's refusal of a
  transaction that leaves a formerly empty account with less than that. `proofs`
  are what a client computes once from the published list.
- `MerkleTree`: a hash is the term it was computed from, so it is injective. The
  tree is built level by level, the last node of an odd level paired with
  itself, and a proof is verified from the leaf up along the bits of the index.
- `ProviderReceipt`: an Ed25519 instruction of the transaction has a key and a
  message in its own data and may point to another instruction's. `Executes` is
  the runtime: it verifies what is pointed to. `ParseEd25519` is the program.
- `Registry`: an account is named by the seeds of its address: giveaways, vaults
  and ledgers by the id, an entry by giveaway and wallet. Every instruction is
  given any existing accounts, and only the operators `Linked...` and
  `OwnedEntry`, one for each kind of constraint, reject those of another
  giveaway. `window` is the clock seen from one giveaway: in its active window,
  in its upload window, over; deadlines move no further here. Who ranks best is
  any choice of `number_of_winners` candidates.
- `WinnersLedgerAllocatable` and `FinalizationLedgerAllocatable` are the
  runtime's limit on allocation in a nested call, which `init_if_needed` needs.

## 3. Runs

| run | instance | shows |
|---|---|---|
| `lifecycle` | 2 wallets, 2 commitments, windows of 1 or 2 instants, 1 winner | types; nobody attested is disqualified; entropy is receipted and exact; commitments are frozen; refunds wait for remediation; `RemediationInvariant`, why they do |
| `early` | the same with `AllowEarlyUpload`, upload windows of 1 | the same safety when windows jump; here `EntropyInvariant`, the inductive strengthening, is checked as well |
| `draw` | 3 wallets, 1 commitment, 1 or 2 winners | counters; top-K across chunks; one draw; `DrawInvariant`, the inductive strengthening |
| `money` | 3 wallets; prizes 2, 7, 20; 1 to 3 winners; fees 0, 25 % and 99.99 %; the creator is wallet 1 | books balance; obligations covered; refinement of `Escrow`; `SharesInvariant`, the inductive strengthening |
| `progress` | 2 wallets, `CreatorSpec` | without attestations the creator alone recovers the deposit; with the authority's fairness every created giveaway is settled |
| `ledger` | 4 candidates, all ranks 0..2, targets 0..3 | the array is the top-K in every order |
| `payout` | 1, 3 or 9 winners, prizes 3, 20 and 80 at 25 %, rent 6, batches of 1 or 2 claims; winner 9 and the authority may empty their accounts; `FairSpec` | bits are payments; listed winners and nobody else verify; refused accounts hold back only themselves; refinement of `Escrow`; `PayoutInvariant`, the inductive strengthening |
| `registry` | 2 creators, 2 wallets, 2 giveaways, 2 entries, fees 0 and 40 %, 1 prize of 5 for 2 winners | ids; vaults, balances, counters and winners of each giveaway are its own; attestations are receipted; each giveaway is an `Escrow` of its own; `ReceiptInvariant`, `LedgersInvariant`, `EscrowsInvariant`, the inductive strengthenings |
| `claim_*` | small | four documented sentences the code does not keep, section 6 |

Bounds. `MaxTime` bounds the instants an input may name; windows must close by
then, and the clock runs one instant past the last window, remediation
included, so every comparison of the clock with a deadline is seen before, at
and after. Windows of 1 and 2 instants give every relative order of two
windows; the remediation window is 1. Two wallets suffice for properties about
one participant against the others; three are needed for chunks that interleave
with attestations (two before, one between), for more candidates than winners,
and for a refund that catches a payout half done. Two commitments are what a replaced commitment needs. A prize of 2
reaches the minimum payout, 7 rounds the 25 % fee and the shares, and fewer
attesters than requested winners leave slots unused. `MAX_REVEALS_PER_BATCH`
is 2 and `MAX_WINNERS_PER_BATCH` 1 or 2, so batches are cut and limits hit.
Wallets are ordered numbers, so no symmetry is used.

`update_service_charge` can always run, so no state of `Giveaways` deadlocks;
that settlement is reached is the business of `progress`. The `ledger` run
disables the deadlock check because a completed ledger stops.

Nine winners are the smallest number with a second byte of the bitmap, and give
odd levels of 9, 5 and 3 nodes. Batches are one claim or two, of right and wrong
claims, which is where a failing claim undoes an earlier one. In
`OnlyListedWinnersVerify` proofs are any up to three hashes of the tree for up to
three winners, beyond that they are too many. Two giveaways and two entries
are what one instruction can confuse; entries in the same giveaway and in both
occur. Prize 5 with a 40 % fee leaves a fee of 2 and one odd lamport between two
winners. Creators, and wallets, are interchangeable in `registry`, which uses
that symmetry (its properties are safety only). `CreatorFunds` of 12 pay for two
giveaways of one creator.

Fairness. `progress` checks `CreatorSpec`, in which the clock advances and the
creator keeps sending instructions; `EventuallySettled` states the authority's
part as its hypothesis, `AuthorityFairness`. In `payout`, `FairSpec` assumes that
the creator locks and that the authority goes on sending single claims while one
of them would succeed (`PaySomeWinner`); nothing is assumed of which, nor of the
owners of the accounts.

`FairSpec` of `Giveaways` assumes that the clock advances and that the authority
(`FinalizeWinners`, `PayoutBatch`) and the creator (`LockWinners`,
`SettleGiveaway`) keep sending their instructions while these would succeed.
The program has no scheduler: its README leaves these steps to the operator and
the creator, and no other account may take them. Nothing is assumed of
participants, of the provider's uploads or of third-party remediators, and weak
fairness suffices because once enabled these instructions stay enabled until
they, or something that replaces them, run.

## 4. Properties

- `CommitmentFrozenByAttestation`, `DisqualifiedNeverAttested`: the entry,
  eligibility and attestation windows meet in single instants and are moved by
  two instructions; these say they never overlap for anybody.
- `EntropyIsReceipted`, `AggregateIsIncludedReveals`: what the entropy is made
  of, across batches, uploaders and replaced commitments.
- `RefundWaitsForRemediation`: a refund against attested participants comes
  only after the whole remediation window, with a reveal still missing.
- `CountersMatchAccounts`, `WinnersAreTopKOfIncluded`, `DrawnOnce`: the chunked
  draw is one draw. They are stated against the definition of the best k of a
  set, not against the ledger's own steps.
- `BooksBalance`, `VaultCoversObligations`: the balance of every account as a
  function of the payments recorded, aliasing included, and the vault never
  short.
- `ImplementsEscrow`: the program implements `Escrow`: funded once, one set of
  beneficiaries, one share each at most once, closed once. The set is never
  empty, so the "no_eligible_participants" branch of `settle_giveaway`
  (settle_giveaway.rs:81-85) is never taken: whoever attested was not
  disqualified, and nothing is drawn before somebody attested.
- `CandidatesAreBestSeen`: the array of `FinalizationLedger` against `TopK`.
- `DrawStartsFromAllReveals`: the flag `uploads_complete` goes stale with every
  attestation; no chunk goes by it.
- `CreatorCanRecover`, `EventuallySettled`: what ends without the authority, and
  what ends with it.
- `BitmapIsPayments`, `PayoutInvariant`, `PaysAsEscrow`: bits, counter, vault and
  received lamports agree whatever batches are sent, resent or undone, and the
  vault covers whoever is still unpaid.
- `UnpaidWinnerIsPayable`, `OnlyListedWinnersVerify`: completeness and soundness
  of the Merkle commitment, odd levels included.
- `CreditableWinnerIsPaid`, `SettledOnceAllCreditable`: a winner's account the
  runtime refuses delays that winner only, and the settlement only as long as it
  stays refused. Settlement completes in the transaction that pays the last
  winner and the fee, so an empty account of the authority, with a fee below the
  rent minimum, holds back that last payment; both properties say so in their
  hypotheses. The creator's refund contains the rent of the vault and is never
  refused.
- `IdsAreSequential`, `AccountsBalance`: racing, repeated and late creations.
- `VaultsFollowTheirLedgers`, `WinnersTookPart`, `CountsAreOfOwnEntries`,
  `GiveawaysAreSeparateEscrows`: no instruction mixes the accounts of two
  giveaways up.
- `AttestationsAreReceipted`: for any layout of the Ed25519 instructions.

Each property has a mutant in `PROJECT.json`, a plausible bug of the code that
the run then finds.

## 5. Proofs

All theorems hold for arbitrary constants. Those about `Giveaways` use the named
assumptions of `Ranking` and `GiveawayState`: finitely many wallets numbered by
naturals, the zero hash not a commitment, ranks in `Nat`, the vault's key
distinct from all others, durations positive, amounts natural, fee rates at most
9999. `RegistryProofs` uses those of `RegistryEntries`: creators, wallets and
authority are different keys (`PartiesAssumption`; a participant who held the
authority's key could sign receipts) and amounts are natural
(`AmountsAssumption`). `PayoutProofs` uses those of `PayoutLedger`: finitely many
payees, of whom the first so many win, the authority not among them, natural
totals, fee rates at most 9999, a positive rent. `MerkleProofs` assumes nothing
of the hash terms but that they are terms. No invariant below is inductive as the property is
stated; each has a strengthening, which a run checks too.

### One giveaway

`TypeCorrect` (`GiveawaysProofs`): `Spec => []TypeOK`, one lemma per group of
instructions.

Entropy (`GiveawaysProofs`): `EntropyInvariant` adds the reason: the entry deadline never
exceeds the upload start, nobody has attested before the upload start, whoever
attested is enrolled, not disqualified and holds a receipt for the commitment in
force, and only they are included. From it follow
`DisqualificationBeforeAttestation`, `OnlyReceiptedEntropy`, `AggregateIsExact`,
and, with the entry window, `AttestedCommitmentsFrozen`.

`RankingTheorems`: `Precedes` is a strict total order although ranks may tie;
in a finite set the number of predecessors enumerates the members without
repetition (`PositionsAreBijective`), so `InRankOrder` is sorted
(`RankOrderIsSorted`), and `TopKMerges`: cutting to the best k before adding
more candidates loses nothing. Cardinalities are handled with the library's
finite-set theorems, without induction.

Draw (`GiveawaysProofs`): `DrawInvariant` joins the counters with `LedgerInvariant`: the
ledger is started once with version 1 and the terms' number of winners, a
participant's version is 0 or 1 and is 1 only if its reveal is included, and
the candidates are `TopK` of those finalized so far. A chunk preserves that by
`TopKMerges`; when the processed count reaches the count of included reveals,
equal cardinalities of a subset and its superset make the finalized exactly the
included, which is `WinnersAreTheBest`. The counters (`CountersAreExact`) carry
that step, and the version makes the draw single (`OneDraw`).
`DrawSeesAllReveals` follows from the counters: a chunk that runs finds as many
included reveals as attestations, and the included are among the attested.

`FinalizationProofs`: `ArrayIsBestSeen`. The array of the code, insertion by
insertion with eviction of its worst entry, holds the `TopK` of everybody
recorded, in any order of arrival and under any ties. The argument is one
insertion: if nobody is evicted the top k of one more is the set with it added;
if the array is full the newcomer replaces the worst exactly when it precedes
it. So the set `TopK` that `FinalizeChunk` of `Giveaways` keeps stands for the
array.

`MoneyProofs`: `SharesInvariant` rests on `DrawInvariant`, which makes the list
of winners free of repetition and not empty. It says that shares are fixed once,
that shares and fee fit into the prize, and that the batch of the last payment
settles. On top of it `BooksBalance` is inductive (`MoneyIsConserved`):
lemmas give the effect of a transfer, a batch and the closing of the vault on any
account, whatever roles it combines, and finite-set theorems count the winners a
batch adds to those paid. What is still owed is then a
difference of two products of one share, from which `VaultAlwaysCovers`. The
wallets of creator, authority and winners may coincide.

Escrow (`MoneyProofs`): `EscrowIsImplemented`, the step simulation. Each instruction is
shown to be one step of `Escrow` under the mapping of `EscrowRefinement`, or to
leave its variables alone: creation opens, the last chunk draws, a batch pays or
distributes, the refund returns. `SharesInvariant` and the balance of the vault
supply what `Escrow` demands of the draw and of the distribution. The same
module proves `RemediationInvariantHolds`: the remediation window opens once and
lasts its full length, and in production builds the upload deadline is behind it
and cannot move any more. `RefundWaits` follows: if `AllowEarlyUpload` is
FALSE, `RefundWaitsForRemediation` holds. The hypothesis is needed: in
early-upload builds the authority may move the upload deadline past a
remediation window that has begun.

### Many giveaways

`RegistryProofs`: `AcceptedReceiptIsSigned` is about any transaction, of any
number of instructions in any layout: what the program reads is what the runtime
verified. With it `ReceiptInvariant`, that accounts lie at their addresses and
nobody is attested while the entry window of the giveaway is open, is inductive
(`ReceiptInvariantHolds`): `attest_uploaded` is the one step that attests, and
`participate` the one that replaces a commitment, before anybody is attested.
`AttestationsReceipted` follows. `SequentialIds` needs that no giveaway precedes
the config and that no other instruction creates one (`OtherStepFrame`).

`LedgersInvariant` (inductive with `ReceiptInvariant`): every account says which
giveaway it belongs to and lies at the address of that giveaway, draws hold
included entries of their own giveaway, ledgers hold winners of a completed draw.
`WinnersAreParticipants` is a consequence. With it an instruction that passes
the checks of the program names one giveaway's accounts only, which is what the
lemmas `...Effect` say, and `VaultsAreTheirOwn` and `CountsAreOwn` compare the
vault and the counters with the giveaway's own ledger and entries.

`EscrowsInvariant` adds what makes a settlement proceed: payable terms, nobody
attested and disqualified, so a draw that has processed anybody has a candidate
and a ledger has winners, and the last payment settles the giveaway it belongs
to. `SeparateEscrows` is the step simulation once more, for a family of escrows:
every step is a step of `EscrowOf(g)` for at most one `g`, and leaves all others
alone (`OneEscrow`). `EscrowsInvariant` makes the refund a return and not a
distribution, and `VaultsFollowTheirLedgers` lets the draw find the whole
deposit.

`AccountsAddUp` proves `AccountsBalance`: across all giveaways, the balance of a
creator is the initial funds less a sum over the creator's own giveaways, and
that of the authority a sum of fees. `BooksInvariant` adds that balances are
integers and giveaways finitely many. `BooksMove` is the heart: an instruction
on giveaway `g` changes one term of the sum of `g`'s creator and one of the
authority's, and the balances by the same amounts. The cases then say by how
much: nothing before settlement (`BooksUnsettled`), the excess of the deposit
over the payments at a refund (`RefundBooks`), shares and fee at the last payment
(`PayoutBooks`, with `VaultsFollowTheirLedgers` for what the vault still held).
The sum is the library's fold, which takes the terms in an order the definition
leaves open; `SetTheorems` proves that it exists, is unique, takes any element
first (`SumTakesAny`), and changes by what one term changes by (`SumChangesBy`).

### The tree and the bitmap

`SetTheorems` also has induction over the naturals for a set of them
(`NatSetInduction`, from the well-foundedness of `<`), which the provers can
use: the induction theorems of the library take an operator as a parameter.
Folds, powers of two and the levels of the tree are reasoned about with it.

`MerkleProofs`: what the recursive functions of `MerkleTree` define
(`PassesShape`, `LevelsDef`, `HashesDef`): each level is half as long as the one
below, rounded up, until one node is left. `DerivedProofVerifies`
(completeness): the path index of a winner points at the hash computed so far
on each level (`HalvingPath`), and on an odd level builder and client take the
same hash twice. `OnlyEntriesVerify` (soundness): going back from the root, a
node that verification reached is in the tree only if both its children are, so
the leaf it started from is a leaf of the tree (`TreeNodes`), whatever the
length of the proof.

`PayoutProofs`: `PayoutInvariant` says the published terms stay as they were,
the bits are the payments, nobody who did not win has received anything, and
until settlement the vault holds its rent, the fee and a share for every clear
bit. The last part is why no honest batch can fail for lack of funds. It is
inductive (`PayoutInvariantHolds`): `SetBitMarks` shows that setting one bit by
arithmetic changes no other, across bytes (`BitsSetApart`, from the uniqueness
of quotients) and leaves a byte a byte; `PayClaimsInOrder` turns the fold over a
batch into its steps, each of which keeps the bits, the counter and the
payments together (`ClaimIsConsistent`). `BitsArePayments` is a part of it.
`OnlyWinnersVerify` and `NobodyLeftBehind` add the two theorems about the tree,
and, for the second, that an unpaid winner's share and, with the last, the fee
are in the vault. `BatchesImplementEscrow` is the step simulation: the winners a
batch credits are unpaid beneficiaries, and as many as the counter moves by
(`CreditedAccounts`).

### What stays with TLC

- Liveness (`CreatorCanRecover`, `EventuallySettled`, `CreditableWinnerIsPaid`,
  `SettledOnceAllCreditable`): ENABLED is out of the prover's reach. These are
  the only properties of passing runs without a theorem.
- The documented sentences of section 6, which are refuted by counterexamples.

## 6. Where the documents and the code differ

- `claim_seed`. README.md:42 ranks "from the final reveal aggregate". With
  three participants: two attest and are revealed, which sets
  `uploads_complete` and makes finalization ready inside the upload window. The
  first chunk fixes the seed. The third attests, its reveal is included, and
  later chunks finalize it under the old seed. The final aggregate is not the
  seed's.
- `claim_blocked`. lib.rs:17: a missing attested participant blocks settlement.
  It blocks `finalize_winners` only. Attestation after the draw is accepted,
  its reveal is not, and the payout goes on.
- `claim_locked`. lib.rs:50 and 233: locked funds go to winners only. A
  participant attests after the draw. Past the upload deadline, a further
  `finalize_winners`, which does not look at `winners_computed`, opens
  remediation for the missing reveal; `upload_reveals` refuses the reveal
  because the winners are computed. The creator locks the winners, the window
  expires, and `settle_giveaway`, which looks at neither flag, refunds the
  creator, some winners possibly paid.
- `claim_refund`. PRODUCTION_RELEASE_CHECKLIST.md:100: empty giveaways are
  refunded. `settle_giveaway` allocates the winners ledger first, which the
  runtime refuses for 311 winners or more (10240 bytes), while creation allows
  1000. For finalization the limit is 157.

Smaller differences, not checked: state/giveaway.rs:92 calls `uploads_complete`
"all attested reveals ... uploaded", while one attestation after the completing
upload leaves it true with a reveal missing (`DrawStartsFromAllReveals` shows that
no draw starts from that); lib.rs:19-22 describes disqualification and
recomputation after the draw, which the code forbids (eligibility closes at the
upload start, `recompute_winners` always fails); lib.rs:245-249 says
`settle_giveaway` computes and locks winners, which it does not; the phase name
before the active window opens is "settlement".

## 7. Not modelled

Events and error codes (no instruction reads them); owner and writable checks of
accounts (they reject transactions); byte offsets inside an Ed25519 instruction
and inside account data; proof texts and length limits; the legacy
`select_winners` and participant set, which no instruction calls, and other
helpers in the same case (`update_defaults`, `require_key_match`,
`remove_participant`); `recompute_winners`, which only fails; the rent of
accounts other than the vault, except where the runtime's rule decides whether a
winner can be credited; `status` and record-keeping timestamps; overflow of 64-bit counters and
times, which the checked arithmetic turns into rejections far outside the
amounts in existence.

Lamports that third parties send to a vault are not modelled. Before creation
they make `create_account` fail, so the giveaway is not created; afterwards they
go to the creator, because both settlements refund whatever the vault still
holds (settle_payout_batch.rs:190, settle_giveaway.rs:100). The balances checked
are therefore those of money that creation put there.

`Registry` leaves out early upload and the limits on batch sizes. Without the
limits it has every batch of the code and longer ones too, so its safety theorems
hold of the code's batches; early upload is checked in `Giveaways` only.

What remains bounded: `CreatorCanRecover` and `EventuallySettled` are checked for
winner counts that the runtime can allocate ledgers for; beyond them a giveaway
does get stuck (`claim_refund`, section 6). `OnlyListedWinnersVerify` is checked
with up to three winners before locking; `OnlyEntriesVerify` proves the statement
for every number of them.

## 8. Plan

Done, in this order: `Ranking`, `GiveawayState`, the instruction modules,
`Giveaways` with its properties, `Escrow` and its refinement,
`FinalizationLedger`, the documented claims, the proofs about `Giveaways`,
`MerkleTree` and `PayoutLedger`, `ProviderReceipt` and `Registry`, progress
without the authority, the proofs about `Registry`, the proofs about money,
the escrow, remediation and the candidate array, and the proofs about the Merkle
tree, `PayoutLedger` and the books of many giveaways.

Left for when the code moves: finalization in several versions, should
`recompute_winners` come to life, and the deadlines of `Registry` second by
second, should an instruction ever read two giveaways at once.
