-------------------------- MODULE FinalizationLedger --------------------------
(***************************************************************************)
(* The candidate list of the finalization ledger as the program keeps it:  *)
(* an array that grows to target_winners and then replaces its worst entry *)
(* whenever a better candidate is recorded, sorted after every change.     *)
(* Participants may be recorded in any order.  Every property of the draw  *)
(* in Giveaways rests on this array being the set TopK of Ranking.         *)
(***************************************************************************)
EXTENDS Ranking, SequencesExt

CONSTANTS Targets           \* bound: values of number_of_winners

VARIABLES seed, target_winners, eligible_count, candidates, completed,
          recorded          \* wallets recorded so far (history)

ledgerVars ==
    <<seed, target_winners, eligible_count, candidates, completed, recorded>>

ASSUME TargetsAssumption == Targets \subseteq Nat

\* FinalizationLedger::initialize
LedgerInit ==
    /\ seed \in Seeds
    /\ target_winners \in Targets
    /\ eligible_count = 0
    /\ candidates = <<>>
    /\ completed = FALSE
    /\ recorded = {}

-----------------------------------------------------------------------------
\* sort_candidates, of an array whose entries are all different
Sorted(list) ==
    CHOOSE sorted \in [DOMAIN list -> ToSet(list)] :
        /\ ToSet(sorted) = ToSet(list)
        /\ \A i, j \in DOMAIN list : i < j => Precedes(seed, sorted[i], sorted[j])

\* Mutant: the comparison of candidates forgets the tie-break on the wallet.
WorstByRankOnly(list) ==
    CHOOSE i \in DOMAIN list :
        \A j \in DOMAIN list : Rank(seed, list[j]) <= Rank(seed, list[i])

\* worst_candidate_index of a non-empty array
WorstIndex(list) ==
    CHOOSE i \in DOMAIN list :
        \A j \in DOMAIN list \ {i} : Precedes(seed, list[j], list[i])

\* The array grows while it has room ...
Push(w) ==
    /\ Len(candidates) < target_winners
    /\ candidates' = Sorted(Append(candidates, w))

\* ... then the worst entry gives way to a candidate that precedes it.
BeatsWorst(w) == Precedes(seed, w, candidates[WorstIndex(candidates)])

ReplaceWorst(w) ==
    /\ target_winners > 0 /\ Len(candidates) = target_winners
    /\ BeatsWorst(w)
    /\ candidates' = Sorted([candidates EXCEPT ![WorstIndex(candidates)] = w])

Discard(w) ==
    /\ Len(candidates) = target_winners
    /\ target_winners > 0 => ~BeatsWorst(w)
    /\ UNCHANGED candidates

RecordEligible(w) ==
    /\ ~completed
    /\ w \notin recorded
    /\ w \notin ToSet(candidates)
    /\ eligible_count' = eligible_count + 1
    /\ recorded' = recorded \cup {w}
    /\ Push(w) \/ ReplaceWorst(w) \/ Discard(w)
    /\ UNCHANGED <<seed, target_winners, completed>>

Complete ==
    /\ ~completed
    /\ completed' = TRUE
    /\ candidates' = Sorted(candidates)
    /\ UNCHANGED <<seed, target_winners, eligible_count, recorded>>

LedgerNext == (\E w \in Wallets : RecordEligible(w)) \/ Complete

LedgerSpec == LedgerInit /\ [][LedgerNext]_ledgerVars

-----------------------------------------------------------------------------
\* The array holds the best target_winners of the wallets recorded so far,
\* best first, in whatever order they were recorded and however ranks tie.
CandidatesAreBestSeen ==
    candidates = InRankOrder(seed, TopK(seed, recorded, target_winners))
=============================================================================
