-------------------------- MODULE DocumentedClaims --------------------------
(***************************************************************************)
(* Sentences of the repository's documentation, stated over the model.     *)
(* Each is violated by the code; PROJECT.json quotes the sentence and the  *)
(* README walks through the counterexample.                                *)
(***************************************************************************)
EXTENDS GiveawayProperties

\* "Winner selection uses deterministic top-K ranking from the final reveal
\* aggregate" (README.md:42-43): the seed is that of the final aggregate.
SeedIsFinalAggregate ==
    winners_computed => finalization_ledger.seed = poc_aggregate_hash

\* "If any attested participant is missing, settlement is blocked"
\* (lib.rs:17): no winner is paid while an attested reveal is missing.
MissingAttestedBlocksPayout ==
    [][winners_ledger'.paid # winners_ledger.paid =>
            attested_uploaded \subseteq reveal_included]_vars

\* "Creator cannot withdraw; funds only go to winners" (lib.rs:50), of a
\* winner set whose locking is the "irreversible action that enables
\* settlement" (lib.rs:233): once locked, the winners are paid.
LockedWinnersAreNotRefunded ==
    [][winners_locked /\ winners_ledger.winners_count > 0 => ~RefundStep]_vars

\* "Zero-winner/no-attester/no-participant paths refund the creator from the
\* vault" (PRODUCTION_RELEASE_CHECKLIST.md:100): a creator who keeps asking
\* gets back the deposit of a giveaway that nobody entered.
EmptyGiveawayIsRefunded ==
    created /\ participants_count = 0 /\ now >= active_deadline_unix ~> settled
=============================================================================
