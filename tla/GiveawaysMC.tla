----------------------------- MODULE GiveawaysMC -----------------------------
(***************************************************************************)
(* Instances of Giveaways for TLC.                                         *)
(***************************************************************************)
EXTENDS EscrowRefinement

\* Ranks depend on the whole seed, collide for some wallets and reverse the
\* order of wallets for some seeds.
MCRank(seed, w) == (w + 2 * Cardinality(seed)) % 3
=============================================================================
