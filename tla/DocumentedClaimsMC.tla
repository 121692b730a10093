-------------------------- MODULE DocumentedClaimsMC --------------------------
(***************************************************************************)
(* Instances of DocumentedClaims for TLC.                                  *)
(***************************************************************************)
EXTENDS DocumentedClaims

\* Ranks depend on the whole seed and collide for some wallets.
MCRank(seed, w) == (w + 2 * Cardinality(seed)) % 3
=============================================================================
