------------------------- MODULE FinalizationLedgerMC -------------------------
(***************************************************************************)
(* Every assignment of the ranks 0..Cardinality(Commitments) to wallets is *)
(* the one given by some seed, ties included.                              *)
(***************************************************************************)
EXTENDS FinalizationLedger

SeedGivesRank(s, w) == Cardinality({c \in Commitments : <<w, c>> \in s})
=============================================================================
