--------------------------- MODULE EscrowRefinement ---------------------------
(***************************************************************************)
(* The accounts of a giveaway implement Escrow.                            *)
(***************************************************************************)
EXTENDS GiveawayProperties

EscrowStatus ==
    IF ~created THEN "none"
    ELSE IF Distributed THEN "distributed"
    ELSE IF settled THEN "returned"
    ELSE IF winners_computed THEN "drawn" ELSE "open"

Beneficiaries ==
    {winners_ledger.winner_wallets[i] : i \in 1..winners_ledger.winners_count}

E == INSTANCE Escrow WITH
        People <- Wallets, status <- EscrowStatus, held <- lamports[Vault],
        fee <- Fee, beneficiaries <- Beneficiaries, share <- Share,
        paid <- PaidWallets

\* Every instruction of the program is a step of the escrow or leaves it
\* alone: chunks, locks, windows and remediation only decide when.
ImplementsEscrow == E!EscrowSpec
=============================================================================
