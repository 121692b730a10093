-------------------------------- MODULE Escrow --------------------------------
(***************************************************************************)
(* What the vault of a giveaway promises, without instructions, windows,   *)
(* ledgers or chunks: it is funded once, at most one set of beneficiaries  *)
(* is drawn, each of them is paid one equal share at most once, and it is  *)
(* closed once, by full distribution or by return to the creator.          *)
(***************************************************************************)
EXTENDS Integers, FiniteSets

CONSTANTS People            \* who may be a beneficiary

VARIABLES
    status,                 \* "none", "open", "drawn", "distributed", "returned"
    held,                   \* lamports in escrow
    fee,                    \* lamports due to the authority on distribution
    beneficiaries, share, paid

escrowVars == <<status, held, fee, beneficiaries, share, paid>>

EscrowInit ==
    /\ status = "none" /\ held = 0 /\ fee = 0
    /\ beneficiaries = {} /\ share = 0 /\ paid = {}

Open ==
    /\ status = "none"
    /\ status' = "open"
    /\ held' > 0
    /\ fee' \in 0..held'
    /\ UNCHANGED <<beneficiaries, share, paid>>

\* The shares and the fee are covered by what is held.
Draw ==
    /\ status = "open"
    /\ status' = "drawn"
    /\ beneficiaries' \in (SUBSET People) \ {{}}
    /\ share' \in 1..held
    /\ share' * Cardinality(beneficiaries') + fee <= held
    /\ UNCHANGED <<held, fee, paid>>

Due(people) == share * Cardinality(people)

\* Some, but not all, of the unpaid beneficiaries.
Pay ==
    /\ status = "drawn"
    /\ paid \subseteq paid' /\ paid' # paid
    /\ paid' \subseteq beneficiaries /\ paid' # beneficiaries
    /\ held' = held - Due(paid' \ paid)
    /\ UNCHANGED <<status, fee, beneficiaries, share>>

\* The last unpaid beneficiaries, and then everything else leaves at once.
Distribute ==
    /\ status = "drawn"
    /\ paid # beneficiaries
    /\ Due(beneficiaries \ paid) + fee <= held
    /\ paid' = beneficiaries
    /\ held' = 0
    /\ status' = "distributed"
    /\ UNCHANGED <<fee, beneficiaries, share>>

\* Closing without distribution: what is held goes back to the creator.
Return ==
    /\ status \in {"open", "drawn"}
    /\ status' = "returned"
    /\ held' = 0
    /\ UNCHANGED <<fee, beneficiaries, share, paid>>

EscrowNext == Open \/ Draw \/ Pay \/ Distribute \/ Return

EscrowSpec == EscrowInit /\ [][EscrowNext]_escrowVars
=============================================================================
