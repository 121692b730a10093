---------------------------- MODULE ProviderReceipt ----------------------------
(***************************************************************************)
(* How attest_uploaded recognises the provider's receipt: it does not      *)
(* verify a signature itself, it looks in its own transaction for an       *)
(* instruction of the Ed25519 program, which the runtime has executed, and *)
(* reads from its data which key signed which message.                     *)
(*                                                                         *)
(* Such an instruction names, for the signature, the key and the message,  *)
(* the instruction whose data holds them: its own (u16::MAX) or another    *)
(* one of the transaction.  Byte offsets and lengths are abstracted: the   *)
(* fields pubkey and message are what its own data holds.                  *)
(***************************************************************************)
EXTENDS Integers, Sequences

U16_MAX == 65535

\* get_instruction_relative is tried for -10 to -1.
RECEIPT_LOOKBACK == 10

None == <<>>

\* Mutant: it is not checked whose data the key and the message are read from.
ParseOwnData(ix) ==
    IF ix.num_signatures # 1 THEN None ELSE <<ix.pubkey, ix.message>>

ParseEd25519(ix) ==
    IF \/ ix.num_signatures # 1
       \/ {ix.signature_ix, ix.pubkey_ix, ix.message_ix} # {U16_MAX}
    THEN None ELSE <<ix.pubkey, ix.message>>

ExpectedMessage(giveaway, participant, commitment_hash) ==
    <<giveaway, participant, commitment_hash>>

\* verify_provider_receipt; preceding are the instructions before this one.
VerifyProviderReceipt(preceding, authority, message) ==
    \E k \in 1..Len(preceding) :
        /\ Len(preceding) - k < RECEIPT_LOOKBACK
        /\ preceding[k].program = "ed25519"
        /\ ParseEd25519(preceding[k]) = <<authority, message>>

-----------------------------------------------------------------------------
(* The runtime: a transaction runs only if each of its Ed25519             *)
(* instructions finds a valid signature where it points.                   *)

Pointed(tx, ix, at) == IF at = U16_MAX THEN ix ELSE tx[at + 1]

\* Signed is the set of pairs of a key and a message it has signed.
Verifies(tx, ix, signed) ==
    \E pair \in signed :
        /\ pair[1] = Pointed(tx, ix, ix.pubkey_ix).pubkey
        /\ pair[2] = Pointed(tx, ix, ix.message_ix).message

Executes(tx, signed) ==
    \A k \in 1..Len(tx) : tx[k].program = "ed25519" => Verifies(tx, tx[k], signed)

\* What precedes an attestation for message in the transactions considered:
\* up to two instructions, the first of any layout, the second a plain one.
Transactions(keys, messages) ==
    LET Ed25519(num, at_key, at_message, key, message) ==
            [program |-> "ed25519", num_signatures |-> num,
             signature_ix |-> U16_MAX, pubkey_ix |-> at_key,
             message_ix |-> at_message, pubkey |-> key, message |-> message]
        plain == {Ed25519(1, U16_MAX, U16_MAX, k, msg) : k \in keys, msg \in messages}
        layouts == {Ed25519(num, at_key, at_message, k, msg) :
                        num \in {1, 2}, at_key, at_message \in {U16_MAX, 1},
                        k \in keys, msg \in messages}
    IN {<<>>} \cup {<<ix>> : ix \in plain}
              \cup {<<ix, other>> : ix \in layouts, other \in plain}
=============================================================================
