------------------------------- MODULE PayoutMC -------------------------------
(***************************************************************************)
(* Instances of PayoutLedger for TLC: nine payees, so that the bitmap has  *)
(* a second byte and the tree odd levels.                                  *)
(***************************************************************************)
EXTENDS PayoutProperties

NinePayees == 1..9
=============================================================================
