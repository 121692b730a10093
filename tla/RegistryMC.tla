------------------------------ MODULE RegistryMC ------------------------------
(***************************************************************************)
(* Instances of Registry for TLC.                                          *)
(***************************************************************************)
EXTENDS RegistryProperties, TLC

\* Creators and wallets are interchangeable.
Interchangeable == Permutations(Creators) \cup Permutations(Wallets)
=============================================================================
