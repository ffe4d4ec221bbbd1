------------------------------- MODULE MCVault -------------------------------
(* A TLC instance of Vault. *)
EXTENDS Vault, TLC

Holders == Permutations(User)
==============================================================================
