--------------------------- MODULE MCDepositQueue ---------------------------
(* TLC instances of DepositQueue. *)
EXTENDS DepositQueue, TLC

Depositors == Permutations(User)
==============================================================================
