------------------------------ MODULE MCDeposits ------------------------------
(* The queue of deposits in the vault, and the keeper that gives a deposit up, *)
(* which sees of the queue no more than its head.  They share no state: each  *)
(* behaviour is of one of the two, and their states add up.                  *)
EXTENDS DepositQueue, DepositRecovery
CONSTANTS u1, u2
VARIABLE side
depositVars == <<side, vars, recoveryVars>>

Owners == <<u1, u2>>

MCInit ==
    /\ side \in {"vault", "keeper"}
    /\ Init /\ RecoveryInit

MCNext ==
    /\ UNCHANGED side
    /\ \/ side = "vault" /\ Next /\ UNCHANGED recoveryVars
       \/ side = "keeper" /\ RecoveryNext /\ UNCHANGED vars

(* The fairness of the side that runs; the other stands still. *)
Fairness ==
    \/ side = "vault" /\ QueueFairness
    \/ side = "keeper" /\ RecoveryFairness

MCSpec == MCInit /\ [][MCNext]_depositVars /\ Fairness
===============================================================================
