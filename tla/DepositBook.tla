----------------------------- MODULE DepositBook -----------------------------
(***************************************************************************)
(* What the deposit queue of MultiUserVault promises, with no queue in it:  *)
(* each user has at most one request, the vault holds its tokens, and the   *)
(* request ends in one of two ways, with exactly its own amount: returned   *)
(* to the user who made it, or forwarded to the RangeManager.               *)
(***************************************************************************)
EXTENDS Naturals

CONSTANTS User, Amount

VARIABLES
  request,    \* request[u]: tokens of the request of u, 0 when there is none
  wallet,     \* wallet[u]: tokens u holds
  held        \* tokens the vault holds

vars == <<request, wallet, held>>

Init ==
  /\ request = [u \in User |-> 0]
  /\ wallet \in [User -> Nat]
  /\ held = 0

(* u asks for a deposit of a: the tokens move to the vault. *)
Request(u, a) ==
  /\ request[u] = 0
  /\ wallet[u] >= a
  /\ request' = [request EXCEPT ![u] = a]
  /\ wallet' = [wallet EXCEPT ![u] = @ - a]
  /\ held' = held + a

(* The request of u goes back to u. *)
Return(u) ==
  /\ request[u] # 0
  /\ held >= request[u]
  /\ request' = [request EXCEPT ![u] = 0]
  /\ wallet' = [wallet EXCEPT ![u] = @ + request[u]]
  /\ held' = held - request[u]

(* The request of u goes to the RangeManager, to become liquidity. *)
Forward(u) ==
  /\ request[u] # 0
  /\ held >= request[u]
  /\ request' = [request EXCEPT ![u] = 0]
  /\ held' = held - request[u]
  /\ UNCHANGED wallet

(* A transfer to the vault that is no deposit. *)
Gift(u) ==
  /\ wallet[u] >= 1
  /\ wallet' = [wallet EXCEPT ![u] = @ - 1]
  /\ held' = held + 1
  /\ UNCHANGED request

Next == \E u \in User :
  \/ \E a \in Amount : Request(u, a)
  \/ Return(u)
  \/ Forward(u)
  \/ Gift(u)

Spec == Init /\ [][Next]_vars
==============================================================================
