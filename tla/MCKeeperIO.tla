------------------------------ MODULE MCKeeperIO ------------------------------
(* What keepers do with the files and the endpoints they share: the lock of a *)
(* signer, and the three ways of reading the chain.  They have no state in     *)
(* common but the authentication that RpcPool models, so each behaviour is of  *)
(* one of the four, and their states add up.                                 *)
EXTENDS SignerFileLock, RpcPool, SnapshotRead, FeeConsensus, TLC
CONSTANTS a1, a2, a3, p1, p2, p3, r1, r2, r3
VARIABLE part
allVars == <<part, vars, poolVars, snapshotVars, feeVars>>

(* Three keeper processes with one attempt each. *)
EachItsOwn == (a1 :> p1) @@ (a2 :> p2) @@ (a3 :> p3)
(* Deadlines: two attempts give up at once, the third retries. *)
OneRetries == (a1 :> 0) @@ (a2 :> 0) @@ (a3 :> 1)

MCInit ==
    /\ part \in {"lock", "retry", "snapshot", "fee"}
    /\ Init /\ PoolInit /\ SnapshotInit /\ FeeInit

MCNext ==
    /\ UNCHANGED part
    /\ \/ part = "lock" /\ Next /\ UNCHANGED <<poolVars, snapshotVars, feeVars>>
       \/ part = "retry" /\ PoolNext /\ UNCHANGED <<vars, snapshotVars, feeVars>>
       \/ part = "snapshot" /\ SnapshotNext /\ UNCHANGED <<vars, poolVars, feeVars>>
       \/ part = "fee" /\ FeeNext /\ UNCHANGED <<vars, poolVars, snapshotVars>>

(* The fairness of the attempts where the lock runs; reads need none. *)
MCSpec ==
    /\ MCInit /\ [][MCNext]_allVars
    /\ \A a \in Attempt : WF_vars(part = "lock" /\ Step(a))
===============================================================================
