----------------------------- MODULE SignerMutex -----------------------------
(***************************************************************************)
(* What the signer lock promises: of all the attempts to sign for one       *)
(* chain and signer, at most one is inside the critical section, and a lock *)
(* whose process died is free again.                                        *)
(***************************************************************************)
CONSTANTS Attempt, Process, ProcOf

VARIABLE phase     \* [Attempt -> {"waiting", "holding", "ended"}]

Init == phase = [a \in Attempt |-> "waiting"]

Acquire(a) ==
    /\ phase[a] = "waiting"
    /\ \A b \in Attempt : phase[b] # "holding"
    /\ phase' = [phase EXCEPT ![a] = "holding"]

(* Released after use, or given up when the waiting time is over. *)
End(a) ==
    /\ phase[a] # "ended"
    /\ phase' = [phase EXCEPT ![a] = "ended"]

Crash(p) == phase' = [a \in Attempt |-> IF ProcOf[a] = p THEN "ended" ELSE phase[a]]

Next ==
    \/ \E a \in Attempt : Acquire(a) \/ End(a)
    \/ \E p \in Process : Crash(p)

Spec == Init /\ [][Next]_phase
=============================================================================
