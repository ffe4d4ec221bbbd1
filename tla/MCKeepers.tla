------------------------------- MODULE MCKeepers -------------------------------
(* The loops of the pool and of the bridge keeper, which share no state: each *)
(* behaviour is of one of the two, and their states add up.                  *)
EXTENDS KeeperCycle, BridgeCycle
VARIABLE loop
allVars == <<loop, cycleVars, bridgeVars>>

Init ==
    /\ loop \in {"cycle", "bridge"}
    /\ CycleInit /\ BridgeInit

Next ==
    /\ UNCHANGED loop
    /\ \/ loop = "cycle" /\ CycleNext /\ UNCHANGED bridgeVars
       \/ loop = "bridge" /\ BridgeNext /\ UNCHANGED cycleVars

(* The fairness of the loop that runs; the other stands still. *)
Fairness ==
    \/ loop = "cycle" /\ CycleFairness
    \/ loop = "bridge" /\ BridgeFairness

Spec == Init /\ [][Next]_allVars /\ Fairness
================================================================================
