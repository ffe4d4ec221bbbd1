-------------------------------- MODULE MCPool --------------------------------
(* The circuit breaker of a pool, its strategy engine, and the hedge of a      *)
(* delta-neutral pool.  The hedge reads of the breaker only whether it is open, *)
(* held or exit-only and of the engine only that the range may change at any   *)
(* time; so each behaviour is of one of the three, and their states add up.    *)
EXTENDS PauseController, HedgeManager, RangeStrategyEngine
VARIABLE part
allVars == <<part, vars, hedgeVars, strategyVars>>

MCInit ==
    /\ part \in {"breaker", "engine", "hedge"}
    /\ Init /\ HedgeInit /\ EngineInit
    /\ part # "engine" => \A t \in Ticks : live <= t
    /\ part # "hedge" => \A x \in Inventories \ {0} : lp0 <= x

MCNext ==
    /\ UNCHANGED part
    /\ \/ part = "breaker" /\ Next /\ UNCHANGED <<hedgeVars, strategyVars>>
       \/ part = "engine" /\ EngineNext /\ UNCHANGED <<vars, hedgeVars>>
       \/ part = "hedge" /\ HedgeNext /\ UNCHANGED <<vars, strategyVars>>

(* The fairness of the engine where it runs; the others need none. *)
MCSpec == MCInit /\ [][MCNext]_allVars /\ (part = "engine" => EngineFairness)
===============================================================================
