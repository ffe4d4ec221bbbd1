----------------------------- MODULE MCTreasury -----------------------------
(* A TLC instance of Treasury: two pools, one with a manager and a vault,    *)
(* one with a strategy engine.                                               *)
EXTENDS Treasury, TLC
CONSTANTS p1, p2, manager, vault, engine

Sources  == (manager :> p1) @@ (vault :> p1) @@ (engine :> p2)
Roles    == (manager :> "keeper") @@ (vault :> "deposit") @@ (engine :> "checkpoint")
Bounties == [r \in Role |-> IF r = "keeper" THEN 2 ELSE 1]
Caps     == [r \in Role |-> IF r = "keeper" THEN 3 ELSE 1]
=============================================================================
