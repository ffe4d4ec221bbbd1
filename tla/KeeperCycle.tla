----------------------------- MODULE KeeperCycle -----------------------------
(***************************************************************************)
(* The loop of the delta-neutral pool keeper (keeper.js) and the actions it   *)
(* carries out (rebalancer.js): in each cycle the health-factor lane first,   *)
(* then the signer's journal, an unfinished progressive rebalance, the        *)
(* refund of a blocked deposit, and what the strategy engine decides.  Many   *)
(* transactions follow one read, other keepers and the market act between     *)
(* any two steps, and a transaction may be mined after its call gave up.      *)
(*                                                                         *)
(* `required` is the one fact about the chain that the keeper must never      *)
(* miss.  All else that it reads is whatever the others have made of it at    *)
(* that moment: such a read is a choice.  The contracts' side is in           *)
(* ProgressiveRebalance, DepositQueue and Vault, the signing in SignerJournal, *)
(* the refunds in DepositRecovery; alerts and the check-only mode are left    *)
(* out.                                                                     *)
(***************************************************************************)
EXTENDS Naturals

CONSTANTS
    MaxStale,    \* staleRetries of a progressive run
    MaxHf,       \* hfRepairRetries
    MaxShrinks,  \* halvings of a chunk: 256, and it ends at one unit
    Chunks,      \* bound: chunks the budgets of all progressive cycles allow
    MaxCrashes   \* bound

ASSUME CycleAssumption ==
    /\ MaxStale \in Nat /\ MaxHf \in Nat /\ MaxShrinks \in Nat
    /\ Chunks \in Nat /\ MaxCrashes \in Nat

VARIABLES
    required,    \* on chain, the health factor is below the repair trigger
    active,      \* a progressive cycle is under way (status 2)
    left,        \* chunks left
    pend,        \* the journalled transaction: "none", "open", or "mined"
    pc,
    ret,         \* where the lane, a repair or a refresh of the target returns to
    tx,          \* label of the last transaction tried
    known,       \* what the keeper last read of the health factor, or "unknown"
    action,      \* of the decision it holds: "hold" for NO_ACTION and
                 \* CHECKPOINT_ONLY, "hedge", "range" or "repair"
    fresh,       \* no transaction of its own was mined since it read what the
                 \* next one is made of
    retried,     \* executeRebalance has recomputed its plan already
    stale, hf, shrinks,   \* retries of a progressive run
    crashes

world == <<required, active, left, pend>>
retries == <<stale, hf, shrinks>>
holds == <<known, action, fresh, retried, retries>>
cycleVars == <<world, pc, ret, tx, holds, crashes>>

CycleInit ==
    /\ required = FALSE /\ active = FALSE /\ left = Chunks /\ pend = "none"
    /\ pc = "start" /\ ret = "config" /\ tx = "none"
    /\ known = "unknown" /\ action = "hold" /\ fresh = FALSE /\ retried = FALSE
    /\ stale = 0 /\ hf = 0 /\ shrinks = 0
    /\ crashes = 0

Goto(label) == pc' = label
Step(from, to) ==
    /\ pc = from /\ Goto(to)
    /\ UNCHANGED <<world, ret, tx, holds, crashes>>
Send(label) == pc' = "send" /\ tx' = label

(* Reads.  ReadHf is readLiveHfSafetyState, and any read of the decision,    *)
(* whose action is HF_REPAIR when a repair is required.                     *)
ReadHf == known' = IF required THEN "required" ELSE "fine"
Decision == IF required THEN {"repair"} ELSE {"hold", "hedge", "range"}

Forget == known' = "unknown" /\ stale' = 0 /\ hf' = 0 /\ shrinks' = 0
Aborts == [topology |-> "topology", config |-> "start"]
Abort == Goto(IF ret \in DOMAIN Aborts THEN Aborts[ret] ELSE "end")

-----------------------------------------------------------------------------
(* main: chains, the repair topology, then the lane before anything else.    *)
Start ==
    /\ pc = "start"
    /\ Goto("laneRead") /\ ret' = "config"
    /\ UNCHANGED <<world, tx, holds, crashes>>

Config == Step("config", "topology") \/ Step("config", "start")

(* Mutant: the ordinary topology is awaited without the lane. *)
Topology_NoLane ==
    \/ Step("topology", "end")
    \/ Step("topology", "config")

(* syncCurrentBotModule and assertKeeperTopology fail while the ordinary     *)
(* endpoints do; the lane goes on meanwhile.                                *)
Topology ==
    \/ Step("topology", "end") \/ Step("topology", "start")
    \/ /\ pc = "topology"
       /\ Goto("laneRead") /\ ret' = "topology"
       /\ UNCHANGED <<world, tx, holds, crashes>>

(* The next cycle begins. *)
NewCycle ==
    /\ pc = "end"
    /\ Goto("laneRead") /\ ret' = "reconcile" /\ tx' = "none"
    /\ action' = "hold" /\ retried' = FALSE /\ fresh' = FALSE /\ Forget
    /\ UNCHANGED <<world, crashes>>

-----------------------------------------------------------------------------
(* runHfSafetyLane.  A read without an answer throws.                        *)
LaneAnswer ==
    /\ pc = "laneRead"
    /\ ReadHf
    /\ Goto(IF required THEN "repairRead" ELSE ret)
    /\ UNCHANGED <<world, ret, tx, action, fresh, retried, retries, crashes>>

Throws ==
    /\ pc \in {"laneRead", "repairRead", "laneAfter"}
    /\ Abort
    /\ UNCHANGED <<world, ret, tx, holds, crashes>>

(* Called by the lane, and by the loop for the action HF_REPAIR              *)
Repairing == IF ret = "checkpoint" THEN "reread" ELSE "laneAfter"

(* executeHedgeIfReady with hfRepairOnly: no simulation can veto the repair. *)
RepairAnswer ==
    /\ pc = "repairRead"
    /\ ReadHf
    /\ IF required THEN Send("repair") ELSE Goto(Repairing) /\ UNCHANGED tx
    /\ UNCHANGED <<world, ret, action, fresh, retried, retries, crashes>>

(* The state after a hedge transaction, or after its failure.                *)
PostCheck ==
    /\ pc = "post"
    /\ ReadHf \/ UNCHANGED known
    /\ Goto(IF tx = "repair" THEN Repairing ELSE "reread")
    /\ UNCHANGED <<world, ret, tx, action, fresh, retried, retries, crashes>>

(* Mutant: the lane tells its caller whether it repaired, and goes on. *)
LaneAfter_GoesOn ==
    /\ pc = "laneAfter"
    /\ ReadHf
    /\ Goto(ret)
    /\ UNCHANGED <<world, ret, tx, action, fresh, retried, retries, crashes>>

(* Ordinary actions are deferred while a repair is still required.           *)
LaneAfter ==
    /\ pc = "laneAfter"
    /\ ReadHf
    /\ IF required THEN Abort ELSE Goto(ret)
    /\ UNCHANGED <<world, ret, tx, action, fresh, retried, retries, crashes>>

-----------------------------------------------------------------------------
(* reconcileSignerState: an unsettled transaction ends the cycle.            *)
Reconcile ==
    /\ pc = "reconcile"
    /\ \/ pend # "open" /\ pend' = "none" /\ Goto("status")
       \/ UNCHANGED pend /\ Goto("end")
    /\ UNCHANGED <<required, active, left, ret, tx, holds, crashes>>

(* progressiveRebalanceStatus, or else isRebalancing *)
Status ==
    \/ /\ pc = "status"
       /\ Goto("targetRead") /\ ret' = "runStatus"
       /\ UNCHANGED <<world, tx, holds, crashes>>
    \/ ~active /\ Step("status", "refund")
    \/ Step("status", "end")

(* A transaction in a phase of the loop, or the next phase. *)
MaySend(from, label) ==
    /\ pc = from /\ Send(label)
    /\ UNCHANGED <<world, ret, holds, crashes>>
Simulated(from, label) ==
    /\ pc = from /\ Send(label) /\ fresh' = TRUE
    /\ UNCHANGED <<world, ret, known, action, retried, retries, crashes>>

RefundBlocked == MaySend("refund", "refund") \/ Step("refund", "strategy") \/ Step("refund", "end")

(* readStrategyState, and the pause, which fails closed *)
ReadDecision == action' \in Decision /\ ReadHf /\ fresh' = TRUE
ReadStrategy ==
    \/ /\ pc = "strategy" /\ ReadDecision
       /\ Goto("repair") /\ ret' = "checkpoint"
       /\ UNCHANGED <<world, tx, retried, retries, crashes>>
    \/ Step("strategy", "end")

HfRepair ==
    \/ action = "repair" /\ Step("repair", "repairRead")
    \/ action # "repair" /\ Step("repair", "checkpoint")

(* The strategy is read again after each action; ret is the phase that       *)
(* follows. *)
Reread ==
    \/ /\ pc = "reread" /\ ReadDecision
       /\ Goto(ret)
       /\ UNCHANGED <<world, ret, tx, retried, retries, crashes>>
    \/ Step("reread", "end")

Checkpoint ==
    \/ /\ pc = "checkpoint" /\ Send("checkpoint") /\ ret' = "hedge"
       /\ UNCHANGED <<world, holds, crashes>>
    \/ Step("checkpoint", "hedge")

(* executeHedgeIfReady: adjustHedge is simulated first.                      *)
AdjustHedge ==
    \/ action # "hedge" /\ Step("hedge", "deposit")
    \/ /\ pc = "hedge" /\ action = "hedge" /\ ret' = "deposit"
       /\ \/ Send("adjust") /\ fresh' = TRUE
          \/ Goto("reread") /\ UNCHANGED <<tx, fresh>>
       /\ UNCHANGED <<world, known, action, retried, retries, crashes>>

DepositDue == action \notin {"hedge", "range", "repair"}

(* A deposit is pending, inflows are not paused, the vault is not locked and *)
(* the first position exists; or not.                                       *)
Deposit ==
    \/ DepositDue /\ Step("deposit", "attempt")
    \/ Step("deposit", "rebalance")

(* _attemptDeposit: its own read of the decision; then the fees, the plan,   *)
(* one refresh and a second plan.  A revert goes to DepositRecovery.         *)
AttemptDeposit ==
    \/ /\ pc = "attempt" /\ Decision \ {"hedge", "range", "repair"} # {}
       /\ ReadHf /\ Send("sync")
       /\ UNCHANGED <<world, ret, action, fresh, retried, retries, crashes>>
    \/ Step("attempt", "rebalance")
PlanDeposit ==
    \/ Simulated("depositPlan", "deposit") \/ Simulated("depositReplan", "deposit")
    \/ MaySend("depositPlan", "refreshDeposit")
    \/ Step("depositPlan", "rebalance") \/ Step("depositReplan", "rebalance")
    \/ MaySend("depositPlan", "recovery") \/ MaySend("depositReplan", "recovery")

-----------------------------------------------------------------------------
(* executeRebalance: the decision is read, a plan is made and simulated.     *)
(* A plan that fails is made again after the fees or the prices have been    *)
(* brought up to date; otherwise the action is over.                        *)
Rebalance ==
    \/ action = "range" /\ Step("rebalance", "plan")
    \/ action # "range" /\ Step("rebalance", "compound")

MakesPlan == ReadHf /\ ~required /\ fresh' = TRUE
PlanRebalance ==
    \/ /\ pc = "plan" /\ MakesPlan /\ Goto("latest")
       /\ UNCHANGED <<world, ret, tx, action, retried, retries, crashes>>
    \/ /\ pc = "plan" /\ ~retried /\ retried' = TRUE
       /\ \E label \in {"syncPlan", "refreshPlan"} : Send(label)
       /\ UNCHANGED <<world, ret, known, action, fresh, retries, crashes>>
    \/ /\ pc = "plan" /\ retried /\ tx = "syncPlan" /\ Send("refreshPlan")
       /\ UNCHANGED <<world, ret, holds, crashes>>
    \/ Step("plan", "end")

(* The decision once more; only if its hash changed is the plan made anew.    *)
(* With several chunks the resumable path is taken.                         *)
LatestDecision ==
    \/ /\ pc = "latest" /\ ReadHf /\ ~required /\ fresh' \in {fresh, TRUE}
       /\ \/ Send("rebalance") /\ UNCHANGED ret
          \/ Goto("targetRead") /\ ret' = "runStatus" /\ UNCHANGED tx
       /\ UNCHANGED <<world, action, retried, retries, crashes>>
    \/ Step("latest", "end")

(* compoundPosition: simulated, and only if it invests enough.               *)
Compound ==
    \/ action = "hold" /\ Simulated("compound", "compound")
    \/ Step("compound", "end")

-----------------------------------------------------------------------------
(* _maybeRefreshProgressiveTarget: the price cache, a checkpoint that is     *)
(* due, and a new target that the engine authorises.                        *)
Target ==
    \/ Step("targetRead", ret) \/ Step("targetRead", "targetDue")
    \/ MaySend("targetRead", "refreshTarget")
    \/ Step("targetDue", "retarget") \/ MaySend("targetDue", "runCheckpoint")
    \/ Step("retarget", ret) \/ Simulated("retarget", "retarget")
    \/ Step("targetRead", "end") \/ Step("targetDue", "end") \/ Step("retarget", "end")

(* _runProgressiveRebalance: begins a cycle if there is none and the caller  *)
(* has a decision hash; a resumed run has none.  The lane runs before each   *)
(* step.                                                                    *)
Lane(from, to) ==
    /\ pc = from
    /\ Goto("laneRead") /\ ret' = to
    /\ UNCHANGED <<world, tx, holds, crashes>>
RunStatus ==
    \/ active /\ Step("runStatus", "loop")
    \/ ~active /\ action = "range" /\ Lane("runStatus", "begin")
    \/ Step("runStatus", "end")
Begin == MaySend("begin", "begin")
Begun == Step("begun", IF active THEN "loop" ELSE "end")
Loop ==
    /\ pc = "loop"
    /\ Goto("laneRead") /\ ret' = "target" /\ shrinks' = 0
    /\ UNCHANGED <<world, tx, known, action, fresh, retried, stale, hf, crashes>>
LoopTarget ==
    /\ pc = "target" /\ Goto("targetRead") /\ ret' = "runPlan"
    /\ UNCHANGED <<world, tx, holds, crashes>>

(* _ensureProgressivePriceCache and _readProgressivePlan *)
RunPlan ==
    \/ MaySend("runPlan", "refreshRun")
    \/ Step("runPlan", "runAmounts")
    \/ active /\ left > 0 /\ (Simulated("runAmounts", "chunk") \/ Simulated("runAmounts", "last"))
    \/ active /\ Simulated("runAmounts", "finalize")
    \/ Step("runAmounts", "end")

(* Why a chunk was not executed: the health factor needs a repair first,      *)
RepairFirst ==
    /\ hf < MaxHf
    /\ hf' = hf + 1 /\ ret' = "loop" /\ Goto("laneRead")
    /\ UNCHANGED <<tx, stale, shrinks>>

(* it is too large, and is halved,                                          *)
Halve ==
    /\ shrinks < MaxShrinks
    /\ shrinks' = shrinks + 1 /\ Send("chunk")
    /\ UNCHANGED <<ret, stale, hf>>

(* Mutant: refreshes are not counted. *)
RefreshFirst_Uncounted == Send("refreshChunk") /\ UNCHANGED <<ret, retries>>

(* or the prices or the plan are stale.                                     *)
RefreshFirst ==
    /\ stale < MaxStale
    /\ stale' = stale + 1 /\ Send("refreshChunk")
    /\ UNCHANGED <<ret, hf, shrinks>>

-----------------------------------------------------------------------------
(* executeSignedTxWithRetry.  Where its callers go on:                       *)
OnSuccess ==
    [repair |-> "post", refund |-> "end", checkpoint |-> "reread", adjust |-> "post",
     sync |-> "depositPlan", refreshDeposit |-> "depositReplan", deposit |-> "rebalance",
     recovery |-> "rebalance", syncPlan |-> "plan", refreshPlan |-> "plan",
     rebalance |-> "end", compound |-> "end",
     refreshTarget |-> "targetDue", runCheckpoint |-> "retarget", retarget |-> ret,
     begin |-> "begun", refreshRun |-> "runAmounts", refreshChunk |-> "loop",
     chunk |-> "loop", last |-> "end", finalize |-> "end"]
OnFailure ==
    [repair |-> "post", refund |-> "end", checkpoint |-> "reread", adjust |-> "post",
     sync |-> "rebalance", refreshDeposit |-> "rebalance", deposit |-> "rebalance",
     recovery |-> "rebalance", syncPlan |-> "end", refreshPlan |-> "end",
     rebalance |-> "end", compound |-> "end",
     refreshTarget |-> "end", runCheckpoint |-> "retarget", retarget |-> "end",
     begin |-> "end", refreshRun |-> "end", refreshChunk |-> "end",
     chunk |-> "end", last |-> "end", finalize |-> "end"]

(* Trades of a run, after which the health factor must be read again         *)
RunTrades == {"begin", "chunk", "last", "finalize"}
Parts == {"chunk", "last"}

Fails == Goto(OnFailure[tx]) /\ UNCHANGED <<tx, ret, retries>>

(* Mutant: the call goes on after it settled an earlier transaction. *)
SettlesFirst_GoesOn ==
    /\ pc = "send" /\ pend = "mined" /\ tx # "repair"
    /\ pend' = "none"
    /\ UNCHANGED <<required, active, left, pc, tx, ret, holds, crashes>>

(* An earlier transaction comes first.  If it turns out settled the caller   *)
(* must read the chain again (KEEPER_STATE_REFRESH_REQUIRED).                *)
SettlesFirst ==
    /\ pc = "send" /\ pend # "none" /\ tx # "repair"
    /\ pend' = IF pend = "mined" THEN "none" ELSE "open"
    /\ Fails
    /\ UNCHANGED <<required, active, left, known, action, fresh, retried, crashes>>

(* Preparation: simulation, gas estimate, fee cap, or the endpoints          *)
PrepareFails ==
    /\ pc = "send" /\ (pend = "none" \/ tx = "repair")
    /\ Fails \/ (tx \in Parts /\ (RepairFirst \/ Halve \/ RefreshFirst))
    /\ UNCHANGED <<world, known, action, fresh, retried, crashes>>

(* Signed and journalled.  A repair takes the nonce of an open transaction.  *)
Signs ==
    /\ pc = "send" /\ (pend = "none" \/ tx = "repair")
    /\ pend' = "open"
    /\ Goto("wait")
    /\ UNCHANGED <<required, active, left, tx, ret, holds, crashes>>

(* What is mined changes the chain: *)
Effect ==
    /\ required' \in IF tx = "repair" THEN BOOLEAN ELSE {required}
    /\ active' = CASE tx \in {"begin", "retarget"} -> TRUE
                   [] tx \in {"last", "finalize"} -> FALSE
                   [] OTHER -> active
    /\ left' = IF tx \in Parts /\ left > 0 THEN left - 1 ELSE left

Confirmed ==
    /\ pc = "wait"
    /\ Effect /\ pend' = "none" /\ fresh' = FALSE
    /\ Goto(OnSuccess[tx])
    /\ known' = IF tx \in RunTrades THEN "unknown" ELSE known
    /\ IF tx = "chunk" THEN stale' = 0 /\ hf' = 0 /\ shrinks' = 0 ELSE UNCHANGED retries
    /\ UNCHANGED <<ret, tx, action, retried, crashes>>

(* It reverted, or no receipt came in time: an error that may read like one   *)
(* of the prices, and never like one of the size of a chunk.                 *)
NotConfirmed ==
    /\ pc = "wait"
    /\ pend' \in {"none", "open"}
    /\ Fails \/ (tx \in Parts /\ RefreshFirst)
    /\ UNCHANGED <<required, active, left, known, action, fresh, retried, crashes>>

(* An open transaction is mined behind the keeper's back. *)
MinedLate ==
    /\ pend = "open" /\ pc # "wait"
    /\ pend' = "mined" /\ fresh' = FALSE
    /\ required' \in BOOLEAN /\ active' \in BOOLEAN
    /\ UNCHANGED <<left, pc, ret, tx, known, action, retried, retries, crashes>>

Crash ==
    /\ crashes < MaxCrashes /\ pc # "start"
    /\ crashes' = crashes + 1
    /\ pc' = "start" /\ ret' = "config" /\ tx' = "none"
    /\ action' = "hold" /\ fresh' = FALSE /\ retried' = FALSE /\ Forget
    /\ UNCHANGED world

(* The market, and the other keepers and users *)
Others ==
    /\ \/ required' = ~required /\ UNCHANGED active
       \/ active' = ~active /\ UNCHANGED required
    /\ UNCHANGED <<left, pend, pc, ret, tx, holds, crashes>>

Keeper ==
    \/ Start \/ Config \/ Topology \/ NewCycle
    \/ LaneAnswer \/ Throws \/ RepairAnswer \/ PostCheck \/ LaneAfter
    \/ Reconcile \/ Status \/ RefundBlocked \/ ReadStrategy \/ HfRepair \/ Reread
    \/ Checkpoint \/ AdjustHedge \/ Deposit \/ AttemptDeposit \/ PlanDeposit
    \/ Rebalance \/ PlanRebalance \/ LatestDecision \/ Compound
    \/ Target \/ RunStatus \/ Begin \/ Begun \/ Loop \/ LoopTarget \/ RunPlan
    \/ SettlesFirst \/ PrepareFails \/ Signs \/ Confirmed \/ NotConfirmed

CycleNext == Keeper \/ MinedLate \/ Crash \/ Others
CycleSpec == CycleInit /\ [][CycleNext]_cycleVars

(* The process runs, and its supervisor starts it again.  The reads of the   *)
(* lane are answered now and then, and a repair can now and then be prepared. *)
CycleFairness ==
    /\ WF_cycleVars(Keeper)
    /\ SF_cycleVars(LaneAnswer) /\ SF_cycleVars(RepairAnswer)
    /\ SF_cycleVars(tx = "repair" /\ Signs)

-----------------------------------------------------------------------------
(* No trade is signed by a keeper that knows of a repair still to be made,    *)
(* and each trade of a progressive run has a reading of its own, after the    *)
(* trade before it.  And what is signed was computed or simulated after       *)
(* everything of the keeper's own was mined, though a transaction of an       *)
(* earlier call may be mined in between.  (begin carries only a hash, which   *)
(* the contract compares.)                                                   *)
Trades == RunTrades \cup {"adjust", "deposit", "rebalance", "compound", "retarget"}
SafetyFirst ==
    pc = "wait" =>
        /\ tx \in Trades => known # "required"
        /\ tx \in RunTrades => known = "fine"
        /\ tx \in Trades \ {"begin"} => fresh

-----------------------------------------------------------------------------
(* Why: what the keeper knows at each place of the loop.                     *)
Labels ==
    {"start", "config", "topology", "end", "laneRead", "repairRead", "post", "laneAfter",
     "reconcile", "status", "refund", "strategy", "repair", "reread", "checkpoint", "hedge",
     "deposit", "attempt", "depositPlan", "depositReplan", "rebalance", "plan", "latest",
     "compound", "targetRead", "targetDue", "retarget", "runStatus", "begin", "begun", "loop",
     "target", "runPlan", "runAmounts", "send", "wait"}
WorldOK ==
    /\ required \in BOOLEAN /\ active \in BOOLEAN
    /\ pend \in {"none", "open", "mined"}
Transactions ==
    Trades \cup {"repair", "refund", "checkpoint", "sync", "refreshDeposit", "recovery", "syncPlan",
                "refreshPlan", "refreshTarget", "runCheckpoint", "refreshRun", "refreshChunk"}
PlaceOK == pc \in Labels /\ tx \in Transactions \cup {"none"}
HoldsOK ==
    /\ known \in {"unknown", "fine", "required"}
    /\ action \in {"hold", "hedge", "range", "repair"}
    /\ fresh \in BOOLEAN /\ retried \in BOOLEAN
BoundsOK ==
    /\ left \in 0 .. Chunks
    /\ stale \in 0 .. MaxStale /\ hf \in 0 .. MaxHf /\ shrinks \in 0 .. MaxShrinks
    /\ crashes \in 0 .. MaxCrashes
CycleTypeOK == WorldOK /\ PlaceOK /\ HoldsOK /\ BoundsOK

(* Where the lane, a repair, a read of the strategy and the target return to, *)
LaneCallers == {"config", "topology", "reconcile", "begin", "target", "loop"}
TargetCallers == {"runStatus", "runPlan"}
Phases == {"checkpoint", "hedge", "deposit"}
Trying(labels) == pc \in {"send", "wait"} /\ tx \in labels
ReturnKnown ==
    /\ pc \in {"laneRead", "laneAfter"} => ret \in LaneCallers
    /\ pc = "repairRead" \/ Trying({"repair"}) => ret \in LaneCallers \cup {"checkpoint"}
    /\ pc = "post" => \/ tx = "repair" /\ ret \in LaneCallers \cup {"checkpoint"}
                      \/ tx = "adjust" /\ ret = "deposit"
    /\ pc = "repair" => ret = "checkpoint"
    /\ pc = "reread" => ret \in Phases
    /\ Trying({"checkpoint"}) => ret = "hedge"
    /\ Trying({"adjust"}) => ret = "deposit"
    /\ pc \in {"targetRead", "targetDue", "retarget"}
         \/ Trying({"refreshTarget", "runCheckpoint", "retarget"}) => ret \in TargetCallers
    /\ pc \in {"send", "wait"} => tx # "none"

(* that the health factor was fine when it was last read, or is what the      *)
(* decision is about,                                                       *)
AfterFineRead ==
    {"reconcile", "status", "targetRead", "targetDue", "retarget", "runStatus", "begin", "target",
     "runPlan", "runAmounts", "attempt", "depositPlan", "depositReplan", "plan", "latest"}
TriedWhenFine ==
    {"adjust", "sync", "refreshDeposit", "deposit", "recovery", "syncPlan", "refreshPlan",
     "rebalance", "compound", "refreshTarget", "runCheckpoint", "retarget", "begin", "refreshRun",
     "chunk", "last", "finalize"}
AfterDecision == {"repair", "checkpoint", "hedge", "deposit", "rebalance", "compound"}
KnownFine ==
    /\ pc \in AfterFineRead \/ Trying(TriedWhenFine) => known = "fine"
    /\ pc \in AfterDecision \/ Trying({"checkpoint"}) => action = "repair" \/ known = "fine"

(* and that only a late transaction can have come in between: it stays        *)
(* unsettled until the call that sends finds it.                             *)
Simulations == Trades \ {"begin"}
StillFresh ==
    /\ pc = "latest" \/ (pc = "send" /\ tx \in Simulations) => fresh \/ pend = "mined"
    /\ pc = "wait" /\ tx \in Simulations => fresh

CycleInv == CycleTypeOK /\ ReturnKnown /\ KnownFine /\ StillFresh

(* The loop serves what is due.  While a repair is required the keeper tries *)
(* it again and again, whatever the ordinary endpoints, an earlier transaction *)
(* or a progressive run do; and no run of retries keeps it from a new cycle.  *)
LoopServes ==
    /\ []<>(~required \/ (pc = "wait" /\ tx = "repair"))
    /\ []<>(pc \in {"start", "topology", "end"})
=============================================================================
