--------------------------- MODULE DepositRecovery ---------------------------
(***************************************************************************)
(* When a pool keeper returns a queued deposit to its depositor instead of   *)
(* processing it (utils/deposit-refund-recovery.js, with its callers in      *)
(* rebalancer.js and keeper.js): the head of the queue is matured, and either *)
(* admission is blocked, or processing it reverted at least three times over  *)
(* ten minutes and still reverts.  The counters survive a restart only       *)
(* through the alert file (utils/action-alerts.js).                         *)
(*                                                                         *)
(* Between two steps of the keeper other callers process, refund and request *)
(* deposits, admission opens and closes, and time passes, in ticks of a      *)
(* minute.  Requests are numbered, and a number stands for the key (depositor, *)
(* time and amounts) by which the keeper tells them apart; DepositQueue has   *)
(* the queue itself.                                                        *)
(***************************************************************************)
EXTENDS Naturals

CONSTANTS
    Requests,    \* bound: requests made
    Owner,       \* their depositors
    Spacing,     \* ticks between two counted reverts: 60 seconds
    Span,        \* ticks from the first of them: MIN_FAILURE_SECONDS
    MinReverts,  \* reverts counted
    MaxFaults    \* bound: RPC errors, lost answers and crashes

ASSUME RecoveryAssumption ==
    /\ Requests \in Nat /\ DOMAIN Owner = 1 .. Requests
    /\ Spacing \in Nat \ {0} /\ Span \in Nat /\ Span >= Spacing
    /\ MinReverts \in Nat \ {0} /\ MaxFaults \in Nat

VARIABLES
    front, next, \* the queue is front .. next - 1
    mature,      \* of it the requests below this are older than the delay
    admission,   \* "open"; "blocked": paused, stale data or no position yet;
                 \* "busy": locked, or maintenance is due
    processable, \* the head can be processed when admission is open
    stage,
    seen,        \* request this call is about, or NoKey
    evidence,    \* state: [key, failures, first, last], the ages of the first
                 \* and the last counted revert
    file,        \* as it was last written
    recorded,    \* the file knows of failed deposits
    refund,      \* request whose refund is signed and not settled, or NoKey
    proof,       \* reverts of the head that really happened: [failures, first, last]
    faults

chain == <<front, next, mature, admission, processable>>
keeper == <<stage, seen, evidence, file, recorded, refund>>
recoveryVars == <<chain, keeper, proof, faults>>

NoKey == 0
NoReverts == [key |-> NoKey, failures |-> 0, first |-> 0, last |-> 0]
Once(k) == [key |-> k, failures |-> 1, first |-> 0, last |-> 0]

RecoveryInit ==
    /\ front = 1 /\ next = 1 /\ mature = 1
    /\ admission = "open" /\ processable = TRUE
    /\ stage = "idle" /\ seen = NoKey
    /\ evidence = NoReverts /\ file = NoReverts /\ recorded = FALSE
    /\ refund = NoKey
    /\ proof = NoReverts /\ faults = 0

Fault == faults < MaxFaults /\ faults' = faults + 1
NoFault == UNCHANGED faults
Smaller(a, b) == IF a <= b THEN a ELSE b

MatureHead == front < mature

(* readRecoverySnapshot: the eligible head *)
Eligible == IF MatureHead /\ admission = "open" THEN front ELSE NoKey

(* readBlockedMatureHead *)
Blocked == IF MatureHead /\ admission = "blocked" THEN front ELSE NoKey

(* processDepositPermissionless would revert. *)
Reverts == ~(front < next /\ admission = "open" /\ processable)

Dequeue ==
    /\ front' = front + 1
    /\ mature' = IF mature > front THEN mature ELSE front + 1
    /\ processable' \in BOOLEAN
    /\ proof' = NoReverts
    /\ UNCHANGED <<next, admission>>

-----------------------------------------------------------------------------
(* The other callers of the contracts *)
Request ==
    /\ next <= Requests
    /\ \A i \in front .. next - 1 : Owner[i] # Owner[next]
    /\ next' = next + 1
    /\ UNCHANGED <<front, mature, admission, processable, keeper, proof, faults>>

Taken ==
    /\ ~Reverts \/ MatureHead
    /\ Dequeue
    /\ UNCHANGED <<keeper, faults>>

Conditions ==
    /\ admission' \in {"open", "blocked", "busy"}
    /\ processable' \in BOOLEAN
    /\ UNCHANGED <<front, next, mature, keeper, proof, faults>>

Older(e) ==
    IF e.failures = 0 THEN e
    ELSE [e EXCEPT !.first = Smaller(@ + 1, Span), !.last = Smaller(@ + 1, Spacing)]

Minute ==
    /\ mature' \in mature .. next
    /\ evidence' = Older(evidence) /\ file' = Older(file) /\ proof' = Older(proof)
    /\ UNCHANGED <<front, next, admission, processable, stage, seen, recorded, refund, faults>>

-----------------------------------------------------------------------------
ToStage(label) == stage' = label
Keep == UNCHANGED <<chain, evidence, file, recorded, refund, proof>>

(* processDeposit, called when the loop has read a queued deposit.  The       *)
(* snapshot before the attempt may fail, which must not prevent a deposit.    *)
ProcessDeposit ==
    /\ stage = "idle" /\ front < next
    /\ \/ seen' = Eligible /\ NoFault
       \/ seen' = NoKey /\ Fault
    /\ ToStage("attempt")
    /\ Keep

(* trackAction: a failure is written at once, a success only if the file      *)
(* knows of a failed deposit, a deferral not at all.                         *)
Return(result, e) ==
    /\ evidence' = e
    /\ file' = IF result = "failure" \/ (result = "success" /\ recorded) THEN e ELSE file
    /\ recorded' = (result = "failure" \/ (result = "deferred" /\ recorded))
    /\ ToStage("idle") /\ seen' = NoKey

(* _attemptDeposit signs transactions of its own, so it needs a settled one. *)
AttemptSucceeds ==
    /\ stage = "attempt" /\ refund = NoKey /\ ~Reverts
    /\ Dequeue
    /\ Return("success", NoReverts)
    /\ UNCHANGED <<refund, faults>>

(* Actions 3, 4 and 5 come first. *)
AttemptDeferred ==
    /\ stage = "attempt" /\ admission = "busy"
    /\ Return("deferred", NoReverts)
    /\ UNCHANGED <<chain, refund, proof, faults>>

(* An endpoint's error, the signer's, or a failure after the simulation       *)
AttemptFails ==
    /\ stage = "attempt"
    /\ Fault \/ (refund # NoKey /\ NoFault)
    /\ Return("failure", NoReverts)
    /\ UNCHANGED <<chain, refund, proof>>

(* The simulation reverted (markDepositSimulationError). *)
AttemptReverts ==
    /\ stage = "attempt" /\ refund = NoKey /\ Reverts
    /\ IF seen = NoKey
       THEN Return("failure", NoReverts)
       ELSE ToStage("after") /\ UNCHANGED <<seen, evidence, file, recorded>>
    /\ UNCHANGED <<chain, refund, proof, faults>>

Another(e) ==
    IF e.last >= Spacing
    THEN [e EXCEPT !.failures = Smaller(@ + 1, MinReverts), !.last = 0] ELSE e

(* Mutant: the count goes on when another request is at the head. *)
Counted_AnyHead(k) ==
    IF evidence.key = NoKey THEN Once(k) ELSE [Another(evidence) EXCEPT !.key = k]

(* Mutant: the ten minutes start again with every revert. *)
Counted_Restarts(k) ==
    IF evidence.key # k THEN Once(k) ELSE [Another(evidence) EXCEPT !.first = 0]

(* One more revert of head k; within a minute of the last it does not count. *)
Counted(k) == IF evidence.key # k THEN Once(k) ELSE Another(evidence)

Persistent(e) == e.failures >= MinReverts /\ e.first >= Span

Proven == proof' = IF proof.failures = 0 THEN Once(front) ELSE Another(proof)

(* The snapshot after the attempt shows the same eligible head. *)
AfterRevert ==
    /\ stage = "after" /\ Eligible = seen
    /\ Proven
    /\ IF Persistent(Counted(seen))
       THEN /\ evidence' = Counted(seen) /\ ToStage("guard")
            /\ UNCHANGED <<seen, file, recorded>>
       ELSE Return("failure", Counted(seen))
    /\ UNCHANGED <<chain, refund, faults>>

(* It fails, or shows another head or maintenance; a lagging endpoint, whose  *)
(* clock is behind, starts the count anew.                                   *)
AfterReset ==
    /\ stage = "after"
    /\ \/ Eligible # seen /\ NoFault /\ Return("failure", NoReverts) /\ UNCHANGED proof
       \/ Fault /\ Return("failure", NoReverts) /\ UNCHANGED proof
       \/ Eligible = seen /\ Fault /\ Return("failure", Once(seen)) /\ Proven
    /\ UNCHANGED <<chain, refund>>

(* guarded, run when the refund is prepared under the signer lock: the head  *)
(* is read, its processing simulated, the head read again.                  *)
Stays == IF stage = "simulate" THEN Reverts ELSE Eligible = seen
GuardPasses ==
    /\ stage \in {"guard", "simulate", "recheck"} /\ Stays
    /\ ToStage([guard |-> "simulate", simulate |-> "recheck", recheck |-> "send"][stage])
    /\ Keep /\ UNCHANGED <<seen, faults>>

(* DEPOSIT_RECOVERY_DEFERRED, or the call fails. *)
GuardStops ==
    /\ stage \in {"guard", "simulate", "recheck"}
    /\ \/ ~Stays /\ NoFault /\ Return("deferred", NoReverts)
       \/ Fault /\ Return("failure", NoReverts)
    /\ UNCHANGED <<chain, refund, proof>>

(* refundBlockedMatureHead: the head is read, and read again by the guard.   *)
BlockedHead ==
    /\ stage = "idle" /\ Blocked # NoKey
    /\ seen' = Blocked /\ ToStage("blocked")
    /\ Keep /\ NoFault

BlockedGuard ==
    /\ stage = "blocked"
    /\ IF Blocked = seen THEN ToStage("sendBlocked") /\ UNCHANGED seen
       ELSE ToStage("idle") /\ seen' = NoKey
    /\ Keep /\ NoFault

(* sendDepositRefund: the static call passes and refundStaleDeposit(user) is  *)
(* signed. *)
SendsFor(k) == MatureHead /\ Owner[front] = Owner[k]
SendRefund ==
    /\ stage \in {"send", "sendBlocked"} /\ refund = NoKey /\ SendsFor(seen)
    /\ refund' = seen
    /\ ToStage([send |-> "sent", sendBlocked |-> "sentBlocked"][stage])
    /\ UNCHANGED <<chain, seen, evidence, file, recorded, proof, faults>>

(* A failure of the blocked path is one of the cycle, not of its deposits.   *)
EndSend(success) ==
    IF stage \in {"send", "sent"}
    THEN Return(IF success THEN "success" ELSE "failure", NoReverts)
    ELSE /\ file' = IF success /\ ~recorded THEN file ELSE evidence
         /\ recorded' = (recorded /\ ~success)
         /\ ToStage("idle") /\ seen' = NoKey /\ UNCHANGED evidence

SendRefused ==
    /\ stage \in {"send", "sendBlocked"}
    /\ \/ (refund # NoKey \/ ~SendsFor(seen)) /\ NoFault
       \/ Fault
    /\ EndSend(FALSE)
    /\ UNCHANGED <<chain, refund, proof>>

(* Its receipt, or no receipt in time. *)
SendReturns ==
    /\ stage \in {"sent", "sentBlocked"}
    /\ \/ refund = NoKey /\ NoFault /\ (EndSend(TRUE) \/ EndSend(FALSE))
       \/ Fault /\ EndSend(FALSE)
    /\ UNCHANGED <<chain, refund, proof>>

(* The transaction is mined, now or much later: the contract returns the head *)
(* if it is matured and of that depositor, and reverts otherwise.            *)
RefundMined ==
    /\ refund # NoKey
    /\ refund' = NoKey
    /\ IF SendsFor(refund) THEN Dequeue ELSE UNCHANGED <<chain, proof>>
    /\ UNCHANGED <<stage, seen, evidence, file, recorded, faults>>

(* Another action's alert writes the same state. *)
OtherActionPersists ==
    /\ stage = "idle" /\ file # evidence
    /\ file' = evidence
    /\ UNCHANGED <<chain, stage, seen, evidence, recorded, refund, proof, faults>>

(* The keeper dies and starts from its file (init). *)
Restart ==
    /\ Fault
    /\ evidence' = file /\ ToStage("idle") /\ seen' = NoKey
    /\ UNCHANGED <<chain, file, recorded, refund, proof>>

Call ==
    \/ ProcessDeposit \/ BlockedHead
    \/ AttemptSucceeds \/ AttemptDeferred \/ AttemptFails \/ AttemptReverts
    \/ AfterRevert \/ AfterReset \/ GuardPasses \/ GuardStops
    \/ BlockedGuard \/ SendRefund \/ SendRefused \/ SendReturns

RecoveryNext ==
    \/ Call \/ OtherActionPersists \/ Restart
    \/ RefundMined \/ Minute \/ Request \/ Taken \/ Conditions

RecoverySpec == RecoveryInit /\ [][RecoveryNext]_recoveryVars

(* The keeper's loop goes on, its transactions are mined, and time passes.   *)
(* Each cycle looks for a blocked head first.                               *)
RecoveryFairness ==
    /\ WF_recoveryVars(Call) /\ SF_recoveryVars(BlockedHead)
    /\ WF_recoveryVars(RefundMined) /\ WF_recoveryVars(Minute)

-----------------------------------------------------------------------------
(* A deposit is given up on its reverts only after they really were its own,  *)
(* with admission open before and after each, enough of them, a minute apart  *)
(* and ten minutes since the first: an endpoint's error, another head, a      *)
(* restart with old counters, a late answer or a pause never adds to them.    *)
RefundJustified ==
    (stage \in {"guard", "simulate", "recheck", "send"} /\ seen = front) =>
        Persistent(proof)

(* What makes it so: the keeper's counters, and those its file would bring     *)
(* back, are of a request no further than the head, and none for the head     *)
(* itself exceeds the reverts it really had.  `last` matters only where one    *)
(* more revert would count for the keeper and not for the head.              *)
Counters == [key : Nat, failures : 0 .. MinReverts, first : Nat, last : Nat]

Supported(e, head, real) ==
    /\ e.key <= head
    /\ e.key # NoKey => e.failures # 0
    /\ e.key = head =>
         /\ e.failures <= real.failures
         /\ e.first <= real.first
         /\ e.failures = real.failures /\ e.failures < MinReverts => e.last <= real.last

RecoveryInv ==
    /\ front \in Nat \ {0} /\ mature \in Nat /\ seen \in Nat
    /\ evidence \in Counters /\ file \in Counters /\ proof \in Counters
    /\ Supported(evidence, front, proof) /\ Supported(file, front, proof)
    /\ stage = "after" => seen # NoKey
    /\ stage \in {"guard", "simulate", "recheck", "send"} =>
         evidence.key = seen /\ Persistent(evidence)

(* A matured head that cannot be processed, or may not be, leaves the queue:  *)
(* neither resets, restarts nor lost answers keep it there.                  *)
HeadLeaves ==
    \A k \in 1 .. Requests :
        /\ []<>~(front = k /\ MatureHead /\ admission = "open" /\ ~processable)
        /\ []<>~(Blocked = k)
=============================================================================
