---------------------------- MODULE SignerJournal ----------------------------
(***************************************************************************)
(* The signed-transaction journal that all keepers of one chain and signer  *)
(* share: RPCPool.executeSignedTxWithRetry of the pool keepers (utils/rpc.js) *)
(* and RpcPool.sendSigned of the bridge keeper (keeper.js).  Under the       *)
(* signer lock a call first settles the journalled transaction, then agrees *)
(* on a nonce, signs, persists, broadcasts and waits for a receipt; an       *)
(* urgent repair of the health factor takes over the nonce instead.  Answers *)
(* may be missing, stale or, from at most one RPC, wrong.                    *)
(*                                                                         *)
(* The intent of a transaction is the prepared action (to, data, value),    *)
(* which only a fee replacement shares.  Once given to the network it may be *)
(* mined at any later time.  Abstracted: the reads of one poll are one step  *)
(* (the endpoints follow the chain at times of their own anyway), success or *)
(* revert of receipts, the migration of older journal files.                *)
(***************************************************************************)
EXTENDS Naturals, Sequences, FiniteSets

CONSTANTS
    Proc,        \* keeper processes sharing the state directory
    Pool,        \* those of them that are pool keepers; the others bridge
    Rpc,         \* configured RPC endpoints
    Faulty,      \* endpoints whose answers may be wrong
    NoProc, NoTx, NoAnswer,
    MaxIntents,  \* bound: actions signed
    FeeCap,      \* KEEPER_MAX_GAS_PRICE_GWEI, in steps of a fee bump
    MaxFee,      \* bound: the highest fee of a repair, which no cap limits
    MaxCrashes   \* bound: process deaths

(* `repair`: the exact repairHealthFactor() call; `exempt`: the journal's    *)
(* feeCapExempt marker.                                                      *)
Tx == [nonce : Nat, intent : Nat, fee : Nat, repair : BOOLEAN, exempt : BOOLEAN]

ASSUME JournalAssumption ==
    /\ Pool \subseteq Proc /\ NoProc \notin Proc
    /\ Faulty \subseteq Rpc
    /\ \A r, s \in Faulty : r = s
    /\ MaxIntents \in Nat /\ MaxCrashes \in Nat
    /\ FeeCap \in Nat \ {0} /\ MaxFee \in Nat /\ FeeCap <= MaxFee
    /\ NoAnswer \notin Nat
    /\ NoTx \notin Tx

VARIABLES
    journal,     \* pendingTxFile: the persisted transaction, or NoTx
    holder,      \* owner of the signer lock, or NoProc
    pc,          \* where its call is
    mode,        \* what the call does: see Modes
    mem,         \* transaction it works on
    released,    \* transactions given to the network
    mined,       \* the signer's transactions on chain, by nonce
    view,        \* how many of them each endpoint knows
    nextIntent,  \* actions signed so far
    crashes

call == <<holder, pc, mode, mem>>
network == <<released, mined, view>>
vars == <<journal, call, network, nextIntent, crashes>>

(* "urgent" and "recover" until the journal is settled, then "send", or      *)
(* "replace" for a fee bump.                                                 *)
Modes == {"recover", "urgent", "send", "replace"}
ReceiptPolls == {"receipt", "precheck", "wait"}
LatestPolls == {"latest", "recheck"}
Labels == ReceiptPolls \cup LatestPolls \cup
          {"idle", "nonce", "preempt", "persist", "broadcast", "replace", "clear", "unlock"}

Honest == Rpc \ Faulty

(* Mutant: one answer is enough. *)
IsQuorum_One(R) == R # {}

(* _receiptQuorumSize is two of the three configured endpoints *)
IsQuorum(R) == \E r, s \in R : r # s

Mined(t) == t.nonce < Len(mined) /\ mined[t.nonce + 1] = t

(* The endpoints' answers to a poll.  A receipt (1) or its absence:          *)
ReceiptAnswers ==
    {a \in [Rpc -> {1, NoAnswer}] :
        \A r \in Honest : a[r] = 1 => Mined(mem) /\ view[r] > mem.nonce}
HasReceipt(a) == IsQuorum({r \in Rpc : a[r] = 1})

(* the signer's nonce on chain,                                              *)
LatestAnswers ==
    {a \in [Rpc -> 0 .. MaxIntents \cup {NoAnswer}] :
        \A r \in Honest : a[r] \in {view[r], NoAnswer}}
Says(a, v) == {r \in Rpc : a[r] = v}

(* _latestSignerNonce: the highest value that a quorum gives *)
AdvancedPool(a, n) == \E v \in (n + 1) .. MaxIntents : IsQuorum(Says(a, v))
(* _allObservedNoncesAdvanced: a quorum gives any later values *)
AdvancedBridge(a, n) == IsQuorum({r \in Rpc : a[r] # NoAnswer /\ a[r] > n})
Advanced(p, a, n) == IF p \in Pool THEN AdvancedPool(a, n) ELSE AdvancedBridge(a, n)

(* or the nonce with its mempool: transactions broadcast for the nonces that *)
(* follow the mined ones count too.                                          *)
PendingCounts(r) ==
    {n \in view[r] .. MaxIntents :
        \A k \in view[r] .. (n - 1) : \E t \in released : t.nonce = k}
PendingAnswers ==
    {a \in [Rpc -> 0 .. MaxIntents \cup {NoAnswer}] :
        \A r \in Honest : a[r] \in PendingCounts(r) \cup {NoAnswer}}
Agreed(a) == {v \in 0 .. MaxIntents : IsQuorum(Says(a, v))}
(* _signingNonce with hfEmergency: without agreement, the only endpoint that *)
(* answers, when its latest and pending nonces are equal.                    *)
SoleSurvivor(a) ==
    {v \in 0 .. MaxIntents :
        \E r \in Rpc : /\ a[r] = v
                       /\ r \in Honest => v = view[r]
                       /\ \A s \in Rpc \ {r} : a[s] = NoAnswer}
(* _pendingSignerNonce, _signingNonce: the nonces a new action may take *)
SigningNonces(a) ==
    {v \in 0 .. MaxIntents : Agreed(a) = {v}} \cup
    IF mode = "urgent" THEN SoleSurvivor(a) ELSE {}

Init ==
    /\ journal = NoTx
    /\ holder = NoProc /\ pc = "idle" /\ mode = "recover" /\ mem = NoTx
    /\ released = {} /\ mined = <<>>
    /\ view = [r \in Rpc |-> 0]
    /\ nextIntent = 0
    /\ crashes = 0

At(p, label) == holder = p /\ pc = label
Goto(label) == pc' = label /\ UNCHANGED <<holder, mode, mem>>
Rest == UNCHANGED <<network, crashes>>

-----------------------------------------------------------------------------
(* _withSignerLock, then _readPendingSignedTx.  Only executeSignedTxWithRetry *)
(* knows urgent calls (bypassFeeCap).                                        *)
Acquire(p) ==
    /\ holder = NoProc
    /\ holder' = p
    /\ mem' = journal
    /\ \/ mode' = "recover"
       \/ /\ p \in Pool
          /\ nextIntent < MaxIntents                        \* bounds
          /\ journal # NoTx => journal.fee < MaxFee
          /\ mode' = "urgent"
    /\ pc' = IF journal = NoTx THEN "nonce" ELSE "receipt"
    /\ UNCHANGED <<journal, nextIntent>> /\ Rest

(* What follows a broadcast that brought no receipt: the error goes to the   *)
(* caller, or a recovery looks at the nonces once more.                      *)
AfterBroadcast == IF mode = "recover" THEN "recheck" ELSE "unlock"

(* _readReceiptQuorum, before, in and after _broadcastSignedTransaction.  A  *)
(* replacement that reverted throws past the clearing; the next call settles *)
(* it.                                                                      *)
Receipt(a) ==
    /\ \/ /\ HasReceipt(a)
          /\ Goto("clear") \/ (mode = "replace" /\ Goto("unlock"))
       \/ /\ ~HasReceipt(a)
          /\ Goto([receipt |-> "latest", precheck |-> "broadcast", wait |-> AfterBroadcast][pc])
    /\ UNCHANGED <<journal, nextIntent>> /\ Rest

(* The nonce was not used: broadcast again, replace, or preempt.  A pool     *)
(* keeper replaces only when the last endpoint's error is about the fee or   *)
(* the receipt (_isReplacementCandidate).                                   *)
NotAdvanced(p) ==
    \/ pc = "latest" /\ Goto(IF mode = "urgent" THEN "preempt" ELSE "precheck")
    \/ pc = "recheck" /\ Goto("replace")
    \/ pc = "recheck" /\ p \in Pool /\ Goto("unlock")

Latest(p, a) ==
    /\ \/ Advanced(p, a, mem.nonce) /\ Goto("clear")
       \/ ~Advanced(p, a, mem.nonce) /\ NotAdvanced(p)
    /\ UNCHANGED <<journal, nextIntent>> /\ Rest

(* prepare, populateTransaction, the fee cap and signTransaction, at the     *)
(* nonce that the endpoints agree on *)
Sign(a) ==
    /\ nextIntent < MaxIntents
    /\ \E n \in SigningNonces(a) :
       \E f \in 1 .. (IF mode = "urgent" THEN MaxFee ELSE FeeCap) :
         mem' = [nonce |-> n, intent |-> nextIntent, fee |-> f,
                 repair |-> mode = "urgent", exempt |-> mode = "urgent"]
    /\ nextIntent' = nextIntent + 1
    /\ mode' = "send" /\ pc' = "persist"
    /\ UNCHANGED <<journal, holder>> /\ Rest

(* _replacePendingWithCriticalRepair: the repair, at the journalled nonce    *)
(* and for a higher fee *)
Preempt(p) ==
    /\ At(p, "preempt") /\ nextIntent < MaxIntents
    /\ \E f \in (mem.fee + 1) .. MaxFee :
         mem' = [nonce |-> mem.nonce, intent |-> nextIntent, fee |-> f,
                 repair |-> TRUE, exempt |-> TRUE]
    /\ nextIntent' = nextIntent + 1
    /\ mode' = "send" /\ pc' = "persist"
    /\ UNCHANGED <<journal, holder>> /\ Rest

(* Mutant: the replacement takes the next nonce. *)
ReplacePending_NextNonce(p) ==
    /\ At(p, "replace")
    /\ \E f \in (mem.fee + 1) .. FeeCap :
         mem' = [mem EXCEPT !.fee = f, !.nonce = @ + 1]
    /\ mode' = "replace" /\ pc' = "persist"
    /\ UNCHANGED <<journal, holder, nextIntent>> /\ Rest

(* _replacePendingSignedTx: same nonce and action, a higher fee under the    *)
(* cap.  A pool keeper keeps the exemption of a repair; the bridge keeper    *)
(* applies its cap and drops the marker.                                    *)
ReplacePending(p) ==
    /\ At(p, "replace")
    /\ LET exempt == p \in Pool /\ mem.exempt
       IN  \E f \in (mem.fee + 1) .. (IF exempt THEN MaxFee ELSE FeeCap) :
             mem' = [mem EXCEPT !.fee = f, !.exempt = exempt]
    /\ mode' = "replace" /\ pc' = "persist"
    /\ UNCHANGED <<journal, holder, nextIntent>> /\ Rest

(* Mutant: the journal is written after the broadcast, when it succeeded. *)
Persist_Skipped(p) ==
    /\ At(p, "persist")
    /\ Goto("precheck")
    /\ UNCHANGED <<journal, nextIntent>> /\ Rest

(* _persistSignedTx: durable before anything is sent. *)
Persist(p) ==
    /\ At(p, "persist")
    /\ journal' = mem
    /\ Goto("precheck")
    /\ UNCHANGED <<nextIntent>> /\ Rest

(* broadcastTransaction to every endpoint; a call that failed or timed out   *)
(* may still have delivered the bytes.  The bridge keeper does not wait when *)
(* only replacement errors came back.                                       *)
Broadcast(p) ==
    /\ At(p, "broadcast")
    /\ released' = released \cup {mem}
    /\ Goto("wait") \/ (p \notin Pool /\ Goto(AfterBroadcast))
    /\ UNCHANGED <<journal, mined, view, nextIntent, crashes>>

(* Mutant: a settled transaction stays in the file. *)
ClearPersisted_Keeps(p) ==
    /\ At(p, "clear")
    /\ Goto("unlock")
    /\ UNCHANGED <<journal, nextIntent>> /\ Rest

(* _clearPersistedSignedTx; an urgent call goes on to sign its repair.       *)
ClearPersisted(p) ==
    /\ At(p, "clear")
    /\ journal' = IF journal = mem THEN NoTx ELSE journal
    /\ Goto(IF mode = "urgent" THEN "nonce" ELSE "unlock")
    /\ UNCHANGED <<nextIntent>> /\ Rest

(* No endpoint authenticated, no nonce or fee data agreed, the action is no  *)
(* longer wanted, or its fee exceeds the cap: the call throws and the journal *)
(* stays.                                                                   *)
Throw(p) ==
    /\ holder = p
    /\ pc \in {"receipt", "latest", "precheck", "recheck", "nonce", "preempt", "replace"}
    /\ Goto("unlock")
    /\ UNCHANGED <<journal, nextIntent>> /\ Rest

Free ==
    /\ holder' = NoProc /\ pc' = "idle" /\ mode' = "recover" /\ mem' = NoTx
    /\ UNCHANGED <<journal, network, nextIntent>>

(* The finally block *)
Unlock(p) == At(p, "unlock") /\ Free /\ UNCHANGED crashes

(* The holder dies; the lock of a dead owner is reclaimed (SignerFileLock).  *)
Crash(p) ==
    /\ holder = p /\ crashes < MaxCrashes
    /\ crashes' = crashes + 1
    /\ Free

-----------------------------------------------------------------------------
(* The chain and the endpoints that follow it. *)
Mine(t) ==
    /\ t \in released /\ t.nonce = Len(mined)
    /\ mined' = Append(mined, t)
    /\ UNCHANGED <<journal, call, released, view, nextIntent, crashes>>

Sync(r) ==
    /\ view[r] < Len(mined)
    /\ view' = [view EXCEPT ![r] = @ + 1]
    /\ UNCHANGED <<journal, call, released, mined, nextIntent, crashes>>

Receipts == pc \in ReceiptPolls /\ \E a \in ReceiptAnswers : Receipt(a)
Latests(p) == holder = p /\ pc \in LatestPolls /\ \E a \in LatestAnswers : Latest(p, a)
Signs == pc = "nonce" /\ \E a \in PendingAnswers : Sign(a)

Call(p) ==
    \/ Acquire(p)
    \/ Latests(p)
    \/ Preempt(p) \/ ReplacePending(p) \/ Persist(p) \/ Broadcast(p)
    \/ ClearPersisted(p) \/ Throw(p) \/ Unlock(p)

Next ==
    \/ \E p \in Proc : Call(p) \/ Crash(p)
    \/ Receipts \/ Signs
    \/ \E t \in released : Mine(t)
    \/ \E r \in Honest : Sync(r)

Spec == Init /\ [][Next]_vars

(* A read of an ordinary call to which every honest endpoint gives its answer. *)
HeardReceipt(label) ==
    /\ pc = label /\ mode = "recover"
    /\ \E a \in ReceiptAnswers :
        /\ \A r \in Honest : a[r] = 1 <=> Mined(mem) /\ view[r] > mem.nonce
        /\ Receipt(a)
HeardLatest ==
    \E p \in Proc :
        /\ At(p, "latest") /\ mode = "recover"
        /\ \E a \in LatestAnswers :
            /\ \A r \in Honest : a[r] = view[r]
            /\ Latest(p, a)

(* The keepers poll for ever, each read has a timeout, and a read that is    *)
(* repeated for ever is now and then answered by the honest endpoints.  The  *)
(* chain includes what it was given, and honest endpoints follow it.  Urgent *)
(* calls do not recover: while the repair cannot be prepared they leave the  *)
(* journal as it is, so some keeper has to make ordinary calls as well.      *)
FairSpec ==
    /\ Spec
    /\ WF_vars(Receipts \/ Signs \/ \E p \in Proc : Call(p))
    /\ SF_vars(HeardReceipt("receipt")) /\ SF_vars(HeardReceipt("precheck"))
    /\ SF_vars(HeardLatest)
    /\ SF_vars(\E p \in Proc : Acquire(p) /\ mode' = "recover")
    /\ WF_vars(\E t \in released : Mine(t))
    /\ \A r \in Honest : WF_vars(Sync(r))

-----------------------------------------------------------------------------
TypeOK ==
    /\ journal \in Tx \cup {NoTx}
    /\ holder \in Proc \cup {NoProc}
    /\ pc \in Labels
    /\ mode \in Modes
    /\ mem \in Tx \cup {NoTx}
    /\ released \in SUBSET Tx
    /\ mined \in Seq(Tx)
    /\ view \in [Rpc -> Nat]
    /\ nextIntent \in 0 .. MaxIntents
    /\ crashes \in 0 .. MaxCrashes

(* Whatever may still be mined is in the journal or shares the nonce of the  *)
(* repair that is: no transaction is in the network before it is durable,    *)
(* and none is forgotten while its nonce is free, so a restarted keeper never *)
(* signs a second action beside it.                                         *)
Unresolved == {t \in released : t.nonce >= Len(mined)}
UnresolvedIsJournalled ==
    \A t \in Unresolved :
        /\ journal # NoTx
        /\ journal.nonce = t.nonce
        /\ journal.intent = t.intent \/ journal.repair

(* Between them, the calls and the file keep these.  A free lock is one with *)
(* no call:                                                                 *)
IdleIsFree == holder = NoProc <=> pc = "idle"

(* a call that has read or written the file works on what it says,           *)
Settling == pc \in Labels \ {"idle", "nonce", "persist", "unlock"}
WorksOnJournal ==
    /\ Settling => mem # NoTx /\ mem = journal
    /\ pc = "nonce" => journal = NoTx

(* and forgets it only when its nonce is used;                              *)
ClearsSettled == pc = "clear" => mem.nonce < Len(mined)

(* a signed transaction that is about to be written opens an empty file or   *)
(* takes over its nonce for a higher fee;                                   *)
Succeeds(new, old) ==
    /\ new.nonce = old.nonce
    /\ new.fee > old.fee
    /\ new.repair \/ (new.intent = old.intent /\ new.repair = old.repair)
WritesSuccessor ==
    pc = "persist" => mem # NoTx /\ (journal # NoTx => Succeeds(mem, journal))

(* no endpoint is ahead of the chain.                                       *)
ViewsFollow == \A r \in Rpc : view[r] <= Len(mined)

IInv ==
    /\ TypeOK
    /\ IdleIsFree /\ WorksOnJournal /\ ClearsSettled /\ WritesSuccessor /\ ViewsFollow
    /\ UnresolvedIsJournalled

(* No action is executed twice: not by a retry after a lost answer, not by a *)
(* fee replacement and not by the keeper that starts after a crash.          *)
ExecutedOnce ==
    \A i, j \in 1 .. Len(mined) : mined[i].intent = mined[j].intent => i = j

(* It rests on one nonce per action, whatever was signed, written or sent,   *)
(* and on the nonces of the chain.                                          *)
Signed == released \cup ({journal, mem} \ {NoTx})
NonceOfAction ==
    /\ \A t \in Signed : t.intent < nextIntent
    /\ \A t, u \in Signed : t.intent = u.intent => t.nonce = u.nonce
ChainInOrder == \A i \in 1 .. Len(mined) : mined[i] \in released /\ mined[i].nonce = i - 1

(* A call that accepts a receipt reports, and forgets, a transaction that was *)
(* executed: one endpoint that invents receipts, or a receipt of the          *)
(* transaction that was replaced, is not enough.                             *)
ReceiptIsMined ==
    [][(pc \in ReceiptPolls /\ pc' = "clear") => Mined(mem)]_vars

(* The journal is emptied only once its nonce is used on chain, and changed  *)
(* only at the same nonce for a higher fee, into the same action or a repair: *)
(* no ordinary action ever displaces a repair.                              *)
JournalKept ==
    [][ journal # NoTx /\ journal' # journal =>
          \/ journal' = NoTx /\ journal.nonce < Len(mined)
          \/ /\ journal' # NoTx
             /\ journal'.nonce = journal.nonce
             /\ journal'.fee > journal.fee
             /\ \/ journal'.intent = journal.intent /\ journal'.repair = journal.repair
                \/ journal'.repair ]_vars

(* Every journalled transaction whose turn it is, or was, is settled: also   *)
(* one replaced by another fee, preempted by a repair, or written just       *)
(* before a crash.  (An urgent repair whose only answering endpoint lies     *)
(* about the nonce may be signed for one that is not next.)                  *)
JournalSettles ==
    (journal # NoTx /\ journal.nonce <= Len(mined)) ~> (journal = NoTx)
=============================================================================
