------------------------- MODULE SignerJournalProofs -------------------------
(***************************************************************************)
(* The journal of signed transactions, for any number of keepers, actions,  *)
(* crashes and endpoints of which at most one answers wrongly: whatever may *)
(* still be mined is on disk, a receipt that a call accepts is true, and the *)
(* file loses nothing.  Everything rests on two facts about quorums of       *)
(* answers (TrueReceipt, TrueAdvance) and on the inductive invariant IInv.   *)
(***************************************************************************)
EXTENDS SignerJournal, TLAPS

-----------------------------------------------------------------------------
(* Two endpoints that agree are not both faulty. *)
LEMMA HonestMember ==
    ASSUME NEW R \in SUBSET Rpc, IsQuorum(R)
    PROVE  \E r \in R : r \in Honest
BY JournalAssumption DEF JournalAssumption, IsQuorum, Honest

(* A receipt that a quorum confirms is of a mined transaction. *)
LEMMA TrueReceipt ==
    ASSUME NEW a \in ReceiptAnswers, HasReceipt(a)
    PROVE  Mined(mem)
<1>1. PICK r \in {s \in Rpc : a[s] = 1} : r \in Honest
  BY HonestMember DEF HasReceipt
<1> QED BY <1>1 DEF ReceiptAnswers

(* A nonce that a quorum calls used is used: nobody is ahead of the chain. *)
LEMMA TrueAdvance ==
    ASSUME TypeOK, ViewsFollow, NEW p, NEW a \in LatestAnswers, NEW n \in Nat,
           Advanced(p, a, n)
    PROVE  n < Len(mined)
<1>0. /\ Honest \subseteq Rpc /\ NoAnswer \notin Nat /\ MaxIntents \in Nat
      /\ Len(mined) \in Nat
  BY JournalAssumption DEF JournalAssumption, Honest, TypeOK
<1>1. ASSUME NEW r \in Honest, a[r] # NoAnswer, a[r] > n
      PROVE  n < Len(mined)
  <2>1. a[r] = view[r] /\ view[r] \in Nat /\ view[r] <= Len(mined)
    BY <1>0, <1>1 DEF LatestAnswers, TypeOK, ViewsFollow
  <2> QED BY <1>0, <1>1, <2>1
<1>2. CASE p \in Pool
  <2>1. PICK v \in (n + 1) .. MaxIntents : IsQuorum(Says(a, v))
    BY <1>2 DEF Advanced, AdvancedPool
  <2>2. PICK r \in Says(a, v) : r \in Honest
    BY <2>1, HonestMember DEF Says
  <2>3. a[r] = v /\ v \in Nat /\ v > n
    BY <1>0, <2>1, <2>2 DEF Says
  <2> QED BY <1>0, <1>1, <2>2, <2>3
<1>3. CASE p \notin Pool
  <2>1. PICK r \in {s \in Rpc : a[s] # NoAnswer /\ a[s] > n} : r \in Honest
    BY <1>3, HonestMember DEF Advanced, AdvancedBridge
  <2> QED BY <1>1, <2>1
<1> QED BY <1>2, <1>3

(* What a call may sign is a transaction, for a nonce within the bounds. *)
LEMMA SignedNonce ==
    ASSUME NEW a, NEW n \in SigningNonces(a)
    PROVE  n \in Nat
BY JournalAssumption DEF JournalAssumption, SigningNonces, Agreed, SoleSurvivor

-----------------------------------------------------------------------------
LEMMA Start == Init => IInv
<1> SUFFICES ASSUME Init PROVE IInv
  OBVIOUS
<1> USE JournalAssumption DEF Init, JournalAssumption
<1>1. TypeOK
  BY DEF TypeOK, Labels, Modes, ReceiptPolls, LatestPolls
<1>2. IdleIsFree /\ WorksOnJournal /\ ClearsSettled /\ WritesSuccessor
  BY DEF IdleIsFree, WorksOnJournal, Settling, ClearsSettled, WritesSuccessor
<1>3. ViewsFollow /\ UnresolvedIsJournalled
  BY DEF ViewsFollow, UnresolvedIsJournalled, Unresolved
<1> QED BY <1>1, <1>2, <1>3 DEF IInv

LEMMA TypeStep == IInv /\ [Next]_vars => TypeOK'
<1> SUFFICES ASSUME IInv, [Next]_vars PROVE TypeOK'
  OBVIOUS
<1> USE JournalAssumption
    DEF JournalAssumption, IInv, TypeOK, At, Goto, Rest, call, network,
        Labels, Modes, ReceiptPolls, LatestPolls, WorksOnJournal, WritesSuccessor, Settling
<1>1. ASSUME NEW p \in Proc, Acquire(p) PROVE TypeOK'
  BY <1>1 DEF Acquire
<1>2. ASSUME Receipts PROVE TypeOK'
  <2>1. PICK a \in ReceiptAnswers : Receipt(a)
    BY <1>2 DEF Receipts
  <2>2. pc' \in Labels
    <3>1. pc \in {"receipt", "precheck", "wait"}
      BY <1>2 DEF Receipts
    <3> QED BY <2>1, <3>1 DEF Receipt, AfterBroadcast
  <2> QED BY <2>1, <2>2 DEF Receipt
<1>3. ASSUME NEW p \in Proc, Latests(p) PROVE TypeOK'
  BY <1>3 DEF Latests, Latest, NotAdvanced
<1>4. ASSUME Signs PROVE TypeOK'
  <2>1. PICK a \in PendingAnswers : Sign(a)
    BY <1>4 DEF Signs
  <2>2. PICK n \in SigningNonces(a),
             f \in 1 .. (IF mode = "urgent" THEN MaxFee ELSE FeeCap) :
          mem' = [nonce |-> n, intent |-> nextIntent, fee |-> f,
                  repair |-> mode = "urgent", exempt |-> mode = "urgent"]
    BY <2>1 DEF Sign
  <2>3. n \in Nat /\ f \in Nat /\ nextIntent \in Nat
    BY <2>2, SignedNonce
  <2>4. mem' \in Tx
    BY <2>2, <2>3 DEF Tx
  <2> QED BY <2>1, <2>4 DEF Sign
<1>5. ASSUME NEW p \in Proc, Preempt(p) PROVE TypeOK'
  BY <1>5 DEF Preempt, Tx
<1>6. ASSUME NEW p \in Proc, ReplacePending(p) PROVE TypeOK'
  <2> DEFINE e == p \in Pool /\ mem.exempt
  <2>1. e \in BOOLEAN
    OBVIOUS
  <2>2. PICK f \in (mem.fee + 1) .. (IF e THEN MaxFee ELSE FeeCap) :
          mem' = [mem EXCEPT !.fee = f, !.exempt = e]
    BY <1>6 DEF ReplacePending
  <2>3. mem \in Tx /\ f \in Nat
    BY <1>6, <2>2 DEF ReplacePending, Tx
  <2> HIDE DEF e
  <2>4. mem' \in Tx
    BY <2>1, <2>2, <2>3 DEF Tx
  <2> QED BY <1>6, <2>4 DEF ReplacePending
<1>7. ASSUME NEW p \in Proc, Persist(p) PROVE TypeOK'
  BY <1>7 DEF Persist
<1>8. ASSUME NEW p \in Proc, Broadcast(p) PROVE TypeOK'
  BY <1>8 DEF Broadcast, AfterBroadcast
<1>9. ASSUME NEW p \in Proc, ClearPersisted(p) PROVE TypeOK'
  BY <1>9 DEF ClearPersisted
<1>10. ASSUME NEW p \in Proc, Throw(p) PROVE TypeOK'
  BY <1>10 DEF Throw
<1>11. ASSUME NEW p \in Proc, Unlock(p) PROVE TypeOK'
  BY <1>11 DEF Unlock, Free
<1>12. ASSUME NEW p \in Proc, Crash(p) PROVE TypeOK'
  BY <1>12 DEF Crash, Free
<1>13. ASSUME NEW t \in released, Mine(t) PROVE TypeOK'
  BY <1>13 DEF Mine
<1>14. ASSUME NEW r \in Honest, Sync(r) PROVE TypeOK'
  BY <1>14 DEF Sync, Honest
<1>15. CASE UNCHANGED vars
  BY <1>15 DEF vars
<1> QED
  BY <1>1, <1>2, <1>3, <1>4, <1>5, <1>6, <1>7, <1>8, <1>9, <1>10, <1>11, <1>12, <1>13,
     <1>14, <1>15 DEF Next, Call

(* What each call knows about the file, and the endpoints about the chain.   *)
LEMMA ControlStep ==
    IInv /\ [Next]_vars
      => (IdleIsFree /\ WorksOnJournal /\ ClearsSettled /\ WritesSuccessor /\ ViewsFollow)'
<1> DEFINE Control == IdleIsFree /\ WorksOnJournal /\ ClearsSettled /\ WritesSuccessor
                      /\ ViewsFollow
<1> SUFFICES ASSUME IInv, [Next]_vars PROVE Control'
  OBVIOUS
<1>0. TypeOK'
  BY TypeStep
<1>01. /\ pc \in Labels /\ journal \in Tx \cup {NoTx} /\ mem \in Tx \cup {NoTx}
       /\ Len(mined) \in Nat /\ view \in [Rpc -> Nat] /\ NoTx \notin Tx /\ NoProc \notin Proc
       /\ nextIntent \in Nat /\ MaxIntents \in Nat
  BY JournalAssumption DEF JournalAssumption, IInv, TypeOK
<1> USE <1>0, <1>01
    DEF IInv, At, Goto, Rest, call, network, Labels, ReceiptPolls, LatestPolls, Settling,
        IdleIsFree, WorksOnJournal, ClearsSettled, WritesSuccessor, ViewsFollow
<1>1. ASSUME NEW p \in Proc, Acquire(p) PROVE Control'
  BY <1>1 DEF Acquire
<1>2. ASSUME Receipts PROVE Control'
  <2>1. PICK a \in ReceiptAnswers : Receipt(a)
    BY <1>2 DEF Receipts
  <2>2. pc' = "clear" => mem.nonce < Len(mined)
    <3>1. pc' = "clear" => HasReceipt(a)
      BY <1>2, <2>1 DEF Receipts, Receipt, AfterBroadcast
    <3> QED BY <3>1, TrueReceipt DEF Mined
  <2>3. /\ pc \in ReceiptPolls
        /\ pc' \in {"clear", "unlock", "latest", "broadcast", "recheck"}
        /\ UNCHANGED <<journal, holder, mem, view, mined>>
    BY <1>2, <2>1 DEF Receipts, Receipt, AfterBroadcast
  <2> QED BY <2>2, <2>3
<1>3. ASSUME NEW p \in Proc, Latests(p) PROVE Control'
  <2>1. PICK a \in LatestAnswers : Latest(p, a)
    BY <1>3 DEF Latests
  <2>2. pc \in LatestPolls /\ mem \in Tx
    BY <1>3 DEF Latests
  <2>3. pc' = "clear" => mem.nonce < Len(mined)
    <3>1. pc' = "clear" => Advanced(p, a, mem.nonce)
      BY <2>1 DEF Latest, NotAdvanced
    <3>2. mem.nonce \in Nat
      BY <2>2 DEF Tx
    <3> QED BY <3>1, <3>2, TrueAdvance
  <2>4. /\ pc' \in {"clear", "preempt", "precheck", "replace", "unlock"}
        /\ UNCHANGED <<journal, holder, mem, view, mined>>
    BY <2>1 DEF Latest, NotAdvanced
  <2> QED BY <2>2, <2>3, <2>4
<1>4. ASSUME Signs PROVE Control'
  <2>1. PICK a \in PendingAnswers : Sign(a)
    BY <1>4 DEF Signs
  <2>2. mem' \in Tx
    <3>1. PICK n \in SigningNonces(a),
               f \in 1 .. (IF mode = "urgent" THEN MaxFee ELSE FeeCap) :
            mem' = [nonce |-> n, intent |-> nextIntent, fee |-> f,
                    repair |-> mode = "urgent", exempt |-> mode = "urgent"]
      BY <2>1 DEF Sign
    <3>2. n \in Nat /\ f \in Nat
      BY <3>1, SignedNonce, JournalAssumption DEF JournalAssumption
    <3> QED BY <3>1, <3>2 DEF Tx
  <2>3. pc = "nonce" /\ pc' = "persist" /\ UNCHANGED <<journal, holder, view, mined>>
    BY <1>4, <2>1 DEF Signs, Sign
  <2> QED BY <2>2, <2>3
<1>5. ASSUME NEW p \in Proc, Preempt(p) PROVE Control'
  <2>1. PICK f \in (mem.fee + 1) .. MaxFee :
          mem' = [nonce |-> mem.nonce, intent |-> nextIntent, fee |-> f,
                  repair |-> TRUE, exempt |-> TRUE]
    BY <1>5 DEF Preempt
  <2>2. mem \in Tx /\ mem = journal
    BY <1>5 DEF Preempt
  <2>3. mem.nonce \in Nat /\ mem.fee \in Nat /\ f \in Nat /\ f > mem.fee
    BY <2>1, <2>2, JournalAssumption DEF Tx, JournalAssumption
  <2>4. mem' \in Tx
    BY <2>1, <2>3 DEF Tx
  <2>5. Succeeds(mem', journal)
    BY <2>1, <2>2, <2>3 DEF Succeeds
  <2>6. pc' = "persist" /\ UNCHANGED <<journal, holder, view, mined>> /\ holder = p
    BY <1>5 DEF Preempt
  <2> QED BY <2>4, <2>5, <2>6
<1>6. ASSUME NEW p \in Proc, ReplacePending(p) PROVE Control'
  <2> DEFINE e == p \in Pool /\ mem.exempt
  <2>1. PICK f \in (mem.fee + 1) .. (IF e THEN MaxFee ELSE FeeCap) :
          mem' = [mem EXCEPT !.fee = f, !.exempt = e]
    BY <1>6 DEF ReplacePending
  <2>2. mem \in Tx /\ mem = journal /\ e \in BOOLEAN
    BY <1>6 DEF ReplacePending
  <2> HIDE DEF e
  <2>3. mem.fee \in Nat /\ f \in Nat /\ f > mem.fee
    BY <2>1, <2>2, JournalAssumption DEF Tx, JournalAssumption
  <2>4. mem' \in Tx
    BY <2>1, <2>2, <2>3 DEF Tx
  <2>5. Succeeds(mem', journal)
    BY <2>1, <2>2, <2>3 DEF Succeeds, Tx
  <2>6. pc' = "persist" /\ UNCHANGED <<journal, holder, view, mined>> /\ holder = p
    BY <1>6 DEF ReplacePending
  <2> QED BY <2>4, <2>5, <2>6
<1>7. ASSUME NEW p \in Proc, Persist(p) PROVE Control'
  BY <1>7 DEF Persist
<1>8. ASSUME NEW p \in Proc, Broadcast(p) PROVE Control'
  BY <1>8 DEF Broadcast, AfterBroadcast
<1>9. ASSUME NEW p \in Proc, ClearPersisted(p) PROVE Control'
  BY <1>9 DEF ClearPersisted
<1>10. ASSUME NEW p \in Proc, Throw(p) PROVE Control'
  BY <1>10 DEF Throw
<1>11. ASSUME NEW p \in Proc, Unlock(p) PROVE Control'
  BY <1>11 DEF Unlock, Free
<1>12. ASSUME NEW p \in Proc, Crash(p) PROVE Control'
  BY <1>12 DEF Crash, Free
<1>13. ASSUME NEW t \in released, Mine(t) PROVE Control'
  <2>1. Len(mined') = Len(mined) + 1
    BY <1>13 DEF Mine, TypeOK
  <2>2. pc = "clear" => mem.nonce \in Nat
    BY DEF Tx
  <2> QED BY <1>13, <2>1, <2>2 DEF Mine
<1>14. ASSUME NEW r \in Honest, Sync(r) PROVE Control'
  BY <1>14 DEF Sync, Honest
<1>15. CASE UNCHANGED vars
  BY <1>15 DEF vars
<1> QED
  BY <1>1, <1>2, <1>3, <1>4, <1>5, <1>6, <1>7, <1>8, <1>9, <1>10, <1>11, <1>12, <1>13,
     <1>14, <1>15 DEF Next, Call

(* What may still be mined stays in the file: the broadcast is of what the   *)
(* file holds, the file is emptied when its nonce is used, and overwritten by *)
(* a successor only.                                                        *)
LEMMA JournalStep == IInv /\ [Next]_vars => UnresolvedIsJournalled'
<1> SUFFICES ASSUME IInv, [Next]_vars PROVE UnresolvedIsJournalled'
  OBVIOUS
<1>0. /\ journal \in Tx \cup {NoTx} /\ mem \in Tx \cup {NoTx} /\ released \subseteq Tx
      /\ Len(mined) \in Nat /\ NoTx \notin Tx /\ mined \in Seq(Tx)
  BY JournalAssumption DEF JournalAssumption, IInv, TypeOK
<1> USE <1>0 DEF IInv, UnresolvedIsJournalled, Unresolved, At, Goto, Rest, call, network
<1>1. ASSUME UNCHANGED <<journal, released, mined>> PROVE UnresolvedIsJournalled'
  BY <1>1
<1>2. ASSUME NEW p \in Proc, Persist(p) PROVE UnresolvedIsJournalled'
  <2>1. journal' = mem /\ mem # NoTx /\ UNCHANGED <<released, mined>>
    BY <1>2 DEF Persist, WritesSuccessor
  <2>2. journal # NoTx => Succeeds(mem, journal)
    BY <1>2 DEF Persist, WritesSuccessor
  <2> QED BY <2>1, <2>2 DEF Succeeds
<1>3. ASSUME NEW p \in Proc, Broadcast(p) PROVE UnresolvedIsJournalled'
  <2>1. journal # NoTx /\ journal = mem
    BY <1>3 DEF Broadcast, WorksOnJournal, Settling, TypeOK
  <2>2. released' = released \cup {mem} /\ UNCHANGED <<journal, mined>>
    BY <1>3 DEF Broadcast
  <2> QED BY <2>1, <2>2
<1>4. ASSUME NEW p \in Proc, ClearPersisted(p) PROVE UnresolvedIsJournalled'
  <2>1. journal # NoTx /\ journal = mem /\ mem.nonce < Len(mined) /\ mem \in Tx
    BY <1>4 DEF ClearPersisted, WorksOnJournal, Settling, ClearsSettled, TypeOK
  <2>2. Unresolved = {}
    <3> SUFFICES ASSUME NEW t \in Unresolved PROVE FALSE
      OBVIOUS
    <3>1. t.nonce = mem.nonce /\ t.nonce >= Len(mined) /\ mem.nonce \in Nat
      BY <2>1 DEF Tx
    <3> QED BY <2>1, <3>1
  <2>3. UNCHANGED <<released, mined>>
    BY <1>4 DEF ClearPersisted
  <2> QED BY <2>2, <2>3
<1>5. ASSUME NEW t \in released, Mine(t) PROVE UnresolvedIsJournalled'
  <2>1. Len(mined') = Len(mined) + 1 /\ UNCHANGED <<journal, released>>
    BY <1>5 DEF Mine
  <2>2. \A u \in released : u.nonce \in Nat
    BY DEF Tx
  <2>3. \A u \in released : u.nonce >= Len(mined') => u.nonce >= Len(mined)
    BY <2>1, <2>2
  <2> QED BY <2>1, <2>3
<1>6. ASSUME NEW p \in Proc,
             Acquire(p) \/ Latests(p) \/ Preempt(p) \/ ReplacePending(p) \/ Throw(p)
               \/ Unlock(p) \/ Crash(p)
      PROVE  UNCHANGED <<journal, released, mined>>
  BY <1>6 DEF Acquire, Latests, Latest, Preempt, ReplacePending, Throw, Unlock, Crash, Free
<1>7. ASSUME Receipts \/ Signs PROVE UNCHANGED <<journal, released, mined>>
  BY <1>7 DEF Receipts, Receipt, Signs, Sign
<1>8. ASSUME NEW r \in Honest, Sync(r) PROVE UNCHANGED <<journal, released, mined>>
  BY <1>8 DEF Sync
<1>9. CASE UNCHANGED vars
  BY <1>1, <1>9 DEF vars
<1> QED BY <1>1, <1>2, <1>3, <1>4, <1>5, <1>6, <1>7, <1>8, <1>9 DEF Next, Call

-----------------------------------------------------------------------------
(* Types, control and the journal rule hold in every reachable state. *)
THEOREM InductiveInvariant == Spec => []IInv
<1>1. IInv /\ [Next]_vars => IInv'
  BY TypeStep, ControlStep, JournalStep DEF IInv
<1> QED BY <1>1, Start, PTL DEF Spec

(* A restarted keeper finds in the file whatever the network may still mine. *)
THEOREM Durable == Spec => []UnresolvedIsJournalled
<1>1. IInv => UnresolvedIsJournalled
  BY DEF IInv
<1> QED BY <1>1, InductiveInvariant, PTL

(* No call forgets a transaction for a receipt that a single endpoint made up. *)
THEOREM ReceiptsAreTrue == Spec => ReceiptIsMined
<1>1. IInv /\ [Next]_vars => [(pc \in ReceiptPolls /\ pc' = "clear") => Mined(mem)]_vars
  <2> SUFFICES ASSUME IInv, Next, pc \in ReceiptPolls, pc' = "clear" PROVE Mined(mem)
    OBVIOUS
  <2>1. Receipts
    BY DEF Next, Call, Acquire, Latests, Preempt, ReplacePending, Persist, Broadcast,
           ClearPersisted, Throw, Unlock, Crash, Free, Mine, Sync, Signs, Sign, At, Goto,
           ReceiptPolls, LatestPolls, call
  <2>2. PICK a \in ReceiptAnswers : Receipt(a)
    BY <2>1 DEF Receipts
  <2>3. HasReceipt(a)
    BY <2>2 DEF Receipt, Goto, AfterBroadcast, ReceiptPolls
  <2> QED BY <2>3, TrueReceipt
<1> QED BY <1>1, InductiveInvariant, PTL DEF Spec, ReceiptIsMined

(* The file is emptied only at a used nonce, and changed only into a          *)
(* successor: no action displaces a repair.                                 *)
THEOREM FileIsKept == Spec => JournalKept
<1> DEFINE Kept ==
      journal # NoTx /\ journal' # journal =>
          \/ journal' = NoTx /\ journal.nonce < Len(mined)
          \/ /\ journal' # NoTx
             /\ journal'.nonce = journal.nonce
             /\ journal'.fee > journal.fee
             /\ \/ journal'.intent = journal.intent /\ journal'.repair = journal.repair
                \/ journal'.repair
<1>1. IInv /\ [Next]_vars => [Kept]_vars
  <2> SUFFICES ASSUME IInv, Next, journal # NoTx, journal' # journal
               PROVE  Kept
    OBVIOUS
  <2>1. ASSUME NEW p \in Proc, Persist(p) PROVE Kept
    BY <2>1 DEF Persist, At, IInv, WritesSuccessor, Succeeds
  <2>2. ASSUME NEW p \in Proc, ClearPersisted(p) PROVE Kept
    BY <2>2 DEF ClearPersisted, At, IInv, TypeOK, WorksOnJournal, Settling, ClearsSettled
  <2>3. ASSUME NEW p \in Proc,
               Acquire(p) \/ Latests(p) \/ Preempt(p) \/ ReplacePending(p) \/ Broadcast(p)
                 \/ Throw(p) \/ Unlock(p) \/ Crash(p)
        PROVE  UNCHANGED journal
    BY <2>3 DEF Acquire, Latests, Latest, Preempt, ReplacePending, Broadcast, Throw, Unlock,
                Crash, Free
  <2>4. ASSUME Receipts \/ Signs PROVE UNCHANGED journal
    BY <2>4 DEF Receipts, Receipt, Signs, Sign
  <2>5. ASSUME NEW t, Mine(t) PROVE UNCHANGED journal
    BY <2>5 DEF Mine
  <2>6. ASSUME NEW r, Sync(r) PROVE UNCHANGED journal
    BY <2>6 DEF Sync
  <2> QED BY <2>1, <2>2, <2>3, <2>4, <2>5, <2>6 DEF Next, Call
<1> QED BY <1>1, InductiveInvariant, PTL DEF Spec, JournalKept

-----------------------------------------------------------------------------
(* One nonce per action: a new action gets a new number, a replacement keeps *)
(* both, and every other step moves transactions between the file, the call  *)
(* and the network.                                                         *)
LEMMA NonceStep == IInv /\ NonceOfAction /\ [Next]_vars => NonceOfAction'
<1> SUFFICES ASSUME IInv, NonceOfAction, [Next]_vars PROVE NonceOfAction'
  OBVIOUS
<1>0. nextIntent \in Nat /\ mem \in Tx \cup {NoTx} /\ NoTx \notin Tx /\ Signed \subseteq Tx
  BY JournalAssumption DEF JournalAssumption, IInv, TypeOK, Signed
<1> USE DEF At, Goto, Rest, call, network
<1>1. ASSUME Signed' \subseteq Signed, nextIntent' = nextIntent PROVE NonceOfAction'
  BY <1>1 DEF NonceOfAction
<1>2. ASSUME nextIntent' = nextIntent + 1, mem'.intent = nextIntent,
             Signed' \subseteq Signed \cup {mem'}
      PROVE  NonceOfAction'
  <2>1. \A t \in Signed : t.intent \in Nat /\ t.intent < nextIntent
    BY <1>0 DEF NonceOfAction, Tx
  <2>2. \A t, u \in Signed : t.intent = u.intent => t.nonce = u.nonce
    BY DEF NonceOfAction
  <2>3. \A t \in Signed' : t.intent < nextIntent'
    BY <1>0, <1>2, <2>1
  <2>4. \A t \in Signed : t.intent # mem'.intent
    BY <1>0, <1>2, <2>1
  <2> QED BY <1>2, <2>2, <2>3, <2>4 DEF NonceOfAction
<1>3. ASSUME Signs PROVE NonceOfAction'
  <2>1. PICK a \in PendingAnswers : Sign(a)
    BY <1>3 DEF Signs
  <2>2. mem'.intent = nextIntent
    BY <2>1 DEF Sign
  <2>3. Signed' \subseteq Signed \cup {mem'} /\ nextIntent' = nextIntent + 1
    BY <2>1 DEF Sign, Signed
  <2> QED BY <1>2, <2>2, <2>3
<1>4. ASSUME NEW p \in Proc, Preempt(p) PROVE NonceOfAction'
  <2>1. mem'.intent = nextIntent
    BY <1>4 DEF Preempt
  <2>2. Signed' \subseteq Signed \cup {mem'} /\ nextIntent' = nextIntent + 1
    BY <1>4 DEF Preempt, Signed
  <2> QED BY <1>2, <2>1, <2>2
<1>5. ASSUME NEW p \in Proc, ReplacePending(p) PROVE NonceOfAction'
  <2>1. mem \in Tx /\ mem \in Signed
    BY <1>0, <1>5 DEF ReplacePending, IInv, WorksOnJournal, Settling, Labels, Signed
  <2>2. mem'.intent = mem.intent /\ mem'.nonce = mem.nonce
    <3> DEFINE e == p \in Pool /\ mem.exempt
    <3>1. PICK f : mem' = [mem EXCEPT !.fee = f, !.exempt = e]
      BY <1>5 DEF ReplacePending
    <3> HIDE DEF e
    <3> QED BY <2>1, <3>1 DEF Tx
  <2>3. Signed' \subseteq Signed \cup {mem'} /\ nextIntent' = nextIntent
    BY <1>5 DEF ReplacePending, Signed
  <2> QED BY <2>1, <2>2, <2>3 DEF NonceOfAction
<1>6. ASSUME NEW p \in Proc,
             Acquire(p) \/ Latests(p) \/ Persist(p) \/ Broadcast(p) \/ ClearPersisted(p)
               \/ Throw(p) \/ Unlock(p) \/ Crash(p)
      PROVE  NonceOfAction'
  <2>1. nextIntent' = nextIntent
    BY <1>6 DEF Acquire, Latests, Latest, NotAdvanced, Persist, Broadcast, ClearPersisted,
                Throw, Unlock, Crash, Free
  <2>2. Signed' \subseteq Signed
    <3>1. CASE Acquire(p) \/ Persist(p)
      BY <3>1 DEF Acquire, Persist, Signed
    <3>2. CASE Broadcast(p)
      <4>1. mem # NoTx
        BY <3>2 DEF Broadcast, IInv, WorksOnJournal, Settling, Labels
      <4> QED BY <3>2, <4>1 DEF Broadcast, Signed
    <3>3. CASE Latests(p) \/ Throw(p)
      BY <3>3 DEF Latests, Latest, NotAdvanced, Throw, Signed
    <3>4. CASE ClearPersisted(p)
      BY <3>4 DEF ClearPersisted, Signed
    <3>5. CASE Unlock(p) \/ Crash(p)
      BY <3>5 DEF Unlock, Crash, Free, Signed
    <3> QED BY <1>6, <3>1, <3>2, <3>3, <3>4, <3>5
  <2> QED BY <1>1, <2>1, <2>2
<1>7. ASSUME Receipts PROVE NonceOfAction'
  <2>1. Signed' = Signed /\ nextIntent' = nextIntent
    BY <1>7 DEF Receipts, Receipt, AfterBroadcast, Signed
  <2> QED BY <1>1, <2>1
<1>8. ASSUME NEW t, Mine(t) PROVE NonceOfAction'
  <2>1. Signed' = Signed /\ nextIntent' = nextIntent
    BY <1>8 DEF Mine, Signed
  <2> QED BY <1>1, <2>1
<1>9. ASSUME NEW r, Sync(r) PROVE NonceOfAction'
  <2>1. Signed' = Signed /\ nextIntent' = nextIntent
    BY <1>9 DEF Sync, Signed
  <2> QED BY <1>1, <2>1
<1>10. CASE UNCHANGED vars
  <2>1. Signed' = Signed /\ nextIntent' = nextIntent
    BY <1>10 DEF vars, Signed
  <2> QED BY <1>1, <2>1
<1> QED BY <1>3, <1>4, <1>5, <1>6, <1>7, <1>8, <1>9, <1>10 DEF Next, Call

(* The chain takes what was sent, each at its own nonce. *)
LEMMA ChainStep == IInv /\ ChainInOrder /\ [Next]_vars => ChainInOrder'
<1> SUFFICES ASSUME IInv, ChainInOrder, [Next]_vars PROVE ChainInOrder'
  OBVIOUS
<1>0. mined \in Seq(Tx) /\ Len(mined) \in Nat /\ released \subseteq Tx
  BY DEF IInv, TypeOK
<1> USE DEF At, Goto, Rest, call, network
<1>1. ASSUME released \subseteq released', mined' = mined PROVE ChainInOrder'
  BY <1>1 DEF ChainInOrder
<1>2. ASSUME NEW t \in released, Mine(t) PROVE ChainInOrder'
  <2>1. /\ t.nonce = Len(mined) /\ mined' = Append(mined, t) /\ released' = released
        /\ Len(mined') = Len(mined) + 1
    BY <1>0, <1>2 DEF Mine
  <2> SUFFICES ASSUME NEW i \in 1 .. Len(mined')
               PROVE  mined'[i] \in released /\ mined'[i].nonce = i - 1
    BY <2>1 DEF ChainInOrder
  <2>2. CASE i \in 1 .. Len(mined)
    <3>1. mined'[i] = mined[i]
      BY <1>0, <2>1, <2>2
    <3> QED BY <2>2, <3>1 DEF ChainInOrder
  <2>3. CASE i = Len(mined) + 1
    <3>1. mined'[i] = t
      BY <1>0, <2>1, <2>3
    <3> QED BY <1>0, <2>1, <2>3, <3>1
  <2> QED BY <1>0, <2>1, <2>2, <2>3
<1>3. ASSUME NEW p \in Proc, Call(p) \/ Crash(p) PROVE ChainInOrder'
  <2>1. released \subseteq released' /\ mined' = mined
    BY <1>3 DEF Call, Acquire, Latests, Latest, NotAdvanced, Preempt, ReplacePending, Persist,
                Broadcast, ClearPersisted, Throw, Unlock, Crash, Free
  <2> QED BY <1>1, <2>1
<1>4. ASSUME Receipts \/ Signs PROVE ChainInOrder'
  BY <1>1, <1>4 DEF Receipts, Receipt, Signs, Sign
<1>5. ASSUME NEW r, Sync(r) PROVE ChainInOrder'
  BY <1>1, <1>5 DEF Sync
<1>6. CASE UNCHANGED vars
  BY <1>1, <1>6 DEF vars
<1> QED BY <1>2, <1>3, <1>4, <1>5, <1>6 DEF Next

(* What the journal is for: retries, replacements and restarts never have an *)
(* action executed twice.                                                   *)
THEOREM NoDoubleExecution == Spec => []ExecutedOnce
<1> DEFINE Once == NonceOfAction /\ ChainInOrder
<1>1. Init => Once
  BY DEF Init, NonceOfAction, ChainInOrder, Signed
<1>2. IInv /\ Once /\ [Next]_vars => Once'
  BY NonceStep, ChainStep
<1>3. IInv /\ Once => ExecutedOnce
  <2> SUFFICES ASSUME IInv, Once, NEW i \in 1 .. Len(mined), NEW j \in 1 .. Len(mined),
                      mined[i].intent = mined[j].intent
               PROVE  i = j
    BY DEF ExecutedOnce
  <2>1. mined[i] \in released /\ mined[j] \in released
    BY DEF ChainInOrder
  <2>2. mined[i].nonce = i - 1 /\ mined[j].nonce = j - 1
    BY DEF ChainInOrder
  <2>3. mined[i].nonce = mined[j].nonce
    BY <2>1 DEF NonceOfAction, Signed
  <2>4. i \in Nat /\ j \in Nat
    BY DEF IInv, TypeOK
  <2> QED BY <2>2, <2>3, <2>4
<1> HIDE DEF Once
<1> QED BY <1>1, <1>2, <1>3, InductiveInvariant, PTL DEF Spec
=============================================================================
