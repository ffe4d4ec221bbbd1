---------------------------- MODULE DepositQueue ----------------------------
(***************************************************************************)
(* The queue of pending deposits of MultiUserVault: a storage array with a  *)
(* moving head, an index from users to their record, and the vault's custody *)
(* of the queued tokens. Records leave from the head (processed, or refunded *)
(* once they are old enough) or from any place (recovered by their owner),   *)
(* where the last record fills the hole.                                     *)
(*                                                                           *)
(* One asset stands for the two tokens, whose code is the same. Oracle and   *)
(* position checks of processDepositPermissionless only decide whether it    *)
(* runs; here it may run whenever inflows are active and the vault is        *)
(* unlocked. What it does after the record has left is not the queue's.      *)
(***************************************************************************)
EXTENDS Naturals, FiniteSetsExt

CONSTANTS
  User,         \* depositors
  Amount,       \* sizes of a request
  Endowment,    \* tokens a user starts with
  RefundDelay,  \* ticks of the clock until a request may be refunded
  MaxLength,    \* bound on the length the array may reach between two resets
  NoUser        \* the zero address

ASSUME QueueAssumption ==
  /\ IsFiniteSet(User)
  /\ Amount \subseteq Nat \ {0}
  /\ Endowment \in Nat
  /\ RefundDelay \in Nat
  /\ MaxLength \in Nat
  /\ NoUser \notin User

VARIABLES
  slots,         \* storage of pendingDeposits, its length apart
  length,        \* pendingDeposits.length
  head,          \* _pendingHead
  indexPlusOne,  \* _pendingIndexPlusOne
  hasPending,    \* hasPendingDeposit: the users for whom it is true
  pendingTotal,  \* _pendingTotal
  balance,       \* tokens the vault holds
  wallet,        \* tokens each user holds
  inflowsActive, \* PauseController.requireInflowsActive passes
  locked         \* _processingRebalance

queue   == <<slots, length, head, indexPlusOne, hasPending, pendingTotal>>
custody == <<balance, wallet>>
gates   == <<inflowsActive, locked>>
vars    == <<slots, length, head, indexPlusOne, hasPending, pendingTotal,
             balance, wallet, inflowsActive, locked>>

Slot  == 0 .. MaxLength - 1
Empty == [user |-> NoUser, amount |-> 0, age |-> 0]

(* A storage slot: a request, or the zeros of a cleared one. *)
Record == [user : User, amount : Amount, age : 0 .. RefundDelay] \cup {Empty}

(* The slots of the requests still pending. *)
Live == {i \in Slot : head <= i /\ i < length}

PendingCount == IF length > head THEN length - head ELSE 0

Init ==
  /\ slots = [i \in Slot |-> Empty]
  /\ length = 0
  /\ head = 0
  /\ indexPlusOne = [u \in User |-> 0]
  /\ hasPending = {}
  /\ pendingTotal = 0
  /\ balance = 0
  /\ wallet = [u \in User |-> Endowment]
  /\ inflowsActive = TRUE
  /\ locked = FALSE

(* Mutant: the running total is not increased. *)
Deposit_Untracked(u, a) ==
  /\ length < MaxLength
  /\ inflowsActive
  /\ u \notin hasPending
  /\ wallet[u] >= a
  /\ wallet' = [wallet EXCEPT ![u] = @ - a]
  /\ balance' = balance + a
  /\ slots' = [slots EXCEPT ![length] = [user |-> u, amount |-> a, age |-> 0]]
  /\ length' = length + 1
  /\ hasPending' = hasPending \cup {u}
  /\ indexPlusOne' = [indexPlusOne EXCEPT ![u] = length + 1]
  /\ UNCHANGED <<head, pendingTotal, gates>>

(* deposit *)
Deposit(u, a) ==
  /\ length < MaxLength
  /\ inflowsActive
  /\ u \notin hasPending
  /\ wallet[u] >= a
  /\ wallet' = [wallet EXCEPT ![u] = @ - a]
  /\ balance' = balance + a
  /\ slots' = [slots EXCEPT ![length] = [user |-> u, amount |-> a, age |-> 0]]
  /\ length' = length + 1
  /\ hasPending' = hasPending \cup {u}
  /\ indexPlusOne' = [indexPlusOne EXCEPT ![u] = length + 1]
  /\ pendingTotal' = pendingTotal + a
  /\ UNCHANGED <<head, gates>>

(***************************************************************************)
(* _removePending(i): the head's slot is cleared and the head moves on; any  *)
(* other slot takes the last record, whose owner's index follows it, and the *)
(* last slot is popped. An empty queue starts over at slot 0. The arithmetic *)
(* is checked: an underflow of the total reverts.                            *)
(***************************************************************************)
SlotsWithout(i) ==
  LET last == length - 1 IN
  IF i = head \/ i = last THEN [slots EXCEPT ![i] = Empty]
  ELSE [slots EXCEPT ![i] = slots[last], ![last] = Empty]

(* Mutant: the moved record keeps its old index. *)
IndexWithout_Stale(i) == [indexPlusOne EXCEPT ![slots[i].user] = 0]

IndexWithout(i) ==
  LET last  == length - 1
      freed == [indexPlusOne EXCEPT ![slots[i].user] = 0]
  IN IF i = head \/ i = last THEN freed
     ELSE [freed EXCEPT ![slots[last].user] = i + 1]

(* Mutant: the head starts over whenever a slot is popped. *)
RemovePending_EagerReset(i) ==
  LET head1   == IF i = head THEN head + 1 ELSE 0
      length1 == IF i = head THEN length ELSE length - 1
      drained == head1 >= length1
  IN /\ pendingTotal >= slots[i].amount
     /\ hasPending' = hasPending \ {slots[i].user}
     /\ indexPlusOne' = IndexWithout(i)
     /\ pendingTotal' = pendingTotal - slots[i].amount
     /\ slots' = SlotsWithout(i)
     /\ head' = IF drained THEN 0 ELSE head1
     /\ length' = IF drained THEN 0 ELSE length1

RemovePending(i) ==
  LET head1   == IF i = head THEN head + 1 ELSE head
      length1 == IF i = head THEN length ELSE length - 1
      drained == head1 >= length1
  IN /\ pendingTotal >= slots[i].amount
     /\ hasPending' = hasPending \ {slots[i].user}
     /\ indexPlusOne' = IndexWithout(i)
     /\ pendingTotal' = pendingTotal - slots[i].amount
     /\ slots' = SlotsWithout(i)
     /\ head' = IF drained THEN 0 ELSE head1
     /\ length' = IF drained THEN 0 ELSE length1

(* Mutant: the record is read from the array after the removal. *)
PayBack_ReadAfter(i) ==
  /\ RemovePending(i)
  /\ balance >= slots'[i].amount
  /\ slots'[i].user \in User
  /\ balance' = balance - slots'[i].amount
  /\ wallet' = [wallet EXCEPT ![slots'[i].user] = @ + slots'[i].amount]
  /\ UNCHANGED gates

(* The record at i goes back to its user: removal, then the transfers. *)
PayBack(i) ==
  /\ RemovePending(i)
  /\ balance >= slots[i].amount
  /\ balance' = balance - slots[i].amount
  /\ wallet' = [wallet EXCEPT ![slots[i].user] = @ + slots[i].amount]
  /\ UNCHANGED gates

(* Mutant: a refund waits for inflows as a deposit does. *)
RefundStaleHeadDeposit_Paused ==
  /\ PendingCount > 0
  /\ inflowsActive
  /\ slots[head].age >= RefundDelay
  /\ PayBack(head)

(* refundStaleHeadDeposit, by anybody *)
RefundStaleHeadDeposit ==
  /\ PendingCount > 0
  /\ slots[head].age >= RefundDelay
  /\ PayBack(head)

(* refundStaleDeposit, by anybody, naming the depositor *)
RefundStaleDeposit(u) ==
  /\ indexPlusOne[u] # 0
  /\ indexPlusOne[u] = head + 1
  /\ slots[indexPlusOne[u] - 1].age >= RefundDelay
  /\ PayBack(indexPlusOne[u] - 1)

(* processDepositPermissionless: the part in _processOneDeposit *)
ProcessOneDeposit ==
  /\ ~locked
  /\ PendingCount > 0
  /\ inflowsActive
  /\ balance >= slots[head].amount
  /\ balance' = balance - slots[head].amount
  /\ RemovePending(head)
  /\ UNCHANGED <<wallet, gates>>

(* EmergencyRecoverUser, by a user who has no shares: steps 4 to 6 *)
EmergencyRecoverUser(u) ==
  LET i == indexPlusOne[u] - 1 IN
  /\ u \in hasPending
  /\ indexPlusOne[u] > head /\ indexPlusOne[u] <= length
  /\ slots[i].user = u
  /\ balance >= pendingTotal
  /\ PayBack(i)

(* A transfer of pool tokens to the vault that is no deposit. *)
Donate(u) ==
  /\ wallet[u] >= 1
  /\ wallet' = [wallet EXCEPT ![u] = @ - 1]
  /\ balance' = balance + 1
  /\ UNCHANGED <<queue, gates>>

(* The block timestamp advances: every request ages. *)
Tick ==
  /\ \E i \in Live : slots[i].age < RefundDelay
  /\ slots' = [i \in Slot |->
       IF i \in Live /\ slots[i].age < RefundDelay
       THEN [slots[i] EXCEPT !.age = @ + 1] ELSE slots[i]]
  /\ UNCHANGED <<length, head, indexPlusOne, hasPending, pendingTotal, custody, gates>>

(* Pauses of inflows, which may last as long as their owner renews them. *)
ToggleInflows ==
  /\ inflowsActive' = ~inflowsActive
  /\ UNCHANGED <<queue, custody, locked>>

(* startRebalance and endRebalance *)
ToggleLock ==
  /\ locked' = ~locked
  /\ UNCHANGED <<queue, custody, inflowsActive>>

Next ==
  \/ \E u \in User, a \in Amount : Deposit(u, a)
  \/ RefundStaleHeadDeposit
  \/ \E u \in User : RefundStaleDeposit(u)
  \/ ProcessOneDeposit
  \/ \E u \in User : EmergencyRecoverUser(u)
  \/ \E u \in User : Donate(u)
  \/ Tick
  \/ ToggleInflows
  \/ ToggleLock

Spec == Init /\ [][Next]_vars

(* Time goes on, and the keepers process or refund a head that stays due     *)
(* while the vault is unlocked. They leave it alone while it is locked        *)
(* (readRecoverySnapshot, readBlockedMatureHead), although the contract lets  *)
(* anybody refund then, and a cycle that needs the Safe may last for ever.    *)
KeepersServe == ~locked /\ (RefundStaleHeadDeposit \/ ProcessOneDeposit)
QueueFairness == WF_vars(Tick) /\ WF_vars(KeepersServe)
FairSpec == Spec /\ QueueFairness

-----------------------------------------------------------------------------
(* The variables have their types. *)
TypeOK ==
  /\ slots \in [Slot -> Record]
  /\ length \in 0 .. MaxLength
  /\ head \in 0 .. MaxLength
  /\ indexPlusOne \in [User -> 0 .. MaxLength]
  /\ hasPending \subseteq User
  /\ pendingTotal \in Nat
  /\ balance \in Nat
  /\ wallet \in [User -> Nat]
  /\ inflowsActive \in BOOLEAN
  /\ locked \in BOOLEAN

(* An empty queue always starts at slot 0. *)
HeadInside == head < length \/ (head = 0 /\ length = 0)

(* Every user with a request finds it through the index, in a live slot. *)
IndexFindsRecord == \A u \in User :
  IF u \in hasPending
  THEN indexPlusOne[u] - 1 \in Live /\ slots[indexPlusOne[u] - 1].user = u
  ELSE indexPlusOne[u] = 0

(* Every live slot is some user's request, and is the one the index names. *)
RecordIsIndexed == \A i \in Live :
  /\ slots[i].user \in hasPending
  /\ indexPlusOne[slots[i].user] = i + 1

(***************************************************************************)
(* The assumption written at the assembly of _removePending: every former   *)
(* slot was cleared, by the head branch or by pop, when the length is reset  *)
(* without clearing anything.                                                *)
(***************************************************************************)
FormerSlotsCleared == \A i \in Slot \ Live : slots[i] = Empty

(* The index, the flags and the array agree, through moved heads, swaps and  *)
(* resets.                                                                   *)
QueueSound == HeadInside /\ IndexFindsRecord /\ RecordIsIndexed /\ FormerSlotsCleared

(***************************************************************************)
(* The running total is the sum of the queued amounts, and the vault holds   *)
(* at least that much: the subtractions of _removePending never revert, nor   *)
(* does PendingReserveDeficit a recovery.                                    *)
(***************************************************************************)
ReserveCovered ==
  /\ pendingTotal = SumFunctionOnSet([i \in Slot |-> slots[i].amount], Live)
  /\ balance >= pendingTotal

(***************************************************************************)
(* The place of a waiting request never gets worse: whatever others deposit, *)
(* refund, process or recover, the number of requests ahead of it does not   *)
(* grow. The swap of _removePending may let the last request overtake, but    *)
(* only by filling a hole in front.                                          *)
(***************************************************************************)
Ahead(u) == indexPlusOne[u] - 1 - head
PlaceNeverWorsens == [][\A u \in hasPending : u \in hasPending' => Ahead(u)' <= Ahead(u)]_vars

(***************************************************************************)
(* FIFO, as the keeper guide says: a record processed or refunded at the     *)
(* head is never younger than one left waiting.                              *)
(***************************************************************************)
OldestFirst == [][
  (ProcessOneDeposit \/ RefundStaleHeadDeposit) =>
     \A i \in Live : slots[i].age <= slots[head].age]_vars

(* Every request leaves the queue, even if inflows stay paused for ever; only *)
(* a vault that is locked again and again, or for good, keeps one waiting.   *)
EveryRequestLeaves == \A u \in User : []<>(u \notin hasPending \/ locked)

(* What the index and the array say of each user's request. *)
request == [u \in User |->
  IF u \in hasPending THEN slots[indexPlusOne[u] - 1].amount ELSE 0]

Book == INSTANCE DepositBook WITH held <- balance

(* The array, the head, the index and the swaps implement one request per     *)
(* user, returned or forwarded with exactly its own amount.                  *)
ImplementsBook == Book!Spec
==============================================================================
