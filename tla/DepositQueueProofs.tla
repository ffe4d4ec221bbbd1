------------------------- MODULE DepositQueueProofs -------------------------
(***************************************************************************)
(* The deposit queue is sound for any number of users, any amounts, any      *)
(* refund delay and any bound on the array: the index, the flags and the     *)
(* slots agree after every step, a request ends exactly as the book says it   *)
(* may, and the place of a waiting request never gets worse.                 *)
(***************************************************************************)
EXTENDS DepositQueue, SumProofs

(* The inductive invariant: nothing but types and the soundness of the index. *)
IInv == TypeOK /\ QueueSound

LEMMA RecordFields ==
  ASSUME NEW r \in Record
  PROVE  /\ r.user \in User \cup {NoUser}
         /\ r.amount \in Nat
         /\ r.age \in 0 .. RefundDelay
<1>1. CASE r \in [user : User, amount : Amount, age : 0 .. RefundDelay]
  BY <1>1, QueueAssumption DEF QueueAssumption
<1>2. CASE r = Empty
  BY <1>2, QueueAssumption DEF QueueAssumption, Empty
<1>. QED
  BY <1>1, <1>2 DEF Record

(* Removing the record of a live slot keeps the queue sound. *)
LEMMA RemovalSound ==
  ASSUME IInv, NEW i \in Live, RemovePending(i)
  PROVE  /\ slots' \in [Slot -> Record]
         /\ length' \in 0 .. MaxLength
         /\ head' \in 0 .. MaxLength
         /\ indexPlusOne' \in [User -> 0 .. MaxLength]
         /\ hasPending' \subseteq User
         /\ pendingTotal' \in Nat
         /\ QueueSound'
<1> USE QueueAssumption DEF QueueAssumption, IInv, TypeOK
<1> DEFINE u == slots[i].user
           last == length - 1
           w == slots[last].user
<1>1. /\ i \in Slot /\ i \in Nat /\ head <= i /\ i < length
      /\ last \in Nat /\ last \in Live
      /\ u \in hasPending /\ u \in User /\ indexPlusOne[u] = i + 1
      /\ w \in hasPending /\ w \in User /\ indexPlusOne[w] = last + 1
      /\ slots[i].amount \in Nat
  <2>1. /\ i \in Slot /\ i \in Nat /\ head <= i /\ i < length
        /\ last \in Nat /\ last \in Live
    BY DEF Live, Slot
  <2>2. \A j \in Live : /\ slots[j].user \in hasPending
                        /\ indexPlusOne[slots[j].user] = j + 1
    BY DEF QueueSound, RecordIsIndexed
  <2>3. slots[i] \in Record
    BY <2>1
  <2>4. slots[i].amount \in Nat
    BY <2>3, RecordFields
  <2>. QED
    BY <2>1, <2>2, <2>4
<1>2. Empty \in Record
  BY DEF Record
<1>3. slots' \in [Slot -> Record]
  BY <1>1, <1>2 DEF RemovePending, SlotsWithout, Live
<1>4. /\ length' \in 0 .. MaxLength
      /\ head' \in 0 .. MaxLength
      /\ hasPending' \subseteq User
      /\ pendingTotal' \in Nat
  BY <1>1 DEF RemovePending
<1>5. indexPlusOne' \in [User -> 0 .. MaxLength]
  BY <1>1 DEF RemovePending, IndexWithout
<1>6. CASE i = head
  <2>1. /\ slots' = [slots EXCEPT ![i] = Empty]
        /\ indexPlusOne' = [indexPlusOne EXCEPT ![u] = 0]
        /\ hasPending' = hasPending \ {u}
        /\ head' = IF head + 1 >= length THEN 0 ELSE head + 1
        /\ length' = IF head + 1 >= length THEN 0 ELSE length
    BY <1>6 DEF RemovePending, SlotsWithout, IndexWithout
  <2>2. Live' = Live \ {i}
    BY <1>1, <1>6, <2>1 DEF Live, Slot
  <2>. QED
    <3>1. HeadInside'
      BY <1>1, <2>1 DEF HeadInside
    <3>2. IndexFindsRecord'
      BY <1>1, <2>1, <2>2 DEF QueueSound, IndexFindsRecord, RecordIsIndexed
    <3>3. RecordIsIndexed'
      BY <1>1, <2>1, <2>2 DEF QueueSound, RecordIsIndexed, Live
    <3>4. FormerSlotsCleared'
      BY <1>1, <2>1, <2>2 DEF QueueSound, FormerSlotsCleared, Live
    <3>. QED
      BY <1>3, <1>4, <1>5, <3>1, <3>2, <3>3, <3>4 DEF QueueSound
<1>7. CASE i # head
  <2>1. /\ head' = head
        /\ length' = last
        /\ hasPending' = hasPending \ {u}
    BY <1>1, <1>7 DEF RemovePending
  <2>2. Live' = Live \ {last}
    <3>1. ASSUME NEW j \in Slot PROVE j < length - 1 <=> (j < length /\ j # length - 1)
      BY DEF Slot
    <3>. QED
      BY <2>1, <3>1 DEF Live
  <2>3. HeadInside'
    BY <1>1, <1>7, <2>1 DEF HeadInside
  <2>4. CASE i = last
    <3>1. /\ slots' = [slots EXCEPT ![i] = Empty]
          /\ indexPlusOne' = [indexPlusOne EXCEPT ![u] = 0]
      BY <2>4 DEF RemovePending, SlotsWithout, IndexWithout
    <3>3. IndexFindsRecord'
      BY <1>1, <1>7, <2>1, <2>2, <2>4, <3>1 DEF QueueSound, IndexFindsRecord, RecordIsIndexed, Live
    <3>4. RecordIsIndexed'
      BY <1>1, <1>7, <2>1, <2>2, <2>4, <3>1 DEF QueueSound, RecordIsIndexed, Live
    <3>5. FormerSlotsCleared'
      BY <1>1, <1>7, <2>1, <2>2, <2>4, <3>1 DEF QueueSound, FormerSlotsCleared, Live
    <3>. QED
      BY <1>3, <1>4, <1>5, <2>3, <3>3, <3>4, <3>5 DEF QueueSound
  <2>5. CASE i # last
    <3>1. /\ slots' = [slots EXCEPT ![i] = slots[last], ![last] = Empty]
          /\ indexPlusOne' = [[indexPlusOne EXCEPT ![u] = 0] EXCEPT ![w] = i + 1]
      BY <1>7, <2>5 DEF RemovePending, SlotsWithout, IndexWithout
    <3>2. u # w
      BY <1>1, <2>5
    <3>3. IndexFindsRecord'
      BY <1>1, <1>7, <2>1, <2>2, <2>5, <3>1, <3>2 DEF QueueSound, IndexFindsRecord, RecordIsIndexed, Live
    <3>4. RecordIsIndexed'
      BY <1>1, <1>7, <2>1, <2>2, <2>5, <3>1, <3>2 DEF QueueSound, RecordIsIndexed, Live
    <3>5. FormerSlotsCleared'
      BY <1>1, <1>7, <2>1, <2>2, <2>5, <3>1, <3>2 DEF QueueSound, FormerSlotsCleared, Live
    <3>. QED
      BY <1>3, <1>4, <1>5, <2>3, <3>3, <3>4, <3>5 DEF QueueSound
  <2>. QED
    BY <2>4, <2>5, <1>3, <1>4, <1>5
<1>. QED
  BY <1>6, <1>7

LEMMA Start == Init => IInv
<1> SUFFICES ASSUME Init PROVE IInv
  OBVIOUS
<1>1. TypeOK
  <2>1. Empty \in Record
    BY DEF Record
  <2>2. slots \in [Slot -> Record]
    BY <2>1 DEF Init
  <2>3. /\ length \in 0 .. MaxLength
        /\ indexPlusOne \in [User -> 0 .. MaxLength]
        /\ wallet \in [User -> Nat]
    BY QueueAssumption DEF Init, QueueAssumption
  <2>. QED
    BY <2>2, <2>3 DEF Init, TypeOK
<1>2. Live = {}
  BY DEF Init, Live, Slot
<1>3. QueueSound
  BY <1>2 DEF Init, QueueSound, HeadInside, IndexFindsRecord, RecordIsIndexed, FormerSlotsCleared
<1>. QED
  BY <1>1, <1>3 DEF IInv

(* The head of a queue that is not empty is live. *)
LEMMA HeadLive == ASSUME TypeOK, PendingCount > 0 PROVE head \in Live
  BY QueueAssumption DEF QueueAssumption, TypeOK, PendingCount, Live, Slot

(* Paying back the record of a live slot keeps the invariant. *)
LEMMA PayBackSound == ASSUME IInv, NEW i \in Live, PayBack(i) PROVE IInv'
<1>1. RemovePending(i)
  BY DEF PayBack
<1>2. slots[i] \in Record
  BY DEF IInv, TypeOK, Live
<1>3. slots[i].amount \in Nat
  BY <1>2, RecordFields
<1>4. balance' \in Nat
  BY <1>3 DEF PayBack, IInv, TypeOK
<1>5. wallet' \in [User -> Nat]
  <2>1. slots[i].user \in User /\ wallet \in [User -> Nat]
    BY DEF IInv, TypeOK, QueueSound, RecordIsIndexed
  <2>2. wallet' = [wallet EXCEPT ![slots[i].user] = @ + slots[i].amount]
    BY DEF PayBack
  <2>. QED
    BY <1>3, <2>1, <2>2
<1>6. UNCHANGED gates
  BY DEF PayBack
<1>. QED
  BY <1>1, <1>4, <1>5, <1>6, RemovalSound DEF IInv, TypeOK, gates

(* Each handler names a live slot. *)
LEMMA NamedSlotLive ==
  ASSUME IInv, NEW u \in User, u \in hasPending \/ indexPlusOne[u] # 0
  PROVE  /\ u \in hasPending
         /\ indexPlusOne[u] - 1 \in Live
         /\ slots[indexPlusOne[u] - 1].user = u
  BY DEF IInv, QueueSound, IndexFindsRecord

LEMMA Step == IInv /\ [Next]_vars => IInv'
<1> SUFFICES ASSUME IInv, [Next]_vars PROVE IInv'
  OBVIOUS
<1> USE QueueAssumption DEF QueueAssumption
<1>1. ASSUME NEW u \in User, NEW a \in Amount, Deposit(u, a) PROVE IInv'
  <2>1. length \in Slot /\ length \in Nat
    BY <1>1 DEF Deposit, Slot, IInv, TypeOK
  <2>2. [user |-> u, amount |-> a, age |-> 0] \in Record
    BY DEF Record
  <2>3. TypeOK'
    BY <1>1, <2>1, <2>2 DEF Deposit, IInv, TypeOK, gates
  <2>4. Live' = Live \cup {length}
    <3>1. head <= length
      BY DEF IInv, TypeOK, QueueSound, HeadInside
    <3>2. ASSUME NEW j \in Slot PROVE j < length + 1 <=> (j < length \/ j = length)
      BY <2>1 DEF Slot
    <3>. QED
      BY <1>1, <2>1, <3>1, <3>2 DEF Deposit, Live
  <2>5. length \notin Live
    BY <2>1 DEF Live
  <2>6. HeadInside'
    BY <1>1, <2>1 DEF Deposit, IInv, TypeOK, QueueSound, HeadInside
  <2>7. IndexFindsRecord'
    BY <1>1, <2>1, <2>4, <2>5 DEF Deposit, IInv, TypeOK, QueueSound, IndexFindsRecord
  <2>8. RecordIsIndexed'
    BY <1>1, <2>1, <2>4, <2>5 DEF Deposit, IInv, TypeOK, QueueSound, RecordIsIndexed, Live
  <2>9. FormerSlotsCleared'
    BY <1>1, <2>1, <2>4, <2>5 DEF Deposit, IInv, TypeOK, QueueSound, FormerSlotsCleared
  <2>. QED
    BY <2>3, <2>6, <2>7, <2>8, <2>9 DEF IInv, QueueSound
<1>2. CASE RefundStaleHeadDeposit
  BY <1>2, HeadLive, PayBackSound DEF RefundStaleHeadDeposit, IInv
<1>3. ASSUME NEW u \in User, RefundStaleDeposit(u) PROVE IInv'
  BY <1>3, NamedSlotLive, PayBackSound DEF RefundStaleDeposit
<1>4. CASE ProcessOneDeposit
  <2>1. head \in Live /\ RemovePending(head)
    BY <1>4, HeadLive DEF ProcessOneDeposit, IInv
  <2>2. slots[head] \in Record
    BY <2>1 DEF IInv, TypeOK, Live
  <2>3. balance' \in Nat /\ UNCHANGED <<wallet, gates>>
    BY <1>4, <2>2, RecordFields DEF ProcessOneDeposit, IInv, TypeOK
  <2>. QED
    BY <2>1, <2>3, RemovalSound DEF IInv, TypeOK, gates
<1>5. ASSUME NEW u \in User, EmergencyRecoverUser(u) PROVE IInv'
  BY <1>5, NamedSlotLive, PayBackSound DEF EmergencyRecoverUser
<1>6. ASSUME NEW u \in User, Donate(u) PROVE IInv'
  BY <1>6 DEF Donate, queue, gates, IInv, TypeOK, QueueSound, HeadInside,
     IndexFindsRecord, RecordIsIndexed, FormerSlotsCleared, Live
<1>7. CASE Tick
  <2>1. ASSUME NEW i \in Slot
        PROVE  /\ slots'[i] \in Record
               /\ slots'[i].user = slots[i].user
               /\ i \notin Live => slots'[i] = slots[i]
    <3>1. slots[i] \in Record
      BY DEF IInv, TypeOK
    <3>2. CASE i \in Live /\ slots[i].age < RefundDelay
      <4>1. slots[i].user # NoUser
        BY <3>2 DEF IInv, TypeOK, QueueSound, RecordIsIndexed
      <4>2. slots[i] \in [user : User, amount : Amount, age : 0 .. RefundDelay]
        BY <3>1, <4>1 DEF Record, Empty
      <4>3. slots'[i] = [slots[i] EXCEPT !.age = @ + 1]
        BY <1>7, <3>2 DEF Tick
      <4>4. slots[i].age + 1 \in 0 .. RefundDelay
        BY <3>2, <4>2
      <4>5. slots'[i] \in [user : User, amount : Amount, age : 0 .. RefundDelay]
        BY <4>2, <4>3, <4>4
      <4>. QED
        BY <3>2, <4>2, <4>3, <4>5 DEF Record
    <3>3. CASE ~(i \in Live /\ slots[i].age < RefundDelay)
      BY <1>7, <3>1, <3>3 DEF Tick
    <3>. QED
      BY <3>2, <3>3
  <2>2. slots' \in [Slot -> Record]
    <3>1. slots' = [i \in Slot |-> slots'[i]]
      BY <1>7 DEF Tick
    <3>. QED
      BY <2>1, <3>1
  <2>3. Live' = Live /\ UNCHANGED <<length, head, indexPlusOne, hasPending, pendingTotal, custody, gates>>
    BY <1>7 DEF Tick, Live
  <2>4. TypeOK'
    BY <2>2, <2>3 DEF IInv, TypeOK, custody, gates
  <2>5. \A i \in Live : i \in Slot
    BY DEF Live
  <2>. QED
    BY <2>1, <2>3, <2>4, <2>5 DEF IInv, QueueSound, HeadInside, IndexFindsRecord, RecordIsIndexed,
       FormerSlotsCleared
<1>8. CASE ToggleInflows \/ ToggleLock
  <2>1. UNCHANGED <<queue, custody>>
    BY <1>8 DEF ToggleInflows, ToggleLock
  <2>2. inflowsActive' \in BOOLEAN /\ locked' \in BOOLEAN
    BY <1>8 DEF ToggleInflows, ToggleLock, IInv, TypeOK
  <2>. QED
    BY <2>1, <2>2 DEF queue, custody, IInv, TypeOK, QueueSound, HeadInside,
       IndexFindsRecord, RecordIsIndexed, FormerSlotsCleared, Live
<1>9. CASE UNCHANGED vars
  BY <1>9 DEF vars, IInv, TypeOK, QueueSound, HeadInside,
     IndexFindsRecord, RecordIsIndexed, FormerSlotsCleared, Live
<1>. QED
  BY <1>1, <1>2, <1>3, <1>4, <1>5, <1>6, <1>7, <1>8, <1>9 DEF Next

(***************************************************************************)
(* After any number of deposits, refunds, swaps and resets, the index finds  *)
(* every request, every record in the queue is some user's, and every other   *)
(* slot of the array is clear.                                               *)
(***************************************************************************)
THEOREM QueueInvariance == Spec => [](TypeOK /\ QueueSound)
<1>1. Init => IInv
  BY Start
<1>2. IInv /\ [Next]_vars => IInv'
  BY Step
<1>3. IInv => TypeOK /\ QueueSound
  BY DEF IInv
<1>. QED
  BY <1>1, <1>2, <1>3, PTL DEF Spec

(***************************************************************************)
(* No deposit, refund, processing or recovery of another user moves a        *)
(* waiting request away from the head: the swap only fills holes in front of  *)
(* the last record.                                                          *)
(***************************************************************************)
LEMMA PlaceStep ==
  ASSUME IInv, [Next]_vars, NEW u \in hasPending, u \in hasPending'
  PROVE  Ahead(u)' <= Ahead(u)
<1> USE DEF Ahead
<1>1. /\ u \in User
      /\ indexPlusOne[u] - 1 \in Live
      /\ indexPlusOne[u] - 1 \in Nat
      /\ slots[indexPlusOne[u] - 1].user = u
      /\ length \in Nat /\ head \in Nat /\ indexPlusOne[u] \in Nat
      /\ head <= indexPlusOne[u] - 1 /\ indexPlusOne[u] - 1 < length
  <2>1. u \in User /\ indexPlusOne[u] - 1 \in Live /\ slots[indexPlusOne[u] - 1].user = u
    BY DEF IInv, TypeOK, QueueSound, IndexFindsRecord
  <2>. QED
    BY <2>1, QueueAssumption DEF QueueAssumption, IInv, TypeOK, Live, Slot
<1>2. ASSUME NEW i \in Live, RemovePending(i) PROVE Ahead(u)' <= Ahead(u)
  <2>0. /\ i \in Nat /\ head <= i /\ i < length
        /\ slots[i].user # u
    BY <1>2, QueueAssumption DEF QueueAssumption, Live, Slot, RemovePending
  <2>1. CASE i = head
    <3>1. indexPlusOne'[u] = indexPlusOne[u]
      BY <1>1, <1>2, <2>0, <2>1 DEF RemovePending, IndexWithout, IInv, TypeOK
    <3>2. indexPlusOne[u] - 1 # head
      BY <1>1, <2>0, <2>1
    <3>3. head' = head + 1
      BY <1>1, <1>2, <2>1, <3>2 DEF RemovePending
    <3>. QED
      BY <1>1, <3>1, <3>3
  <2>2. CASE i # head
    <3>1. head' = head
      BY <1>1, <1>2, <2>0, <2>2 DEF RemovePending
    <3>2. CASE i # length - 1 /\ slots[length - 1].user = u
      <4>1. indexPlusOne'[u] = i + 1
        BY <1>1, <1>2, <2>0, <2>2, <3>2 DEF RemovePending, IndexWithout, IInv, TypeOK
      <4>2. indexPlusOne[u] = length
        <5>1. length - 1 \in Live
          BY <1>1, <2>0, QueueAssumption DEF QueueAssumption, Live, Slot, IInv, TypeOK
        <5>. QED
          BY <1>1, <3>2, <5>1 DEF IInv, QueueSound, RecordIsIndexed
      <4>. QED
        BY <1>1, <2>0, <3>1, <4>1, <4>2
    <3>3. CASE ~(i # length - 1 /\ slots[length - 1].user = u)
      <4>1. indexPlusOne'[u] = indexPlusOne[u]
        BY <1>1, <1>2, <2>0, <2>2, <3>3 DEF RemovePending, IndexWithout, IInv, TypeOK
      <4>. QED
        BY <1>1, <3>1, <4>1
    <3>. QED
      BY <3>2, <3>3
  <2>. QED
    BY <2>1, <2>2
<1>3. ASSUME UNCHANGED <<head, indexPlusOne>> PROVE Ahead(u)' <= Ahead(u)
  BY <1>1, <1>3
<1>4. ASSUME NEW v \in User, NEW a \in Amount, Deposit(v, a) PROVE Ahead(u)' <= Ahead(u)
  <2>1. v # u
    BY <1>4 DEF Deposit
  <2>2. head' = head /\ indexPlusOne'[u] = indexPlusOne[u]
    BY <1>1, <1>4, <2>1 DEF Deposit, IInv, TypeOK
  <2>. QED
    BY <1>1, <2>2
<1>5. CASE RefundStaleHeadDeposit
  BY <1>2, <1>5, HeadLive DEF RefundStaleHeadDeposit, PayBack, IInv
<1>6. ASSUME NEW v \in User, RefundStaleDeposit(v) PROVE Ahead(u)' <= Ahead(u)
  BY <1>2, <1>6, NamedSlotLive DEF RefundStaleDeposit, PayBack
<1>7. CASE ProcessOneDeposit
  BY <1>2, <1>7, HeadLive DEF ProcessOneDeposit, IInv
<1>8. ASSUME NEW v \in User, EmergencyRecoverUser(v) PROVE Ahead(u)' <= Ahead(u)
  BY <1>2, <1>8, NamedSlotLive DEF EmergencyRecoverUser, PayBack
<1>9. ASSUME NEW v \in User, Donate(v) PROVE Ahead(u)' <= Ahead(u)
  BY <1>3, <1>9 DEF Donate, queue
<1>10. CASE Tick \/ ToggleInflows \/ ToggleLock \/ UNCHANGED vars
  BY <1>3, <1>10 DEF Tick, ToggleInflows, ToggleLock, queue, vars
<1>. QED
  BY <1>4, <1>5, <1>6, <1>7, <1>8, <1>9, <1>10 DEF Next

(* The place of a waiting request never gets worse. *)
THEOREM FairPlace == Spec => PlaceNeverWorsens
<1>1. Init => IInv
  BY Start
<1>2. IInv /\ [Next]_vars => IInv'
  BY Step
<1>3. IInv /\ [Next]_vars =>
        [\A u \in hasPending : u \in hasPending' => Ahead(u)' <= Ahead(u)]_vars
  BY PlaceStep
<1>. QED
  BY <1>1, <1>2, <1>3, PTL DEF Spec, PlaceNeverWorsens

(***************************************************************************)
(* Removing a record ends the request of its user and touches no other, in   *)
(* whatever slot the swap leaves them.                                       *)
(***************************************************************************)
LEMMA RemovalRequest ==
  ASSUME IInv, NEW i \in Live, RemovePending(i)
  PROVE  /\ slots[i].user \in User
         /\ request[slots[i].user] = slots[i].amount
         /\ slots[i].amount \in Amount
         /\ request' = [request EXCEPT ![slots[i].user] = 0]
<1> DEFINE u == slots[i].user
           last == length - 1
<1>1. /\ u \in hasPending /\ u \in User /\ indexPlusOne[u] = i + 1
      /\ i \in Nat /\ i \in Slot /\ head <= i /\ i < length
      /\ length \in Nat /\ head \in Nat
  BY QueueAssumption DEF QueueAssumption, IInv, TypeOK, QueueSound, RecordIsIndexed, Live, Slot
<1>2. slots[i].amount \in Amount
  BY <1>1, QueueAssumption DEF QueueAssumption, IInv, TypeOK, Record, Empty
<1>3. request[u] = slots[i].amount
  BY <1>1 DEF request
<1>4. ASSUME NEW v \in User, v # u PROVE request'[v] = request[v]
  <2>1. v \in hasPending' <=> v \in hasPending
    BY <1>4 DEF RemovePending
  <2>2. CASE v \notin hasPending
    BY <2>1, <2>2 DEF request
  <2>3. CASE v \in hasPending
    <3> DEFINE k == indexPlusOne[v] - 1
    <3>1. k \in Live /\ k \in Nat /\ slots[k].user = v /\ indexPlusOne[v] \in Nat
      BY <2>3, QueueAssumption DEF QueueAssumption, IInv, TypeOK, QueueSound, IndexFindsRecord, Live, Slot
    <3>2. k # i /\ k \in Slot
      BY <1>4, <3>1 DEF Live
    <3>3. last \in Live /\ last \in Nat
      BY <1>1, QueueAssumption DEF QueueAssumption, IInv, TypeOK, Live, Slot
    <3>4. CASE i = head \/ i = last
      <4>1. slots' = [slots EXCEPT ![i] = Empty]
            /\ indexPlusOne' = [indexPlusOne EXCEPT ![u] = 0]
        BY <3>4 DEF RemovePending, SlotsWithout, IndexWithout
      <4>2. indexPlusOne'[v] = indexPlusOne[v] /\ slots'[k] = slots[k]
        BY <1>4, <3>2, <4>1 DEF IInv, TypeOK
      <4>. QED
        BY <2>1, <2>3, <4>2 DEF request
    <3>5. CASE i # head /\ i # last
      <4>1. slots' = [slots EXCEPT ![i] = slots[last], ![last] = Empty]
            /\ indexPlusOne' = [[indexPlusOne EXCEPT ![u] = 0] EXCEPT ![slots[last].user] = i + 1]
        BY <3>5 DEF RemovePending, SlotsWithout, IndexWithout
      <4>2. CASE k = last
        <5>1. indexPlusOne'[v] = i + 1 /\ slots'[i] = slots[last]
          BY <1>1, <1>4, <3>1, <3>2, <3>5, <4>1, <4>2 DEF IInv, TypeOK
        <5>2. indexPlusOne'[v] - 1 = i
          BY <1>1, <5>1
        <5>. QED
          BY <2>1, <2>3, <4>2, <5>1, <5>2 DEF request
      <4>3. CASE k # last
        <5>1. slots[last].user # v
          BY <3>1, <3>3, <4>3 DEF IInv, QueueSound, RecordIsIndexed
        <5>2. indexPlusOne'[v] = indexPlusOne[v] /\ slots'[k] = slots[k]
          BY <1>4, <3>2, <4>1, <4>3, <5>1 DEF IInv, TypeOK
        <5>. QED
          BY <2>1, <2>3, <5>2 DEF request
      <4>. QED
        BY <4>2, <4>3
    <3>. QED
      BY <3>4, <3>5
  <2>. QED
    BY <2>2, <2>3
<1>5. request'[u] = 0
  BY <1>1 DEF request, RemovePending
<1>6. request' = [request EXCEPT ![u] = 0]
  BY <1>1, <1>4, <1>5 DEF request
<1>. QED
  BY <1>1, <1>2, <1>3, <1>6

LEMMA PayBackReturns ==
  ASSUME IInv, NEW i \in Live, PayBack(i) PROVE Book!Next
<1>1. RemovePending(i)
  BY DEF PayBack
<1>2. slots[i].amount # 0
  BY <1>1, RemovalRequest, QueueAssumption DEF QueueAssumption
<1>3. Book!Return(slots[i].user)
  BY <1>1, <1>2, RemovalRequest DEF Book!Return, PayBack
<1>. QED
  BY <1>1, <1>3, RemovalRequest DEF Book!Next

LEMMA BookInit == Init => Book!Init
  BY QueueAssumption DEF QueueAssumption, Init, Book!Init, request

LEMMA BookStep == IInv /\ [Next]_vars => [Book!Next]_(Book!vars)
<1> SUFFICES ASSUME IInv, [Next]_vars PROVE [Book!Next]_(Book!vars)
  OBVIOUS
<1>1. ASSUME NEW u \in User, NEW a \in Amount, Deposit(u, a) PROVE Book!Next
  <2>1. request[u] = 0
    BY <1>1 DEF Deposit, request
  <2>2. length \in Nat /\ length \in Slot /\ length \notin Live
    BY <1>1, QueueAssumption DEF QueueAssumption, Deposit, IInv, TypeOK, Slot, Live
  <2>3. ASSUME NEW v \in User, v # u PROVE request'[v] = request[v]
    <3>1. CASE v \in hasPending
      <4>1. indexPlusOne[v] - 1 \in Live
        BY <3>1 DEF IInv, QueueSound, IndexFindsRecord
      <4>2. indexPlusOne'[v] = indexPlusOne[v]
        BY <1>1, <2>3 DEF Deposit, IInv, TypeOK
      <4>3. slots'[indexPlusOne[v] - 1] = slots[indexPlusOne[v] - 1]
        BY <1>1, <2>2, <4>1 DEF Deposit, IInv, TypeOK, Live
      <4>. QED
        BY <1>1, <3>1, <4>2, <4>3 DEF Deposit, request
    <3>2. CASE v \notin hasPending
      BY <1>1, <2>3, <3>2 DEF Deposit, request
    <3>. QED
      BY <3>1, <3>2
  <2>4. request'[u] = a
    <3>1. indexPlusOne'[u] - 1 = length /\ slots'[length].amount = a /\ u \in hasPending'
      BY <1>1, <2>2 DEF Deposit, IInv, TypeOK
    <3>. QED
      BY <3>1 DEF request
  <2>5. request' = [request EXCEPT ![u] = a]
    BY <2>3, <2>4 DEF request
  <2>6. Book!Request(u, a)
    BY <1>1, <2>1, <2>5 DEF Deposit, Book!Request
  <2>. QED
    BY <2>6 DEF Book!Next
<1>2. CASE RefundStaleHeadDeposit
  BY <1>2, HeadLive, PayBackReturns DEF RefundStaleHeadDeposit, IInv
<1>3. ASSUME NEW u \in User, RefundStaleDeposit(u) PROVE Book!Next
  BY <1>3, NamedSlotLive, PayBackReturns DEF RefundStaleDeposit
<1>4. CASE ProcessOneDeposit
  <2>1. head \in Live /\ RemovePending(head)
    BY <1>4, HeadLive DEF ProcessOneDeposit, IInv
  <2>2. slots[head].amount # 0
    BY <2>1, RemovalRequest, QueueAssumption DEF QueueAssumption
  <2>3. Book!Forward(slots[head].user)
    BY <1>4, <2>1, <2>2, RemovalRequest DEF ProcessOneDeposit, Book!Forward
  <2>. QED
    BY <2>1, <2>3, RemovalRequest DEF Book!Next
<1>5. ASSUME NEW u \in User, EmergencyRecoverUser(u) PROVE Book!Next
  BY <1>5, NamedSlotLive, PayBackReturns DEF EmergencyRecoverUser
<1>6. ASSUME NEW u \in User, Donate(u) PROVE Book!Next
  <2>1. Book!Gift(u)
    BY <1>6 DEF Donate, queue, request, Book!Gift
  <2>. QED
    BY <2>1 DEF Book!Next
<1>7. CASE Tick
  <2>1. ASSUME NEW i \in Slot PROVE slots'[i].amount = slots[i].amount
    <3>1. slots[i] \in Record
      BY DEF IInv, TypeOK
    <3>2. [slots[i] EXCEPT !.age = @ + 1].amount = slots[i].amount
      BY <3>1 DEF Record, Empty
    <3>. QED
      BY <1>7, <3>2 DEF Tick
  <2>2. \A u \in hasPending : indexPlusOne[u] - 1 \in Slot /\ u \in User
    BY DEF IInv, TypeOK, QueueSound, IndexFindsRecord, Live
  <2>3. request' = request
    BY <1>7, <2>1, <2>2 DEF Tick, request
  <2>. QED
    BY <1>7, <2>3 DEF Tick, custody, Book!vars
<1>8. CASE ToggleInflows \/ ToggleLock \/ UNCHANGED vars
  BY <1>8 DEF ToggleInflows, ToggleLock, queue, custody, vars, request, Book!vars
<1>. QED
  BY <1>1, <1>2, <1>3, <1>4, <1>5, <1>6, <1>7, <1>8 DEF Next

(***************************************************************************)
(* The moving head, the index, the swaps and the uncleared length reset       *)
(* implement the book: one request per user, ended once, with its own amount, *)
(* by a return to that user or by forwarding.                                *)
(***************************************************************************)
THEOREM QueueRefinement == Spec => ImplementsBook
<1>1. Init => IInv
  BY Start
<1>2. IInv /\ [Next]_vars => IInv'
  BY Step
<1>3. Init => Book!Init
  BY BookInit
<1>4. IInv /\ [Next]_vars => [Book!Next]_(Book!vars)
  BY BookStep
<1>. QED
  BY <1>1, <1>2, <1>3, <1>4, PTL DEF Spec, ImplementsBook, Book!Spec

-----------------------------------------------------------------------------
(***************************************************************************)
(* The running total. Cleared slots hold nothing, so that the sum over the   *)
(* live slots is the sum over the whole array, whose terms the handlers      *)
(* change one by one.                                                        *)
(***************************************************************************)
Held == [i \in Slot |-> slots[i].amount]
TotalRight == pendingTotal = SumFunctionOnSet(Held, Slot) /\ balance >= pendingTotal
ReserveInv == IInv /\ TotalRight

LEMMA HeldNumbers ==
  ASSUME TypeOK
  PROVE  Numbers(Held, Slot)
<1>1. IsFiniteSet(Slot)
  BY QueueAssumption, FS_Interval DEF QueueAssumption, Slot
<1>2. ASSUME NEW i \in Slot PROVE Held[i] \in Nat
  <2>1. slots[i] \in Record
    BY DEF TypeOK
  <2>. QED
    BY <2>1, RecordFields DEF Held
<1>. QED
  BY <1>1, <1>2 DEF Numbers

LEMMA LiveSum ==
  ASSUME IInv
  PROVE  SumFunctionOnSet(Held, Slot) = SumFunctionOnSet(Held, Live)
<1>1. Numbers(Held, Slot) /\ Live \in SUBSET Slot
  BY HeldNumbers DEF IInv, Live
<1>2. \A i \in Slot \ Live : Held[i] = 0
  BY DEF IInv, QueueSound, FormerSlotsCleared, Held, Empty
<1>. QED
  BY <1>1, <1>2, SumOutside

(* The removal takes the record's amount out of the array. *)
LEMMA RemovalTotal ==
  ASSUME IInv, NEW i \in Live, RemovePending(i)
  PROVE  SumFunctionOnSet(Held', Slot) = SumFunctionOnSet(Held, Slot) - slots[i].amount
<1> DEFINE last == length - 1
<1>1. /\ i \in Slot /\ last \in Slot /\ Numbers(Held, Slot)
      /\ slots \in [Slot -> Record]
  BY HeldNumbers, QueueAssumption DEF QueueAssumption, IInv, TypeOK, Live, Slot
<1>2. \A j \in Slot : Held[j] = slots[j].amount /\ Held'[j] = slots'[j].amount /\ Held[j] \in Nat
  BY <1>1 DEF Held, Numbers
<1>3. CASE i = head \/ i = last
  <2>1. slots' = [slots EXCEPT ![i] = Empty]
    BY <1>3 DEF RemovePending, SlotsWithout
  <2>2. Held'[i] = 0 /\ \A j \in Slot \ {i} : Held'[j] = Held[j]
    BY <1>1, <1>2, <2>1 DEF Empty
  <2> DEFINE after == Held'
  <2>3. SumFunctionOnSet(after, Slot) = SumFunctionOnSet(Held, Slot) - Held[i] + after[i]
    <3>1. after[i] \in Nat /\ \A j \in Slot \ {i} : after[j] = Held[j]
      BY <2>2
    <3>2. i \in Slot /\ Numbers(Held, Slot)
      BY <1>1
    <3> HIDE DEF after
    <3>. QED
      BY <3>1, <3>2, SumChange
  <2>4. SumFunctionOnSet(Held, Slot) \in Nat
    BY <1>1, SumNat
  <2>. QED
    BY <1>1, <1>2, <2>2, <2>3, <2>4
<1>4. CASE i # head /\ i # last
  <2>1. slots' = [slots EXCEPT ![i] = slots[last], ![last] = Empty]
    BY <1>4 DEF RemovePending, SlotsWithout
  <2>2. /\ Held'[i] = Held[last] /\ Held'[last] = 0
        /\ \A j \in Slot \ {i, last} : Held'[j] = Held[j]
    BY <1>1, <1>2, <1>4, <2>1 DEF Empty
  <2> DEFINE after == Held'
  <2>3. SumFunctionOnSet(after, Slot) = SumFunctionOnSet(Held, Slot) - Held[i]
    <3>1. /\ after[i] = Held[last] /\ after[last] = 0
          /\ \A j \in Slot \ {i, last} : after[j] = Held[j]
      BY <2>2
    <3>2. i \in Slot /\ last \in Slot /\ i # last /\ Numbers(Held, Slot)
      BY <1>1, <1>4
    <3> HIDE DEF after, last
    <3>. QED
      BY <3>1, <3>2, SumMove
  <2>. QED
    BY <1>1, <1>2, <2>3
<1>. QED
  BY <1>3, <1>4

LEMMA RemovalReserve ==
  ASSUME ReserveInv, NEW i \in Live, RemovePending(i), balance' = balance - slots[i].amount
  PROVE  TotalRight'
<1>1. SumFunctionOnSet(Held', Slot) = SumFunctionOnSet(Held, Slot) - slots[i].amount
  BY RemovalTotal DEF ReserveInv
<1>2. slots[i] \in Record /\ pendingTotal \in Nat /\ balance \in Nat
  BY DEF ReserveInv, IInv, TypeOK, Live
<1>3. slots[i].amount \in Nat
  BY <1>2, RecordFields
<1>4. pendingTotal' = pendingTotal - slots[i].amount
  BY DEF RemovePending
<1>5. TotalRight' <=> pendingTotal' = SumFunctionOnSet(Held', Slot) /\ balance' >= pendingTotal'
  BY DEF TotalRight, Slot
<1>. QED
  BY <1>1, <1>2, <1>3, <1>4, <1>5 DEF ReserveInv, TotalRight

LEMMA DepositReserve ==
  ASSUME ReserveInv, NEW u \in User, NEW a \in Amount, Deposit(u, a)
  PROVE  TotalRight'
<1>1. /\ length \in Slot /\ length \notin Live /\ Numbers(Held, Slot)
      /\ a \in Nat /\ slots \in [Slot -> Record]
  BY HeldNumbers, QueueAssumption DEF QueueAssumption, Deposit, ReserveInv, IInv, TypeOK, Slot, Live
<1>2. Held[length] = 0
  BY <1>1 DEF ReserveInv, IInv, QueueSound, FormerSlotsCleared, Held, Empty
<1>3. Held'[length] = a /\ \A j \in Slot \ {length} : Held'[j] = Held[j]
  BY <1>1 DEF Deposit, Held, Slot
<1> DEFINE after == Held'
<1>4. SumFunctionOnSet(after, Slot) = SumFunctionOnSet(Held, Slot) - Held[length] + after[length]
  <2>1. after[length] \in Nat /\ \A j \in Slot \ {length} : after[j] = Held[j]
    BY <1>1, <1>3
  <2> HIDE DEF after
  <2>. QED
    BY <1>1, <2>1, SumChange
<1>5. pendingTotal' = pendingTotal + a /\ balance' = balance + a
  BY DEF Deposit
<1>6. TotalRight' <=> pendingTotal' = SumFunctionOnSet(Held', Slot) /\ balance' >= pendingTotal'
  BY DEF TotalRight, Slot
<1>. QED
  BY <1>1, <1>2, <1>3, <1>4, <1>5, <1>6 DEF ReserveInv, IInv, TypeOK, TotalRight

LEMMA ReserveStep == ReserveInv /\ [Next]_vars => TotalRight'
<1> SUFFICES ASSUME ReserveInv, [Next]_vars PROVE TotalRight'
  OBVIOUS
<1>1. ASSUME NEW i \in Live, PayBack(i) PROVE TotalRight'
  BY <1>1, RemovalReserve DEF PayBack
<1>2. ASSUME Held' = Held, pendingTotal' = pendingTotal, balance' \in Nat, balance' >= balance
      PROVE  TotalRight'
  BY <1>2 DEF ReserveInv, IInv, TypeOK, TotalRight, Slot
<1>3. IInv /\ TypeOK /\ balance \in Nat
  BY DEF ReserveInv, IInv, TypeOK
<1>4. CASE RefundStaleHeadDeposit
  BY <1>1, <1>3, <1>4, HeadLive DEF RefundStaleHeadDeposit
<1>5. ASSUME NEW u \in User, RefundStaleDeposit(u) PROVE TotalRight'
  BY <1>1, <1>3, <1>5, NamedSlotLive DEF RefundStaleDeposit
<1>6. CASE ProcessOneDeposit
  BY <1>3, <1>6, HeadLive, RemovalReserve DEF ProcessOneDeposit
<1>7. ASSUME NEW u \in User, EmergencyRecoverUser(u) PROVE TotalRight'
  BY <1>1, <1>3, <1>7, NamedSlotLive DEF EmergencyRecoverUser
<1>8. ASSUME NEW u \in User, Donate(u) PROVE TotalRight'
  BY <1>2, <1>3, <1>8 DEF Donate, queue, Held, Slot
<1>9. CASE Tick
  <2>1. ASSUME NEW i \in Slot PROVE slots'[i].amount = slots[i].amount
    <3>1. slots[i] \in Record
      BY <1>3 DEF TypeOK
    <3>2. [slots[i] EXCEPT !.age = @ + 1].amount = slots[i].amount
      BY <3>1 DEF Record, Empty
    <3>. QED
      BY <1>9, <3>2 DEF Tick
  <2>2. Held' = Held
    BY <2>1 DEF Held, Slot
  <2>. QED
    BY <1>2, <1>3, <1>9, <2>2 DEF Tick, custody
<1>10. CASE ToggleInflows \/ ToggleLock \/ UNCHANGED vars
  <2>1. UNCHANGED <<slots, pendingTotal, balance>>
    BY <1>10 DEF ToggleInflows, ToggleLock, queue, custody, vars
  <2>. QED
    BY <1>2, <1>3, <2>1 DEF Held, Slot
<1>. QED
  BY <1>4, <1>5, <1>6, <1>7, <1>8, <1>9, <1>10, DepositReserve DEF Next

(***************************************************************************)
(* ReserveCovered: _pendingTotal is the sum of the queued amounts and the    *)
(* vault holds that much, so that no subtraction of _removePending reverts    *)
(* and EmergencyRecoverUser never meets PendingReserveDeficit.               *)
(***************************************************************************)
THEOREM QueueIsFunded == Spec => []ReserveCovered
<1>1. Init => ReserveInv
  <2>1. SUFFICES ASSUME Init PROVE ReserveInv
    OBVIOUS
  <2>2. IInv
    BY <2>1, Start
  <2>3. IsFiniteSet(Slot) /\ \A i \in Slot : Held[i] = 0
    BY <2>1, <2>2, HeldNumbers DEF Init, Held, Empty, IInv, Numbers
  <2>4. SumFunctionOnSet(Held, Slot) = 0
    BY <2>3, SumZero
  <2>. QED
    BY <2>1, <2>2, <2>4 DEF Init, ReserveInv, TotalRight
<1>2. ReserveInv /\ [Next]_vars => ReserveInv'
  BY Step, ReserveStep DEF ReserveInv
<1>3. ReserveInv => ReserveCovered
  BY LiveSum DEF ReserveInv, TotalRight, ReserveCovered, Held
<1>. QED
  BY <1>1, <1>2, <1>3, PTL DEF Spec

=============================================================================
