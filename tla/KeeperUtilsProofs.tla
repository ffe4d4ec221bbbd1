-------------------------- MODULE KeeperUtilsProofs --------------------------
(***************************************************************************)
(* What the utilities of the keepers guarantee, for any number of attempts,   *)
(* processes and endpoints.                                                 *)
(*                                                                         *)
(* The signer lock (SignerFileLock): IInv is inductive with crashes between   *)
(* any two file-system calls, and mutual exclusion, the rule that only dead   *)
(* owners lose their lock and the refinement of SignerMutex follow from it.   *)
(*                                                                         *)
(* The readers: RpcPool (the source of every answer, and that a working       *)
(* endpoint is found), SnapshotRead (a negative answer about the health       *)
(* factor) and FeeConsensus (the bounds of the fees).                       *)
(***************************************************************************)
EXTENDS SignerFileLock, RpcPool, SnapshotRead, FeeConsensus, SumProofs

(***************************************************************************)
(* The signer lock.                                                          *)
(***************************************************************************)
(* Two claims and the lock path on one inode give it at least three links,  *)
(* which is what the second of two recuperators counts.                     *)
LEMMA TwoClaimants ==
    ASSUME TypeOK, file # NoFile,
           NEW a \in Attempt, NEW b \in Attempt, a # b,
           claim[a] = file, claim[b] = file
    PROVE  NLink(file) \in Nat /\ NLink(file) >= 3
<1> DEFINE S == {c \in Attempt : claim[c] = file}
<1>1. IsFiniteSet(S)
  BY FS_Subset, LockAssumption DEF LockAssumption
<1>2. {a, b} \subseteq S
  OBVIOUS
<1>3. Cardinality({a, b}) = 2
  <2>1. Cardinality({a}) = 1 /\ IsFiniteSet({a})
    BY FS_Singleton
  <2>2. Cardinality({a} \cup {b}) = Cardinality({a}) + 1
    BY <2>1, FS_AddElement
  <2>3. {a} \cup {b} = {a, b}
    OBVIOUS
  <2>. QED
    BY <2>1, <2>2, <2>3
<1>4. Cardinality(S) \in Nat /\ Cardinality(S) >= 2
  BY <1>1, <1>2, <1>3, FS_Subset, FS_CardinalityType
<1>5. NLink(file) = 1 + (IF file \in published THEN 1 ELSE 0) + Cardinality(S)
  BY DEF NLink
<1> HIDE DEF S
<1>. QED
  BY <1>4, <1>5

LEMMA NLinkType == ASSUME TypeOK, NEW i PROVE NLink(i) \in Nat
<1> DEFINE S == {c \in Attempt : claim[c] = i}
<1>1. Cardinality(S) \in Nat
  BY FS_Subset, FS_CardinalityType, LockAssumption DEF LockAssumption
<1>2. NLink(i) = (IF file = i THEN 1 ELSE 0) + (IF i \in published THEN 1 ELSE 0)
                 + Cardinality(S)
  BY DEF NLink
<1> HIDE DEF S
<1>. QED
  BY <1>1, <1>2

LEMMA Start == Init => IInv
<1> SUFFICES ASSUME Init PROVE IInv
  OBVIOUS
<1> USE LockAssumption DEF Init, LockAssumption
<1>1. TypeOK
  BY DEF TypeOK, Labels, MayFile
<1>2. OwnerHasFile /\ LinkedOnce /\ SingleClaimant /\ StillThere /\ Judged
  BY DEF OwnerHasFile, Owning, LinkedOnce, SingleClaimant, Armed, StillThere, Judged
<1>. QED
  BY <1>1, <1>2 DEF IInv

LEMMA TypeStep == TypeOK /\ [Next]_vars => TypeOK'
<1> SUFFICES ASSUME TypeOK, [Next]_vars PROVE TypeOK'
  OBVIOUS
<1> USE LockAssumption DEF TypeOK, Labels, MayFile, LockAssumption, At, Goto, disk, reads
<1>1. ASSUME NEW a \in Attempt, Step(a) PROVE TypeOK'
  <2>1. CASE Publish(a)
    BY <2>1 DEF Publish
  <2>2. CASE Scan(a)
    BY <2>2 DEF Scan, LinkNames
  <2>3. CASE ClearLink(a)
    BY <2>3 DEF ClearLink
  <2>4. CASE ClearDone(a)
    BY <2>4 DEF ClearDone
  <2>5. CASE LinkFile(a)
    BY <2>5 DEF LinkFile
  <2>6. CASE Unpublish(a)
    BY <2>6 DEF Unpublish
  <2>7. CASE Inspect(a)
    BY <2>7 DEF Inspect
  <2>8. CASE Claim(a)
    BY <2>8 DEF Claim
  <2>9. CASE StatClaim(a)
    BY <2>9, NLinkType DEF StatClaim
  <2>10. CASE OpenCurrent(a)
    BY <2>10 DEF OpenCurrent
  <2>11. CASE StatCurrent(a)
    BY <2>11 DEF StatCurrent
  <2>12. CASE UnlinkDead(a)
    BY <2>12 DEF UnlinkDead
  <2>13. CASE Unclaim(a)
    BY <2>13 DEF Unclaim
  <2>14. CASE Retry(a)
    BY <2>14 DEF Retry
  <2>15. CASE TimeOut(a)
    BY <2>15 DEF TimeOut
  <2>16. CASE AssertOwned(a)
    BY <2>16 DEF AssertOwned
  <2>17. CASE Release(a)
    BY <2>17 DEF Release
  <2>. QED
    BY <1>1, <2>1, <2>2, <2>3, <2>4, <2>5, <2>6, <2>7, <2>8, <2>9, <2>10, <2>11,
       <2>12, <2>13, <2>14, <2>15, <2>16, <2>17 DEF Step
<1>2. ASSUME NEW p \in Process, Crash(p) PROVE TypeOK'
  BY <1>2 DEF Crash
<1>3. CASE UNCHANGED vars
  BY <1>3 DEF vars
<1>. QED
  BY <1>1, <1>2, <1>3 DEF Next

(* A living owner still has the lock path after every step. *)
LEMMA OwnerStep == IInv /\ [Next]_vars => OwnerHasFile'
<1> SUFFICES ASSUME IInv, [Next]_vars PROVE OwnerHasFile'
  OBVIOUS
<1>0. TypeOK'
  BY TypeStep DEF IInv
<1> USE <1>0, LockAssumption DEF IInv, TypeOK, Alive, At, Goto, disk, reads, LockAssumption, MayFile, OwnerHasFile, Owning, Judged, StillThere, Armed
<1>1. ASSUME NEW a \in Attempt, Step(a) PROVE OwnerHasFile'
  <2>1. CASE Publish(a)
    BY <2>1 DEF Publish
  <2>2. CASE Scan(a)
    BY <2>2 DEF Scan
  <2>3. CASE ClearLink(a)
    BY <2>3 DEF ClearLink
  <2>4. CASE ClearDone(a)
    BY <2>4 DEF ClearDone
  <2>5. CASE LinkFile(a)
    BY <2>5 DEF LinkFile
  <2>6. CASE Unpublish(a)
    BY <2>6 DEF Unpublish
  <2>7. CASE Inspect(a)
    BY <2>7 DEF Inspect
  <2>8. CASE Claim(a)
    BY <2>8 DEF Claim
  <2>9. CASE StatClaim(a)
    BY <2>9 DEF StatClaim
  <2>10. CASE OpenCurrent(a)
    BY <2>10 DEF OpenCurrent
  <2>11. CASE StatCurrent(a)
    BY <2>11 DEF StatCurrent
  <2>12. CASE UnlinkDead(a)
    BY <2>12 DEF UnlinkDead
  <2>13. CASE Unclaim(a)
    BY <2>13 DEF Unclaim
  <2>14. CASE Retry(a)
    BY <2>14 DEF Retry
  <2>15. CASE TimeOut(a)
    BY <2>15 DEF TimeOut
  <2>16. CASE AssertOwned(a)
    BY <2>16 DEF AssertOwned
  <2>17. CASE Release(a)
    BY <2>17 DEF Release
  <2>. QED
    BY <1>1, <2>1, <2>2, <2>3, <2>4, <2>5, <2>6, <2>7, <2>8, <2>9, <2>10, <2>11, 
       <2>12, <2>13, <2>14, <2>15, <2>16, <2>17 DEF Step
<1>2. ASSUME NEW p \in Process, Crash(p) PROVE OwnerHasFile'
  BY <1>2 DEF Crash
<1>3. CASE UNCHANGED vars
  BY <1>3 DEF vars
<1>. QED
  BY <1>1, <1>2, <1>3 DEF Next

(* The lock path and the claims point only to inodes that were linked once. *)
LEMMA LinkedOnceStep == IInv /\ [Next]_vars => LinkedOnce'
<1> SUFFICES ASSUME IInv, [Next]_vars PROVE LinkedOnce'
  OBVIOUS
<1>0. TypeOK'
  BY TypeStep DEF IInv
<1> USE <1>0, LockAssumption DEF IInv, TypeOK, Alive, At, Goto, disk, reads, LockAssumption, MayFile, LinkedOnce, BeenLocked
<1>1. ASSUME NEW a \in Attempt, Step(a) PROVE LinkedOnce'
  <2>1. CASE Publish(a)
    BY <2>1 DEF Publish
  <2>2. CASE Scan(a)
    BY <2>2 DEF Scan
  <2>3. CASE ClearLink(a)
    BY <2>3 DEF ClearLink
  <2>4. CASE ClearDone(a)
    BY <2>4 DEF ClearDone
  <2>5. CASE LinkFile(a)
    BY <2>5 DEF LinkFile
  <2>6. CASE Unpublish(a)
    BY <2>6 DEF Unpublish
  <2>7. CASE Inspect(a)
    BY <2>7 DEF Inspect
  <2>8. CASE Claim(a)
    BY <2>8 DEF Claim
  <2>9. CASE StatClaim(a)
    BY <2>9 DEF StatClaim
  <2>10. CASE OpenCurrent(a)
    BY <2>10 DEF OpenCurrent
  <2>11. CASE StatCurrent(a)
    BY <2>11 DEF StatCurrent
  <2>12. CASE UnlinkDead(a)
    BY <2>12 DEF UnlinkDead
  <2>13. CASE Unclaim(a)
    BY <2>13 DEF Unclaim
  <2>14. CASE Retry(a)
    BY <2>14 DEF Retry
  <2>15. CASE TimeOut(a)
    BY <2>15 DEF TimeOut
  <2>16. CASE AssertOwned(a)
    BY <2>16 DEF AssertOwned
  <2>17. CASE Release(a)
    BY <2>17 DEF Release
  <2>. QED
    BY <1>1, <2>1, <2>2, <2>3, <2>4, <2>5, <2>6, <2>7, <2>8, <2>9, <2>10, <2>11, 
       <2>12, <2>13, <2>14, <2>15, <2>16, <2>17 DEF Step
<1>2. ASSUME NEW p \in Process, Crash(p) PROVE LinkedOnce'
  BY <1>2 DEF Crash
<1>3. CASE UNCHANGED vars
  BY <1>3 DEF vars
<1>. QED
  BY <1>1, <1>2, <1>3 DEF Next

(* Two links counted at the lock path mean a single recuperator. *)
LEMMA SingleClaimantStep == IInv /\ [Next]_vars => SingleClaimant'
<1> SUFFICES ASSUME IInv, [Next]_vars PROVE SingleClaimant'
  OBVIOUS
<1>0. TypeOK'
  BY TypeStep DEF IInv
<1> USE <1>0, LockAssumption DEF IInv, TypeOK, Alive, At, Goto, disk, reads, LockAssumption, MayFile, SingleClaimant, Armed, LinkedOnce, BeenLocked
<1>1. ASSUME NEW a \in Attempt, Step(a) PROVE SingleClaimant'
  <2>1. CASE Publish(a)
    BY <2>1 DEF Publish
  <2>2. CASE Scan(a)
    BY <2>2 DEF Scan
  <2>3. CASE ClearLink(a)
    BY <2>3 DEF ClearLink
  <2>4. CASE ClearDone(a)
    BY <2>4 DEF ClearDone
  <2>5. CASE LinkFile(a)
    BY <2>5 DEF LinkFile
  <2>6. CASE Unpublish(a)
    BY <2>6 DEF Unpublish
  <2>7. CASE Inspect(a)
    BY <2>7 DEF Inspect
  <2>8. CASE Claim(a)
    BY <2>8 DEF Claim
  <2>9. CASE StatClaim(a)
    BY <2>9, TwoClaimants DEF StatClaim
  <2>10. CASE OpenCurrent(a)
    BY <2>10 DEF OpenCurrent
  <2>11. CASE StatCurrent(a)
    BY <2>11 DEF StatCurrent
  <2>12. CASE UnlinkDead(a)
    BY <2>12 DEF UnlinkDead
  <2>13. CASE Unclaim(a)
    BY <2>13 DEF Unclaim
  <2>14. CASE Retry(a)
    BY <2>14 DEF Retry
  <2>15. CASE TimeOut(a)
    BY <2>15 DEF TimeOut
  <2>16. CASE AssertOwned(a)
    BY <2>16 DEF AssertOwned
  <2>17. CASE Release(a)
    BY <2>17 DEF Release
  <2>. QED
    BY <1>1, <2>1, <2>2, <2>3, <2>4, <2>5, <2>6, <2>7, <2>8, <2>9, <2>10, <2>11, 
       <2>12, <2>13, <2>14, <2>15, <2>16, <2>17 DEF Step
<1>2. ASSUME NEW p \in Process, Crash(p) PROVE SingleClaimant'
  BY <1>2 DEF Crash
<1>3. CASE UNCHANGED vars
  BY <1>3 DEF vars
<1>. QED
  BY <1>1, <1>2, <1>3 DEF Next

(* What a recuperator judged is at the lock path until it unlinks it. *)
LEMMA StillThereStep == IInv /\ [Next]_vars => StillThere'
<1> SUFFICES ASSUME IInv, [Next]_vars PROVE StillThere'
  OBVIOUS
<1>0. TypeOK'
  BY TypeStep DEF IInv
<1> USE <1>0, LockAssumption DEF IInv, TypeOK, Alive, At, Goto, disk, reads, LockAssumption, MayFile, StillThere, Judged, SingleClaimant, Armed, OwnerHasFile, Owning
<1>1. ASSUME NEW a \in Attempt, Step(a) PROVE StillThere'
  <2>1. CASE Publish(a)
    BY <2>1 DEF Publish
  <2>2. CASE Scan(a)
    BY <2>2 DEF Scan
  <2>3. CASE ClearLink(a)
    BY <2>3 DEF ClearLink
  <2>4. CASE ClearDone(a)
    BY <2>4 DEF ClearDone
  <2>5. CASE LinkFile(a)
    BY <2>5 DEF LinkFile
  <2>6. CASE Unpublish(a)
    BY <2>6 DEF Unpublish
  <2>7. CASE Inspect(a)
    BY <2>7 DEF Inspect
  <2>8. CASE Claim(a)
    BY <2>8 DEF Claim
  <2>9. CASE StatClaim(a)
    BY <2>9 DEF StatClaim
  <2>10. CASE OpenCurrent(a)
    BY <2>10 DEF OpenCurrent
  <2>11. CASE StatCurrent(a)
    BY <2>11 DEF StatCurrent
  <2>12. CASE UnlinkDead(a)
    BY <2>12 DEF UnlinkDead
  <2>13. CASE Unclaim(a)
    BY <2>13 DEF Unclaim
  <2>14. CASE Retry(a)
    BY <2>14 DEF Retry
  <2>15. CASE TimeOut(a)
    BY <2>15 DEF TimeOut
  <2>16. CASE AssertOwned(a)
    BY <2>16 DEF AssertOwned
  <2>17. CASE Release(a)
    BY <2>17 DEF Release
  <2>. QED
    BY <1>1, <2>1, <2>2, <2>3, <2>4, <2>5, <2>6, <2>7, <2>8, <2>9, <2>10, <2>11, 
       <2>12, <2>13, <2>14, <2>15, <2>16, <2>17 DEF Step
<1>2. ASSUME NEW p \in Process, Crash(p) PROVE StillThere'
  BY <1>2 DEF Crash
<1>3. CASE UNCHANGED vars
  BY <1>3 DEF vars
<1>. QED
  BY <1>1, <1>2, <1>3 DEF Next

(* A recuperator acts only on an owner seen dead. *)
LEMMA JudgedStep == IInv /\ [Next]_vars => Judged'
<1> SUFFICES ASSUME IInv, [Next]_vars PROVE Judged'
  OBVIOUS
<1>0. TypeOK'
  BY TypeStep DEF IInv
<1> USE <1>0, LockAssumption DEF IInv, TypeOK, Alive, At, Goto, disk, reads, LockAssumption, MayFile, Judged, Armed
<1>1. ASSUME NEW a \in Attempt, Step(a) PROVE Judged'
  <2>1. CASE Publish(a)
    BY <2>1 DEF Publish
  <2>2. CASE Scan(a)
    BY <2>2 DEF Scan
  <2>3. CASE ClearLink(a)
    BY <2>3 DEF ClearLink
  <2>4. CASE ClearDone(a)
    BY <2>4 DEF ClearDone
  <2>5. CASE LinkFile(a)
    BY <2>5 DEF LinkFile
  <2>6. CASE Unpublish(a)
    BY <2>6 DEF Unpublish
  <2>7. CASE Inspect(a)
    BY <2>7 DEF Inspect
  <2>8. CASE Claim(a)
    BY <2>8 DEF Claim
  <2>9. CASE StatClaim(a)
    BY <2>9 DEF StatClaim
  <2>10. CASE OpenCurrent(a)
    BY <2>10 DEF OpenCurrent
  <2>11. CASE StatCurrent(a)
    BY <2>11 DEF StatCurrent
  <2>12. CASE UnlinkDead(a)
    BY <2>12 DEF UnlinkDead
  <2>13. CASE Unclaim(a)
    BY <2>13 DEF Unclaim
  <2>14. CASE Retry(a)
    BY <2>14 DEF Retry
  <2>15. CASE TimeOut(a)
    BY <2>15 DEF TimeOut
  <2>16. CASE AssertOwned(a)
    BY <2>16 DEF AssertOwned
  <2>17. CASE Release(a)
    BY <2>17 DEF Release
  <2>. QED
    BY <1>1, <2>1, <2>2, <2>3, <2>4, <2>5, <2>6, <2>7, <2>8, <2>9, <2>10, <2>11, 
       <2>12, <2>13, <2>14, <2>15, <2>16, <2>17 DEF Step
<1>2. ASSUME NEW p \in Process, Crash(p) PROVE Judged'
  BY <1>2 DEF Crash
<1>3. CASE UNCHANGED vars
  BY <1>3 DEF vars
<1>. QED
  BY <1>1, <1>2, <1>3 DEF Next
(* IInv holds for any number of attempts, processes and crashes. *)
THEOREM LockInvariance == Spec => []IInv
<1>1. IInv /\ [Next]_vars => IInv'
  BY TypeStep, OwnerStep, LinkedOnceStep, SingleClaimantStep, StillThereStep, JudgedStep
     DEF IInv
<1>. QED
  BY Start, <1>1, PTL DEF Spec

(* Two attempts of living processes never both hold the signer: a nonce is   *)
(* never signed twice by keepers that share the lock directory              *)
(* (acquireSignerFileLock).                                                 *)
THEOREM Exclusion == Spec => []MutualExclusion
<1>1. IInv => MutualExclusion
  BY DEF IInv, OwnerHasFile, MutualExclusion
<1>. QED
  BY LockInvariance, <1>1, PTL

(* The lock path is never overwritten, and is removed only by its owner's    *)
(* release or after the owner died (reclaimDeadLock).                       *)
THEOREM NotStolen == Spec => LockNotStolen
<1> DEFINE Removal == (file # NoFile /\ file' # file)
                        => file' = NoFile /\ (~Alive(file) \/ pc[file] = "release")
<1>1. IInv /\ [Next]_vars => [Removal]_vars
  <2> SUFFICES ASSUME IInv, Next, file # NoFile, file' # file
               PROVE  file' = NoFile /\ (~Alive(file) \/ pc[file] = "release")
    BY DEF vars
  <2>1. ASSUME NEW a \in Attempt, Step(a)
        PROVE  LinkFile(a) \/ UnlinkDead(a) \/ Release(a)
    BY <2>1 DEF Step, Publish, Scan, ClearLink, ClearDone, Unpublish, Inspect, Claim,
       StatClaim, OpenCurrent, StatCurrent, Unclaim, Retry, TimeOut, AssertOwned, disk
  <2>2. ASSUME NEW p \in Process, Crash(p) PROVE FALSE
    BY <2>2 DEF Crash, disk
  <2>3. ASSUME NEW a \in Attempt, LinkFile(a) PROVE FALSE
    BY <2>3 DEF LinkFile
  <2>4. ASSUME NEW a \in Attempt, UnlinkDead(a) PROVE file' = NoFile /\ ~Alive(file)
    BY <2>4 DEF UnlinkDead, At, IInv, StillThere, Judged, Armed
  <2>5. ASSUME NEW a \in Attempt, Release(a) PROVE file' = NoFile /\ pc[file] = "release"
    BY <2>5 DEF Release, At, IInv, OwnerHasFile, Owning
  <2>. QED
    BY <2>1, <2>2, <2>3, <2>4, <2>5 DEF Next
<1>. QED
  BY LockInvariance, <1>1, PTL DEF Spec, LockNotStolen

(* Every step of the lock is a step of the mutex or leaves it unchanged.     *)
LEMMA MutexStep == IInv /\ [Next]_vars => [Mutex!Next]_Phase
<1> SUFFICES ASSUME IInv, [Next]_vars PROVE Mutex!Next \/ Phase' = Phase
  OBVIOUS
<1> USE LockAssumption
    DEF IInv, TypeOK, Alive, At, Goto, disk, reads, LockAssumption, MayFile, Phase
<1>1. ASSUME NEW a \in Attempt, LinkFile(a) PROVE Mutex!Acquire(a) \/ Phase' = Phase
  <2>1. CASE file = NoFile
    <3>1. file' = a /\ crashed' = crashed /\ pc' = [pc EXCEPT ![a] = "unpublish"]
      BY <1>1, <2>1 DEF LinkFile
    <3>2. Phase[a] = "waiting" /\ \A b \in Attempt : Phase[b] # "holding"
      BY <1>1, <2>1 DEF LinkFile
    <3>3. Phase' = [Phase EXCEPT ![a] = "holding"]
      BY <1>1, <2>1, <3>1 DEF LinkFile
    <3>. QED
      BY <3>2, <3>3 DEF Mutex!Acquire
  <2>2. CASE file # NoFile
    BY <1>1, <2>2 DEF LinkFile
  <2>. QED
    BY <2>1, <2>2
<1>2. ASSUME NEW a \in Attempt, TimeOut(a) PROVE Mutex!End(a)
  BY <1>2 DEF TimeOut, Mutex!End
<1>3. ASSUME NEW a \in Attempt, AssertOwned(a) PROVE Mutex!End(a) \/ Phase' = Phase
  BY <1>3 DEF AssertOwned, OwnerHasFile, Owning
<1>4. ASSUME NEW a \in Attempt, Release(a) PROVE Mutex!End(a)
  <2>1. /\ file = a /\ file' = NoFile /\ crashed' = crashed
        /\ pc' = [pc EXCEPT ![a] = "done"]
    BY <1>4 DEF Release, OwnerHasFile, Owning
  <2>2. Phase[a] # "ended"
    BY <1>4, <2>1 DEF Release
  <2>3. Phase' = [Phase EXCEPT ![a] = "ended"]
    BY <2>1
  <2>. QED
    BY <2>2, <2>3 DEF Mutex!End
<1>5. ASSUME NEW a \in Attempt, UnlinkDead(a) PROVE Phase' = Phase
  BY <1>5 DEF UnlinkDead, StillThere, Judged, Armed
<1>6. ASSUME NEW p \in Process, Crash(p) PROVE Mutex!Crash(p)
  BY <1>6 DEF Crash, Mutex!Crash
<1>7. ASSUME NEW a \in Attempt,
             \/ Publish(a) \/ Scan(a) \/ ClearLink(a) \/ ClearDone(a)
             \/ Unpublish(a) \/ Inspect(a) \/ Claim(a)
      PROVE  Phase' = Phase
  BY <1>7 DEF Publish, Scan, ClearLink, ClearDone, Unpublish, Inspect, Claim
<1>8. ASSUME NEW a \in Attempt,
             \/ StatClaim(a) \/ OpenCurrent(a) \/ StatCurrent(a)
             \/ Unclaim(a) \/ Retry(a)
      PROVE  Phase' = Phase
  BY <1>8 DEF StatClaim, OpenCurrent, StatCurrent, Unclaim, Retry
<1>9. CASE UNCHANGED vars
  BY <1>9 DEF vars
<1>10. CASE Next
  BY <1>1, <1>2, <1>3, <1>4, <1>5, <1>6, <1>7, <1>8, <1>10 DEF Next, Step, Mutex!Next
<1>. QED
  BY <1>9, <1>10

(* The hard-link protocol implements the abstract mutex.                    *)
THEOREM Refinement == Spec => ImplementsMutex
<1>1. Init => Mutex!Init
  BY LockAssumption DEF Init, Mutex!Init, Phase, Alive, LockAssumption
<1>. QED
  BY <1>1, MutexStep, LockInvariance, PTL DEF Spec, ImplementsMutex, Mutex!Spec

(***************************************************************************)
(* The readers.                                                              *)
(***************************************************************************)
(* One of two members is not among those of which there is at most one.       *)
LEMMA OneHonest ==
    ASSUME NEW S, IsFiniteSet(S), Cardinality(S) >= 2,
           NEW D, \A r, s \in D : r = s
    PROVE  S \ D # {}
<1>1. S # {} /\ Cardinality(S) # 1
  BY FS_EmptySet, FS_CardinalityType
<1>2. PICK x \in S : TRUE
  BY <1>1
<1>3. S # {x}
  BY <1>1, FS_Singleton
<1>4. PICK y \in S : y # x
  BY <1>2, <1>3
<1> QED
  BY <1>2, <1>4

-----------------------------------------------------------------------------
(* The endpoint that getProvider hands out *)

LEMMA ModRange ==
    ASSUME NEW x \in Nat, NEW N \in Nat \ {0}
    PROVE  x % N \in 0 .. N - 1
OBVIOUS

LEMMA ModOnce ==
    ASSUME NEW N \in Nat \ {0}, NEW x \in 0 .. N - 1
    PROVE  x % N = x /\ (x + N) % N = x
OBVIOUS

(* Counting on from c one comes to r. *)
LEMMA AroundTheRing ==
    ASSUME NEW N \in Nat \ {0}, NEW c \in 0 .. N - 1, NEW r \in 0 .. N - 1
    PROVE  \E k \in 0 .. N - 1 : (c + k) % N = r
<1>1. CASE c <= r
  <2>1. r - c \in 0 .. N - 1 /\ c + (r - c) = r
    BY <1>1
  <2>2. (c + (r - c)) % N = r
    BY <2>1, ModOnce
  <2> QED
    BY <2>1, <2>2
<1>2. CASE r < c
  <2>1. N - c + r \in 0 .. N - 1 /\ c + (N - c + r) = r + N
    BY <1>2
  <2>2. (c + (N - c + r)) % N = r
    BY <2>1, ModOnce
  <2> QED
    BY <2>1, <2>2
<1> QED
  BY <1>1, <1>2

(* Its search ends at a healthy endpoint if there is one. *)
LEMMA NextIsHealthy ==
    ASSUME RpcTypeOK, AnyHealthy
    PROVE  NextHealthy \in Rpc /\ healthy[NextHealthy]
<1> USE RpcAssumption DEF Rpc
<1> DEFINE at(k) == (current + k) % Size
           H == {k \in 0 .. Size - 1 : healthy[at(k)]}
<1>1. current \in 0 .. Size - 1 /\ Size \in Nat \ {0}
  BY DEF RpcTypeOK
<1>2. H # {}
  <2>1. PICK r \in 0 .. Size - 1 : healthy[r]
    BY DEF AnyHealthy
  <2>2. PICK k \in 0 .. Size - 1 : (current + k) % Size = r
    BY <1>1, AroundTheRing
  <2> QED
    BY <2>1, <2>2
<1>3. PICK k \in H : \A j \in H : k <= j
  <2>1. H \in SUBSET Nat
    BY <1>1
  <2> QED
    BY <1>2, <2>1, LeastNat
<1>4. k \in 0 .. Size - 1 /\ healthy[at(k)]
  BY <1>3
<1>5. \A j \in 0 .. k - 1 : ~healthy[at(j)]
  <2>1. SUFFICES ASSUME NEW j \in 0 .. k - 1, healthy[at(j)] PROVE FALSE
    OBVIOUS
  <2>2. j \in 0 .. Size - 1 /\ ~(k <= j)
    BY <1>1, <1>4
  <2> HIDE DEF at
  <2>3. j \in H
    BY <2>1, <2>2
  <2> QED
    BY <2>2, <2>3, <1>3
<1> DEFINE Least(i) == healthy[at(i)] /\ \A j \in 0 .. i - 1 : ~healthy[at(j)]
           found == CHOOSE i \in 0 .. Size - 1 : Least(i)
<1>6. found \in 0 .. Size - 1 /\ Least(found)
  <2>1. \E i \in 0 .. Size - 1 : Least(i)
    BY <1>4, <1>5
  <2> HIDE DEF Least
  <2> QED
    BY <2>1
<1>7. NextHealthy = at(found)
  BY DEF NextHealthy
<1>8. at(found) \in 0 .. Size - 1
  <2>1. current + found \in Nat
    BY <1>1, <1>6
  <2> QED
    BY <2>1, <1>1, ModRange
<1>9. healthy[at(found)]
  BY <1>6
<1> QED
  BY <1>7, <1>8, <1>9, Zenon

LEMMA FirstIsMember ==
    ASSUME NEW S \in SUBSET Rpc, S # {}
    PROVE  First(S) \in S
<1>1. S \in SUBSET Nat
  BY RpcAssumption DEF Rpc
<1>2. \E m \in S : \A s \in S : m <= s
  BY <1>1, LeastNat
<1> QED
  BY <1>2 DEF First

LEMMA ProviderGiven ==
    ASSUME RpcTypeOK, Matching # {}
    PROVE  /\ Provider \in Rpc
           /\ AnyHealthy => healthy[Provider]
           /\ ~AnyHealthy => Provider \in Matching
<1>1. CASE AnyHealthy
  BY <1>1, NextIsHealthy DEF Provider
<1>2. CASE ~AnyHealthy
  BY <1>2, FirstIsMember DEF Provider, Matching
<1> QED
  BY <1>1, <1>2

LEMMA AfterTypes ==
    ASSUME RpcTypeOK
    PROVE  AfterReset \in [Rpc -> BOOLEAN] /\ IndexAfter \in Rpc
<1>1. AfterReset \in [Rpc -> BOOLEAN]
  BY DEF AfterReset, RpcTypeOK, Matching
<1>2. IndexAfter \in Rpc
  <2>1. CASE AnyHealthy
    BY <2>1, NextIsHealthy DEF IndexAfter
  <2>2. CASE ~AnyHealthy
    BY <2>2, RpcAssumption DEF IndexAfter, Rpc
  <2> QED
    BY <2>1, <2>2
<1> QED
  BY <1>1, <1>2

-----------------------------------------------------------------------------
(* RpcPool: the invariant *)

LEMMA Learning ==
    ASSUME RpcTypeOK, ChainsTold
    PROVE  \A r \in Rpc :
              /\ Authenticated(r) \in {"unknown", "verified", "mismatch"}
              /\ Authenticated(r) = "verified" => r \in Right
              /\ Authenticated(r) = "mismatch" => r \in Wrong
              /\ r \in up => Authenticated(r) \in {"verified", "mismatch"}
              /\ r \notin up => Authenticated(r) = auth[r]
BY DEF RpcTypeOK, ChainsTold, Authenticated, Right

LEMMA RpcInit == PoolInit => RpcInv
<1> SUFFICES ASSUME PoolInit PROVE RpcInv
  OBVIOUS
<1>1. 0 \in Rpc
  BY RpcAssumption DEF Rpc
<1>2. RpcTypeOK
  BY <1>1 DEF PoolInit, RpcTypeOK, Answers
<1>3. ChainsTold /\ FlagsLeft
  BY DEF PoolInit, ChainsTold, FlagsLeft
<1> QED
  BY <1>2, <1>3 DEF RpcInv

LEMMA VerifyTypes ==
    ASSUME RpcInv, VerifyProviderChains
    PROVE  RpcTypeOK' /\ ChainsTold'
<1>1. RpcTypeOK /\ ChainsTold
  BY DEF RpcInv
<1>2. ChainsTold' /\ auth' \in [Rpc -> {"unknown", "verified", "mismatch"}]
  BY <1>1, Learning DEF VerifyProviderChains, RpcTypeOK, ChainsTold
<1>3. healthy' \in [Rpc -> BOOLEAN]
  BY DEF VerifyProviderChains
<1> QED
  BY <1>1, <1>2, <1>3 DEF VerifyProviderChains, RpcTypeOK

LEMMA ReadAllTypes ==
    ASSUME RpcInv, ReadAllEntries
    PROVE  RpcTypeOK' /\ ChainsTold'
<1> DEFINE now == [r \in Rpc |-> Authenticated(r)]
           entries == {r \in Rpc : now[r] = "verified"}
<1>1. RpcTypeOK /\ ChainsTold
  BY DEF RpcInv
<1>2. ChainsTold' /\ auth' \in [Rpc -> {"unknown", "verified", "mismatch"}]
  BY <1>1, Learning DEF ReadAllEntries, RpcTypeOK, ChainsTold
<1>3. healthy' \in [Rpc -> BOOLEAN]
  BY <1>1 DEF ReadAllEntries, RpcTypeOK
<1>4. entries \subseteq Right
  BY <1>1, Learning
<1>5. ASSUME NEW A \in SUBSET (entries \cap up), ConsensusRead(A) PROVE answer' \in Answers
  <2>1. A \in SUBSET Right /\ A \ Lying # {}
    BY <1>4, <1>5, RpcAssumption DEF ConsensusRead
  <2> QED
    BY <1>5, <2>1 DEF ConsensusRead, Answers
<1>6. answer' \in Answers
  BY <1>1, <1>5 DEF ReadAllEntries, RpcTypeOK
<1> QED
  BY <1>1, <1>2, <1>3, <1>6 DEF ReadAllEntries, RpcTypeOK

LEMMA SucceedsTypes ==
    ASSUME RpcInv, AttemptSucceeds
    PROVE  RpcTypeOK' /\ ChainsTold'
<1>1. RpcTypeOK /\ ChainsTold
  BY DEF RpcInv
<1>2. Provider \in Right
  BY <1>1, Learning DEF AttemptSucceeds, RpcTypeOK
<1>3. Provider \in Rpc
  BY <1>2 DEF Right
<1>4. ChainsTold' /\ auth' \in [Rpc -> {"unknown", "verified", "mismatch"}]
  <2> DEFINE P == Provider
  <2>1. P \in Right /\ P \in Rpc /\ auth' = [auth EXCEPT ![P] = "verified"]
    BY <1>2, <1>3 DEF AttemptSucceeds
  <2> HIDE DEF P
  <2> QED
    BY <2>1, <1>1 DEF RpcTypeOK, ChainsTold
<1>5. healthy' \in [Rpc -> BOOLEAN] /\ current' \in Rpc
  BY <1>1, AfterTypes DEF AttemptSucceeds
<1>6. answer' \in Answers
  BY <1>2 DEF AttemptSucceeds, Returns, Answers
<1> QED
  BY <1>1, <1>4, <1>5, <1>6 DEF AttemptSucceeds, Ends, RpcTypeOK

LEMMA FailureTypes ==
    ASSUME RpcInv, AttemptOnWrongChain \/ AttemptFails
    PROVE  RpcTypeOK' /\ ChainsTold'
<1> DEFINE P == Provider
<1>1. RpcTypeOK /\ ChainsTold /\ FlagsLeft
  BY DEF RpcInv
<1>2. P \in Rpc
  BY <1>1, ProviderGiven DEF AttemptOnWrongChain, AttemptFails
<1>3. AfterReset \in [Rpc -> BOOLEAN] /\ IndexAfter \in Rpc
  BY <1>1, AfterTypes
<1>4. (P + 1) % Size \in Rpc
  BY <1>2, RpcAssumption, ModRange DEF Rpc
<1>5. healthy' = [AfterReset EXCEPT ![P] = FALSE] /\ current' \in Rpc
  BY <1>3, <1>4 DEF AttemptOnWrongChain, AttemptFails, MarkUnhealthy
<1>6. auth' = auth \/ (auth' = [auth EXCEPT ![P] = "mismatch"] /\ P \in Wrong)
  BY <1>1, <1>2, Learning DEF AttemptOnWrongChain, AttemptFails
<1>7. left' \in Nat /\ failures' \in 0 .. 2 /\ UNCHANGED <<up, answer>>
  <2>1. left \in Nat /\ left > 0 /\ OneLess
    BY <1>1 DEF AttemptOnWrongChain, AttemptFails, RpcTypeOK
  <2>2. failures \in 0 .. 1
    BY <2>1, <1>1 DEF FlagsLeft, RpcTypeOK
  <2> QED
    BY <2>1, <2>2 DEF OneLess
<1> HIDE DEF P
<1>8. ChainsTold' /\ auth' \in [Rpc -> {"unknown", "verified", "mismatch"}]
  BY <1>1, <1>2, <1>6 DEF RpcTypeOK, ChainsTold, Right
<1>9. healthy' \in [Rpc -> BOOLEAN]
  BY <1>3, <1>5
<1> QED
  BY <1>1, <1>5, <1>7, <1>8, <1>9 DEF RpcTypeOK

LEMMA OtherTypes ==
    ASSUME RpcInv, ReadBegins \/ PublicRead \/ Environment \/ UNCHANGED poolVars
    PROVE  RpcTypeOK' /\ ChainsTold'
<1>1. RpcTypeOK /\ ChainsTold
  BY DEF RpcInv
<1>2. UNCHANGED <<healthy, auth, current>>
  BY DEF ReadBegins, PublicRead, Environment, pool, poolVars
<1>3. ChainsTold'
  BY <1>1, <1>2 DEF ChainsTold
<1>4. CASE ReadBegins
  <2>1. left' \in Nat /\ failures' \in 0 .. 2
    BY <1>1, <1>4, RpcAssumption DEF ReadBegins, RpcTypeOK
  <2> QED
    BY <1>1, <1>2, <1>3, <1>4, <2>1 DEF ReadBegins, RpcTypeOK
<1>5. CASE PublicRead
  <2>1. up \cap Right \in SUBSET Rpc
    BY DEF Right
  <2>2. First(up \cap Right) \in Right
    BY <2>1, <1>5, FirstIsMember DEF PublicRead
  <2>3. answer' \in Answers
    BY <2>2, <1>5 DEF PublicRead, Returns, Answers
  <2> QED
    BY <1>1, <1>2, <1>3, <1>5, <2>3 DEF PublicRead, RpcTypeOK
<1>6. CASE Environment
  BY <1>1, <1>2, <1>3, <1>6 DEF Environment, Goes, Comes, RpcTypeOK
<1>7. CASE UNCHANGED poolVars
  BY <1>1, <1>2, <1>3, <1>7 DEF poolVars, RpcTypeOK
<1> QED
  BY <1>4, <1>5, <1>6, <1>7

-----------------------------------------------------------------------------
(* RpcPool: how many flags are left *)

LEMMA RpcFinite ==
    /\ IsFiniteSet(Rpc) /\ Cardinality(Rpc) = Size
    /\ \A S \in SUBSET Rpc : /\ IsFiniteSet(S) /\ Cardinality(S) \in 0 .. Size
                             /\ S # Rpc => Cardinality(S) < Size
<1>1. IsFiniteSet(Rpc) /\ Cardinality(Rpc) = Size
  BY RpcAssumption, FS_Interval DEF Rpc
<1>2. ASSUME NEW S \in SUBSET Rpc
      PROVE  /\ IsFiniteSet(S) /\ Cardinality(S) \in 0 .. Size
             /\ S # Rpc => Cardinality(S) < Size
  <2>1. IsFiniteSet(S) /\ Cardinality(S) <= Size /\ (Cardinality(S) = Size => S = Rpc)
    BY <1>1, FS_Subset
  <2>2. Cardinality(S) \in Nat
    BY <2>1, FS_CardinalityType
  <2> QED
    BY <2>1, <2>2, RpcAssumption
<1> QED
  BY <1>1, <1>2

LEMMA BeginsFlags ==
    ASSUME RpcInv, ReadBegins
    PROVE  FlagsLeft'
<1>1. RpcTypeOK /\ FlagsLeft
  BY DEF RpcInv
<1>2. UNCHANGED <<healthy, up, HealthyOnes>>
  BY DEF ReadBegins, pool, HealthyOnes
<1>3. left' \in Nat /\ left' >= Size /\ left' > 0
  BY RpcAssumption DEF ReadBegins
<1>4. Cardinality(HealthyOnes) \in 0 .. Size
  BY RpcFinite DEF HealthyOnes
<1>5. CASE failures = 1
  <2>1. failures' = 1 /\ served' = served
    BY <1>5 DEF ReadBegins
  <2>2. Cardinality(HealthyOnes) <= left'
    BY <1>3, <1>4, RpcAssumption
  <2> QED
    BY <1>1, <1>2, <1>5, <2>1, <2>2 DEF FlagsLeft, Right
<1>6. CASE failures # 1
  <2>1. failures' = 0 /\ served' = up \cap Right
    BY <1>1, <1>6 DEF ReadBegins, RpcTypeOK
  <2>2. ASSUME NEW r \in served', ~healthy[r]
        PROVE  Cardinality(HealthyOnes) < left'
    <3>1. r \in Rpc /\ HealthyOnes \in SUBSET Rpc /\ HealthyOnes # Rpc
      BY <2>1, <2>2 DEF Right, HealthyOnes
    <3> QED
      BY <3>1, <1>3, <1>4, RpcFinite, RpcAssumption
  <2>3. \A r \in served' : healthy'[r] \/ Cardinality(HealthyOnes') < left'
    BY <2>2, <1>2
  <2> QED
    BY <1>2, <2>1, <2>3 DEF FlagsLeft, Right
<1> QED
  BY <1>5, <1>6

(* An attempt that fails takes a flag, and never that of a served endpoint.   *)
LEMMA FailureFlags ==
    ASSUME RpcInv, AttemptOnWrongChain \/ AttemptFails
    PROVE  FlagsLeft'
<1> DEFINE P == Provider
<1>1. RpcTypeOK /\ ChainsTold /\ FlagsLeft
  BY DEF RpcInv
<1>2. /\ P \in Rpc /\ (AnyHealthy => healthy[P])
      /\ left \in Nat /\ left > 0 /\ OneLess
  BY <1>1, ProviderGiven DEF AttemptOnWrongChain, AttemptFails, RpcTypeOK
<1>3. healthy' = [AfterReset EXCEPT ![P] = FALSE]
  BY DEF AttemptOnWrongChain, AttemptFails, MarkUnhealthy
<1>4. P \notin served
  <2>1. CASE AttemptFails
    BY <1>1, <2>1 DEF AttemptFails, FlagsLeft
  <2>2. CASE AttemptOnWrongChain
    <3>1. P \in Wrong
      BY <1>1, <1>2, <2>2, Learning DEF AttemptOnWrongChain
    <3> QED
      BY <1>1, <3>1 DEF FlagsLeft, Right
  <2> QED
    BY <2>1, <2>2
<1>5. UNCHANGED <<up, served>>
  BY <1>2 DEF OneLess
<1>6. failures \in 0 .. 1
  BY <1>1, <1>2 DEF FlagsLeft, RpcTypeOK
<1> DEFINE N == Cardinality(HealthyOnes)
<1>7. N \in Nat /\ N <= Size /\ IsFiniteSet(HealthyOnes)
  BY RpcFinite DEF HealthyOnes
<1>8. AfterReset \in [Rpc -> BOOLEAN]
  BY <1>1, AfterTypes
<1> HIDE DEF P, N
<1>9. CASE AnyHealthy
  <2>1. AfterReset = healthy
    BY <1>9 DEF AfterReset
  <2>2. HealthyOnes' = HealthyOnes \ {P} /\ P \in HealthyOnes
    BY <1>1, <1>2, <1>3, <1>9, <2>1 DEF HealthyOnes, RpcTypeOK
  <2>3. Cardinality(HealthyOnes') = N - 1
    BY <2>2, <1>7, FS_RemoveElement DEF N
  <2>4. \A r \in served : r \in Rpc /\ healthy'[r] = healthy[r]
    BY <1>1, <1>3, <1>4, <2>1 DEF FlagsLeft, RpcTypeOK, Right
  <2>5. CASE failures = 0 /\ left > 1
    <3>1. failures' = 0 /\ left' = left - 1
      BY <1>2, <2>5 DEF OneLess
    <3>2. \A r \in served : healthy'[r] \/ N - 1 < left - 1
      BY <1>1, <1>2, <1>7, <2>4, <2>5 DEF FlagsLeft, N
    <3> QED
      BY <1>1, <1>5, <2>3, <3>1, <3>2 DEF FlagsLeft, Right
  <2>6. CASE failures = 0 /\ left = 1
    <3>1. failures' = 1 /\ left' = 0
      BY <2>6, <1>2 DEF OneLess
    <3>2. N >= 1
      BY <2>2, <1>7, FS_EmptySet DEF N
    <3>3. \A r \in served : healthy'[r]
      BY <1>1, <1>2, <1>7, <2>4, <2>6, <3>2 DEF FlagsLeft, N
    <3> QED
      BY <1>1, <1>5, <3>1, <3>3 DEF FlagsLeft, Right
  <2>7. CASE failures = 1 /\ left > 1
    <3>1. failures' = 1 /\ left' = left - 1
      BY <1>2, <2>7 DEF OneLess
    <3>2. /\ \A r \in served : healthy'[r]
          /\ served # {} => N - 1 <= left - 1
      BY <1>1, <1>2, <1>7, <2>4, <2>7 DEF FlagsLeft, N
    <3> QED
      BY <1>1, <1>5, <2>3, <3>1, <3>2 DEF FlagsLeft, Right
  <2>8. CASE failures = 1 /\ left = 1
    <3>1. failures' = 2 /\ left' = 0
      BY <2>8, <1>2 DEF OneLess
    <3>2. served = {}
      <4>1. SUFFICES ASSUME NEW r \in served PROVE FALSE
        OBVIOUS
      <4>2. r \in HealthyOnes /\ r # P /\ N <= 1
        BY <1>1, <1>4, <2>4, <2>8 DEF FlagsLeft, HealthyOnes, N
      <4>3. Cardinality(HealthyOnes \ {P}) = 0
        BY <2>2, <2>3, <4>2, <1>7, FS_RemoveElement, FS_CardinalityType
      <4>4. HealthyOnes \ {P} = {}
        BY <4>3, <1>7, FS_RemoveElement, FS_EmptySet
      <4> QED
        BY <4>2, <4>4
    <3> QED
      BY <1>5, <3>1, <3>2 DEF FlagsLeft
  <2> QED
    BY <1>2, <1>6, <2>5, <2>6, <2>7, <2>8
<1>10. CASE ~AnyHealthy
  <2>1. \A r \in served : r \in Rpc /\ AfterReset[r] /\ ~healthy[r]
    BY <1>1, <1>10 DEF AfterReset, AnyHealthy, Matching, FlagsLeft, ChainsTold, Right
  <2>2. \A r \in served : healthy'[r]
    BY <1>3, <1>4, <1>8, <2>1
  <2>3. failures = 1 => served = {}
    BY <1>1, <2>1 DEF FlagsLeft
  <2>4. failures = 0 => failures' \in {0, 1} /\ (failures' = 1 => left' = 0)
    BY <1>2 DEF OneLess
  <2>5. failures = 1 => failures' \in {1, 2} /\ (failures' = 2 => left' = 0)
    BY <1>2 DEF OneLess
  <2> QED
    BY <1>1, <1>5, <1>6, <2>2, <2>3, <2>4, <2>5 DEF FlagsLeft, Right
<1> QED
  BY <1>9, <1>10

(* Between the calls a served endpoint keeps its flag. *)
LEMMA OtherFlags ==
    ASSUME RpcInv,
           \/ VerifyProviderChains \/ ReadAllEntries \/ AttemptSucceeds
           \/ PublicRead \/ Environment \/ UNCHANGED poolVars
    PROVE  FlagsLeft'
<1>1. RpcTypeOK /\ ChainsTold /\ FlagsLeft
  BY DEF RpcInv
<1>2. CASE VerifyProviderChains
  <2>1. \A r \in served : r \in Rpc /\ healthy'[r]
    BY <1>1, <1>2 DEF VerifyProviderChains, FlagsLeft, Right
  <2> QED
    BY <1>1, <1>2, <2>1 DEF VerifyProviderChains, Idle, FlagsLeft, Right
<1>3. CASE ReadAllEntries
  <2>1. \A r \in served : r \in Rpc /\ Authenticated(r) = "verified"
    BY <1>1 DEF FlagsLeft, Right, Authenticated
  <2>2. \A r \in served : healthy'[r] \/ healthy'[r] = healthy[r]
    BY <1>3, <2>1 DEF ReadAllEntries
  <2> QED
    BY <1>1, <1>3, <2>2 DEF ReadAllEntries, Idle, FlagsLeft, Right
<1>4. CASE AttemptSucceeds
  BY <1>1, <1>4 DEF AttemptSucceeds, Ends, FlagsLeft, Right
<1>5. CASE PublicRead
  BY <1>1, <1>5 DEF PublicRead, pool, Idle, FlagsLeft, HealthyOnes, Right
<1>6. CASE Environment
  <2>1. served' = served \cap up' /\ UNCHANGED <<healthy, left, failures, HealthyOnes>>
    BY <1>6 DEF Environment, pool, HealthyOnes
  <2> QED
    BY <1>1, <2>1 DEF FlagsLeft, Right
<1>7. CASE UNCHANGED poolVars
  <2>1. UNCHANGED <<healthy, up, left, failures, served, HealthyOnes>>
    BY <1>7 DEF poolVars, pool, HealthyOnes
  <2> QED
    BY <1>1, <2>1 DEF FlagsLeft, Right
<1> QED
  BY <1>2, <1>3, <1>4, <1>5, <1>6, <1>7

(* The invariant of the pool: the types, what its flags have learnt of the    *)
(* chains, and how many healthy flags a call that fails can still take.       *)
THEOREM RpcInvariance == PoolSpec => []RpcInv
<1>1. ASSUME RpcInv, [PoolNext]_poolVars PROVE RpcInv'
  <2> USE <1>1
  <2>1. CASE VerifyProviderChains
    BY <2>1, VerifyTypes, OtherFlags DEF RpcInv
  <2>2. CASE ReadBegins
    BY <2>2, OtherTypes, BeginsFlags DEF RpcInv
  <2>3. CASE AttemptSucceeds
    BY <2>3, SucceedsTypes, OtherFlags DEF RpcInv
  <2>4. CASE AttemptOnWrongChain \/ AttemptFails
    BY <2>4, FailureTypes, FailureFlags DEF RpcInv
  <2>5. CASE PublicRead \/ Environment \/ UNCHANGED poolVars
    BY <2>5, OtherTypes, OtherFlags DEF RpcInv
  <2>6. CASE ReadAllEntries
    BY <2>6, ReadAllTypes, OtherFlags DEF RpcInv
  <2> QED
    BY <2>1, <2>2, <2>3, <2>4, <2>5, <2>6 DEF PoolNext
<1> QED
  BY <1>1, RpcInit, PTL DEF PoolSpec

(* TrustedSource: no answer ever comes from another chain, whatever retries   *)
(* and resets have done to the flags (RPCPool.getProvider, executeWithRetry), *)
(* and an answer of executeConsensusRead has an honest source.               *)
THEOREM NoForeignAnswer == PoolSpec => []TrustedSource
<1>1. RpcInv => TrustedSource
  BY DEF RpcInv, RpcTypeOK, Answers, None, TrustedSource, Right
<1> QED
  BY <1>1, RpcInvariance, PTL

(* ReadRecovers: two calls of executeWithRetry in a row never both fail       *)
(* beside an endpoint that answered throughout.                             *)
THEOREM WorkingFound == PoolSpec => []ReadRecovers
<1>1. RpcInv => ReadRecovers
  BY DEF RpcInv, FlagsLeft, ReadRecovers
<1> QED
  BY <1>1, RpcInvariance, PTL

-----------------------------------------------------------------------------
(* FeeConsensus: order statistics of the quotes *)

Numeric(q) == q \in [Quoter -> Nat \cup {Mute}]
Below(q, v) == {r \in Quoted(q) : q[r] < v}
UpTo(q, v) == {r \in Quoted(q) : q[r] <= v}

LEMMA QuotersFinite ==
    ASSUME NEW q, NEW v, Numeric(q)
    PROVE  /\ IsFiniteSet(Quoted(q)) /\ Cardinality(Quoted(q)) \in Nat
           /\ IsFiniteSet(Below(q, v)) /\ Cardinality(Below(q, v)) \in Nat
           /\ IsFiniteSet(UpTo(q, v)) /\ Cardinality(UpTo(q, v)) \in Nat
           /\ \A r \in Quoted(q) : q[r] \in Nat
<1>1. Quoted(q) \subseteq Quoter /\ Below(q, v) \subseteq Quoter /\ UpTo(q, v) \subseteq Quoter
  BY DEF Quoted, Below, UpTo
<1>2. \A S \in SUBSET Quoter : IsFiniteSet(S) /\ Cardinality(S) \in Nat
  BY FeeAssumption, FS_Subset, FS_CardinalityType
<1>3. \A r \in Quoted(q) : q[r] \in Nat
  BY DEF Quoted, Numeric
<1> QED
  BY <1>1, <1>2, <1>3

(* A finite set of endpoints with numbers has one with the greatest number.   *)
LEMMA GreatestQuote ==
    ASSUME NEW q, Numeric(q), NEW S \in SUBSET Quoted(q), S # {}
    PROVE  \E m \in S : \A s \in S : q[s] <= q[m]
<1> DEFINE f == [s \in S |-> q[s]]
           V == {q[s] : s \in S}
<1>1. IsFiniteSet(S)
  BY QuotersFinite, FS_Subset
<1>2. f \in Surjection(S, V)
  BY DEF Surjection
<1>3. IsFiniteSet(V)
  BY <1>1, <1>2, FS_Surjection
<1>4. V \in SUBSET Nat /\ V # {}
  BY QuotersFinite
<1>5. PICK v \in V : \A u \in V : u <= v
  BY <1>3, <1>4, GreatestNat
<1> QED
  BY <1>5

(* The sorted array of n quotes has an element at each position k < n.        *)
LEMMA NthIsThere ==
    ASSUME NEW q, Numeric(q), NEW k \in Nat, k < Cardinality(Quoted(q))
    PROVE  /\ Nth(q, k) \in {q[r] : r \in Quoted(q)}
           /\ Nth(q, k) \in Nat
           /\ Cardinality(Below(q, Nth(q, k))) <= k
           /\ Cardinality(UpTo(q, Nth(q, k))) > k
<1> DEFINE V == {q[r] : r \in Quoted(q)}
           T == {v \in V : Cardinality(UpTo(q, v)) > k}
           IsRank(v) == /\ Cardinality({r \in Quoted(q) : q[r] < v}) <= k
                         /\ Cardinality({r \in Quoted(q) : q[r] <= v}) > k
<1>1. V \in SUBSET Nat
  BY QuotersFinite
<1>2. T # {}
  <2>1. Quoted(q) # {}
    BY FS_EmptySet
  <2>2. PICK m \in Quoted(q) : \A s \in Quoted(q) : q[s] <= q[m]
    BY <2>1, GreatestQuote
  <2>3. UpTo(q, q[m]) = Quoted(q)
    BY <2>2 DEF UpTo
  <2> QED
    BY <2>2, <2>3
<1>3. PICK v \in T : \A u \in T : v <= u
  <2>1. T \in SUBSET Nat
    BY <1>1
  <2> HIDE DEF T
  <2> QED
    BY <2>1, <1>2, LeastNat
<1>4. Cardinality(Below(q, v)) <= k
  <2>1. SUFFICES ASSUME ~(Cardinality(Below(q, v)) <= k) PROVE FALSE
    OBVIOUS
  <2>2. Cardinality(Below(q, v)) > k
    BY <2>1, QuotersFinite
  <2>3. Below(q, v) # {}
    BY <2>2, FS_EmptySet
  <2>4. Below(q, v) \in SUBSET Quoted(q)
    BY DEF Below
  <2>5. PICK m \in Below(q, v) : \A s \in Below(q, v) : q[s] <= q[m]
    BY <2>3, <2>4, GreatestQuote
  <2>6. v \in Nat /\ q[m] \in Nat /\ q[m] < v /\ \A r \in Quoted(q) : q[r] \in Nat
    BY <1>1, <1>3, <2>4, <2>5, QuotersFinite DEF Below
  <2>7. UpTo(q, q[m]) = Below(q, v)
    BY <2>5, <2>6 DEF UpTo, Below
  <2>8. q[m] \in T
    BY <2>2, <2>4, <2>5, <2>7
  <2>9. v <= q[m]
    BY <2>8, <1>3
  <2> QED
    BY <2>6, <2>9
<1>5. v \in V /\ IsRank(v)
  BY <1>3, <1>4 DEF Below, UpTo
<1> DEFINE found == CHOOSE x \in V : IsRank(x)
<1>6. found \in V /\ IsRank(found)
  <2> HIDE DEF V, IsRank
  <2> QED
    BY <1>5
<1>7. Nth(q, k) = found
  BY DEF Nth
<1>8. Nth(q, k) \in V /\ IsRank(Nth(q, k))
  BY <1>6, <1>7, Zenon
<1> QED
  BY <1>1, <1>8 DEF Below, UpTo

(* Of two endpoints one is trusty. *)
LEMMA OneTrusty ==
    ASSUME NEW S \in SUBSET Quoter, Cardinality(S) >= 2
    PROVE  \E r \in S : r \in Trusty
<1>1. IsFiniteSet(S)
  BY FeeAssumption, FS_Subset
<1>2. S \ Crooked # {}
  BY <1>1, FeeAssumption, OneHonest
<1> QED
  BY <1>2 DEF Trusty

(* A corroborated number has a trusty quote that is not above it, and one     *)
(* that it exceeds by a quarter at most.                                    *)
LEMMA CorroboratedBounds ==
    ASSUME NEW q, Numeric(q), Corroborated(q) # Mute
    PROVE  /\ Corroborated(q) \in Nat
           /\ \E lo, hi \in Quoted(q) \cap Trusty :
                 q[lo] <= Corroborated(q) /\ Corroborated(q) * 100 <= q[hi] * 125
<1> DEFINE n == Cardinality(Quoted(q))
           k == n \div 2
           v == Nth(q, k)
<1>1. n \in Nat /\ IsFiniteSet(Quoted(q)) /\ \A r \in Quoted(q) : q[r] \in Nat
  BY QuotersFinite
<1>2. n >= 2 /\ Corroborated(q) = v
  BY <1>1 DEF Corroborated
<1>3. k \in Nat /\ k >= 1 /\ k < n
  BY <1>1, <1>2
<1> HIDE DEF n, k
<1>4. v \in Nat /\ Cardinality(Below(q, v)) <= k /\ Cardinality(UpTo(q, v)) > k
  BY <1>1, <1>2, <1>3, NthIsThere DEF n
<1>5. Quoted(q) \subseteq Quoter
  BY DEF Quoted
<1>6. PICK lo \in Quoted(q) \cap Trusty : q[lo] <= v
  <2>1. Cardinality(UpTo(q, v)) >= 2
    BY <1>3, <1>4, QuotersFinite
  <2>2. UpTo(q, v) \in SUBSET Quoter
    BY <1>5 DEF UpTo
  <2>3. PICK r \in UpTo(q, v) : r \in Trusty
    BY <2>1, <2>2, OneTrusty
  <2> QED
    BY <2>3 DEF UpTo
<1>7. CASE n = 2
  <2> DEFINE w == Nth(q, 0)
  <2>1. k = 1 /\ v * 100 <= w * 125 /\ w \in Nat /\ Cardinality(Below(q, w)) <= 0
    <3>1. k = 1
      BY <1>7 DEF k
    <3>2. w \in Nat /\ Cardinality(Below(q, w)) <= 0
      BY <1>7, NthIsThere DEF n
    <3>3. ~(Nth(q, 1) * 100 > Nth(q, 0) * 125)
      BY <1>7 DEF Corroborated, n
    <3> QED
      BY <1>4, <3>1, <3>2, <3>3
  <2> HIDE DEF w
  <2>2. Below(q, w) = {}
    <3>1. Cardinality(Below(q, w)) = 0
      BY <2>1, QuotersFinite
    <3> QED
      BY <3>1, QuotersFinite, FS_EmptySet
  <2>3. PICK hi \in Quoted(q) : hi \in Trusty
    BY <1>5, <1>7, OneTrusty DEF n
  <2>4. q[hi] >= w /\ q[hi] \in Nat
    BY <1>1, <2>1, <2>2, <2>3 DEF Below
  <2>5. v * 100 <= q[hi] * 125
    BY <1>4, <2>1, <2>4
  <2> QED
    BY <1>2, <1>4, <1>6, <2>3, <2>5
<1>8. CASE n >= 3
  <2> DEFINE Above == Quoted(q) \ Below(q, v)
  <2>1. Cardinality(Above) >= 2
    <3>1. Quoted(q) = Below(q, v) \cup Above /\ Below(q, v) \cap Above = {}
      BY DEF Below
    <3>2. IsFiniteSet(Above) /\ Cardinality(Above) \in Nat
      BY <1>1, FS_Subset, FS_CardinalityType
    <3>3. n = Cardinality(Below(q, v)) + Cardinality(Above)
      <4>1. IsFiniteSet(Below(q, v)) /\ Cardinality(Below(q, v)) \in Nat
        BY QuotersFinite
      <4>2. Cardinality(Below(q, v) \cap Above) = 0
        BY <3>1, FS_EmptySet
      <4>3. Cardinality(Below(q, v) \cup Above)
              = Cardinality(Below(q, v)) + Cardinality(Above) - Cardinality(Below(q, v) \cap Above)
        BY <3>2, <4>1, FS_Union
      <4> HIDE DEF Above
      <4> QED
        BY <3>1, <3>2, <4>1, <4>2, <4>3 DEF n
    <3>4. n - k >= 2
      BY <1>1, <1>8 DEF k
    <3>5. Cardinality(Below(q, v)) \in Nat
      BY QuotersFinite
    <3> HIDE DEF Above
    <3> QED
      BY <1>1, <1>3, <1>4, <3>2, <3>3, <3>4, <3>5
  <2>2. PICK hi \in Above : hi \in Trusty
    BY <1>5, <2>1, OneTrusty
  <2>3. hi \in Quoted(q) /\ q[hi] \in Nat /\ q[hi] >= v
    BY <1>1, <1>4, <2>2 DEF Below
  <2>4. v * 100 <= q[hi] * 125
    BY <1>4, <2>3
  <2> QED
    BY <1>2, <1>4, <1>6, <2>2, <2>3, <2>4
<1> QED
  BY <1>1, <1>2, <1>7, <1>8

LEMMA QuotesNumeric ==
    ASSUME NEW honest \in SUBSET Nat, NEW q \in Quotes(honest)
    PROVE  Numeric(q) /\ \A r \in Quoted(q) \cap Trusty : q[r] \in honest
BY FeeAssumption DEF Quotes, Numeric, Quoted, Trusty

LEMMA MaxFeesNumeric ==
    ASSUME NEW p \in Quotes(HonestTips), NEW m \in MaxFees(p)
    PROVE  /\ Numeric(m) /\ Numeric(p)
           /\ \A r \in Quoted(m) \cap Trusty :
                 \E t \in HonestTips : m[r] = 2 * BaseFee + t
<1>1. HonestTips \subseteq Nat /\ AnyQuotes \subseteq Nat /\ BaseFee \in Nat
  BY FeeAssumption
<1>2. Numeric(p) /\ \A r \in Quoted(p) \cap Trusty : p[r] \in HonestTips
  BY <1>1, QuotesNumeric
<1>3. PICK any \in {2 * BaseFee + t : t \in HonestTips} \cup AnyQuotes \cup {Mute} :
          m = [r \in Quoter |-> IF r \notin Trusty THEN any
                                 ELSE IF p[r] = Mute THEN Mute ELSE 2 * BaseFee + p[r]]
  BY DEF MaxFees
<1>4. any \in Nat \cup {Mute}
  <2>1. ASSUME NEW t \in HonestTips PROVE 2 * BaseFee + t \in Nat
    <3>1. t \in Nat /\ BaseFee \in Nat
      BY <1>1
    <3> QED
      BY <3>1
  <2> QED
    BY <1>1, <1>3, <2>1
<1>5. \A r \in Quoter : r \in Trusty /\ p[r] # Mute => p[r] \in HonestTips
  BY <1>2 DEF Quoted
<1>6. ASSUME NEW r \in Quoter PROVE m[r] \in Nat \cup {Mute}
  <2>1. CASE p[r] = Mute /\ r \in Trusty
    BY <1>3, <2>1
  <2>2. CASE p[r] # Mute /\ r \in Trusty
    <3>1. p[r] \in Nat /\ m[r] = 2 * BaseFee + p[r]
      BY <1>1, <1>3, <1>5, <2>2
    <3> QED
      BY <1>1, <3>1
  <2>3. CASE r \notin Trusty
    BY <1>3, <1>4, <2>3
  <2> QED
    BY <2>1, <2>2, <2>3
<1>7. Numeric(m)
  BY <1>3, <1>6 DEF Numeric
<1>8. ASSUME NEW r \in Quoted(m) \cap Trusty
      PROVE  \E t \in HonestTips : m[r] = 2 * BaseFee + t
  <2>1. r \in Quoter /\ p[r] # Mute
    BY <1>3, <1>8 DEF Quoted
  <2> QED
    BY <2>1, <1>3, <1>5, <1>8
<1> QED
  BY <1>2, <1>7, <1>8

(* feeFromBaseFee stays below five times the base fee. *)
LEMMA BaseFeeBound ==
    ASSUME NEW p \in Nat \cup {Mute}
    PROVE  FromBaseFee(BaseFee, p).max <= 5 * BaseFee
<1>1. BaseFee \in Nat
  BY FeeAssumption
<1> DEFINE priority == IF p # Mute /\ p > 0 /\ p < BaseFee * 2 THEN p ELSE BaseFee * 2
<1>2. priority \in Nat /\ priority <= BaseFee * 2
  BY <1>1
<1>3. FromBaseFee(BaseFee, p).max = BaseFee * 3 + priority
  BY DEF FromBaseFee
<1> HIDE DEF priority
<1> QED
  BY <1>1, <1>2, <1>3

LEMMA GasBounded ==
    ASSUME FeeBounded, NEW q \in Quotes(HonestGas), NEW B, GasAttempt(q, B)
    PROVE  FeeBounded'
<1>1. CASE Corroborated(q) # Mute /\ GasIs(Corroborated(q), "quorum")
  <2>1. Numeric(q) /\ \A r \in Quoted(q) \cap Trusty : q[r] \in HonestGas
    BY FeeAssumption, QuotesNumeric
  <2>2. \E lo, hi \in Quoted(q) \cap Trusty :
           q[lo] <= Corroborated(q) /\ Corroborated(q) * 100 <= q[hi] * 125
    BY <1>1, <2>1, CorroboratedBounds
  <2>3. \E lo, hi \in HonestGas :
           lo <= Corroborated(q) /\ Corroborated(q) * 100 <= hi * 125
    BY <2>1, <2>2
  <2>4. gas'.amount = Corroborated(q) /\ fee' = fee
    BY <1>1 DEF GasAttempt, GasIs
  <2> QED
    BY <2>3, <2>4 DEF FeeBounded
<1>2. CASE \E v : GasIs(v, "survivor") \/ GasIs(v, "block")
  <2>1. gas'.by # "quorum" /\ fee' = fee
    BY <1>2 DEF GasAttempt, GasIs
  <2> QED
    BY <2>1 DEF FeeBounded
<1>3. CASE UNCHANGED <<gas, fee>>
  BY <1>3 DEF FeeBounded
<1> QED
  BY <1>1, <1>2, <1>3 DEF GasAttempt

LEMMA FeeReadBounded ==
    ASSUME FeeBounded, NEW p \in Quotes(HonestTips), NEW m \in MaxFees(p), NEW g \in GasPrices(p),
           FeeRead(m, p, g)
    PROVE  FeeBounded'
<1>1. /\ Numeric(m) /\ Numeric(p)
      /\ \A r \in Quoted(m) \cap Trusty : \E t \in HonestTips : m[r] = 2 * BaseFee + t
  BY MaxFeesNumeric
<1>2. Numeric(g) /\ \A r \in Quoted(g) \cap Trusty : g[r] \in HonestPrices
  BY FeeAssumption, QuotesNumeric DEF GasPrices
<1>3. gas' = gas
  BY DEF FeeRead
<1>4. CASE \E f : FeeIs(f, "survivor")
  <2>1. fee'.by = "survivor"
    BY <1>4 DEF FeeIs
  <2> QED
    BY <1>3, <2>1 DEF FeeBounded
<1>5. CASE /\ Corroborated(m) # Mute
           /\ FeeIs([max |-> Corroborated(m), priority |-> Corroborated(p)], "quorum")
  <2>1. \E hi \in Quoted(m) \cap Trusty : Corroborated(m) * 100 <= m[hi] * 125
    BY <1>1, <1>5, CorroboratedBounds
  <2>2. \E t \in HonestTips : Corroborated(m) * 100 <= (2 * BaseFee + t) * 125
    BY <1>1, <2>1
  <2>3. fee'.max = Corroborated(m) /\ fee'.by = "quorum"
    BY <1>5 DEF FeeIs
  <2> QED
    BY <1>3, <2>2, <2>3 DEF FeeBounded
<1>6. CASE /\ Corroborated(g) # Mute
           /\ FeeIs([max |-> Corroborated(g), priority |-> Corroborated(g)], "legacy")
  <2>1. \E hi \in Quoted(g) \cap Trusty : Corroborated(g) * 100 <= g[hi] * 125
    BY <1>2, <1>6, CorroboratedBounds
  <2>2. \E x \in HonestPrices : Corroborated(g) * 100 <= x * 125
    BY <1>2, <2>1
  <2>3. fee'.max = Corroborated(g) /\ fee'.by = "legacy"
    BY <1>6 DEF FeeIs
  <2> QED
    BY <1>3, <2>2, <2>3 DEF FeeBounded
<1>7. CASE \E r \in Quoter : FeeIs(FromBaseFee(BaseFee, p[r]), "block")
  <2>1. PICK r \in Quoter : FeeIs(FromBaseFee(BaseFee, p[r]), "block")
    BY <1>7
  <2>2. p[r] \in Nat \cup {Mute}
    BY <1>1, <2>1 DEF Numeric
  <2>3. fee'.max <= 5 * BaseFee /\ fee'.by = "block"
    BY <2>1, <2>2, BaseFeeBound DEF FeeIs
  <2> QED
    BY <1>3, <2>3 DEF FeeBounded
<1>8. ASSUME NEW silent \in SUBSET Crooked, NEW B \in SUBSET Quoter,
             NEW r \in MatchingBlock(B) \cap (Quoted(m) \cup Quoted(p) \cup Quoted(g) \cup silent)
      PROVE  r \in Quoter
  BY FeeAssumption, <1>8 DEF Quoted
<1> QED
  BY <1>4, <1>5, <1>6, <1>7, <1>8 DEF FeeRead

(* FeeBounded: corroborateNumbers never lets one endpoint, alone among two or *)
(* more that answer, raise the maximal fee, the legacy price or the gas limit *)
(* of a repair beyond the bounds (readFeeConsensus, readFeeDataConsensus).    *)
THEOREM OutlierBounded == FeeSpec => []FeeBounded
<1>1. FeeInit => FeeBounded
  BY DEF FeeInit, FeeBounded
<1>2. ASSUME FeeBounded, [FeeNext]_feeVars PROVE FeeBounded'
  <2> USE <1>2
  <2>1. ASSUME NEW q \in Quotes(HonestGas), NEW B \in SUBSET Quoter, GasAttempt(q, B)
        PROVE  FeeBounded'
    BY <2>1, GasBounded
  <2>2. ASSUME NEW p \in Quotes(HonestTips), NEW m \in MaxFees(p), NEW g \in GasPrices(p),
               FeeRead(m, p, g)
        PROVE  FeeBounded'
    BY <2>2, FeeReadBounded
  <2>3. CASE Refused \/ UNCHANGED feeVars
    BY <2>3 DEF Refused, feeVars, FeeBounded
  <2> QED
    BY <2>1, <2>2, <2>3 DEF FeeNext
<1> QED
  BY <1>1, <1>2, PTL DEF FeeSpec

-----------------------------------------------------------------------------
(* SnapshotRead: a block that was replaced never comes back *)

LEMMA ChainFacts ==
    ASSUME SnapshotInv
    PROVE  /\ ChainOK /\ KnownLags /\ HeadersLag /\ ValuesTell
           /\ Len(chain) \in Nat /\ chain \in Seq(Block) /\ forks \in Nat
           /\ \A i \in 1 .. Len(chain) : chain[i] \in Block /\ chain[i].fork \in Nat
           /\ \A r \in Source : /\ known[r] \in Seq(Block) /\ Len(known[r]) \in Nat
                                /\ \A i \in 1 .. Len(known[r]) :
                                      known[r][i] \in Block /\ known[r][i].fork \in Nat
<1> USE SnapshotAssumption
<1>1. ChainOK /\ KnownLags /\ HeadersLag /\ ValuesTell
  BY DEF SnapshotInv
<1>2. \A b \in Block : b.fork \in Nat
  BY DEF Block
<1>3. ASSUME NEW s \in Seq(Block), NEW i \in 1 .. Len(s) PROVE s[i] \in Block
  OBVIOUS
<1>4. chain \in Seq(Block) /\ forks \in Nat /\ \A r \in Source : known[r] \in Seq(Block)
  BY <1>1 DEF ChainOK, KnownLags
<1> QED
  BY <1>1, <1>2, <1>3, <1>4

LEMMA SnapshotStart == SnapshotInit => SnapshotInv
<1> SUFFICES ASSUME SnapshotInit PROVE SnapshotInv
  OBVIOUS
<1> DEFINE b == [height |-> 1, fork |-> 0, required |-> FALSE]
<1>1. b \in Block
  BY SnapshotAssumption DEF Block
<1>2. chain = <<b>> /\ chain \in Seq(Block) /\ Len(chain) = 1 /\ chain[1] = b
  BY <1>1 DEF SnapshotInit
<1>3. ChainOK
  BY <1>2, SnapshotAssumption DEF SnapshotInit, ChainOK
<1>4. KnownLags
  BY <1>2 DEF SnapshotInit, KnownLags, NowOrBefore
<1>5. /\ DOMAIN header = Source /\ DOMAIN value = Source
      /\ \A r \in Source : header[r] = Unknown /\ value[r] = Unknown
  BY DEF SnapshotInit, Nothing
<1>6. HeadersLag /\ ValuesTell
  BY <1>5 DEF HeadersLag, ValuesTell, Truthful
<1> QED
  BY <1>3, <1>4, <1>5, <1>6 DEF SnapshotInit, SnapshotInv

(* Grow and Replace: the chain goes on, its blocks stay or give way to later  *)
(* forks.                                                                    *)
LEMMA ChainMoves ==
    ASSUME SnapshotInv, Grow \/ Replace
    PROVE  /\ ChainOK'
           /\ Len(chain) <= Len(chain')
           /\ \A i \in 1 .. Len(chain) : NowOrBefore(chain[i], chain'[i])
<1>1. ChainOK /\ Len(chain) \in Nat /\ forks \in Nat /\ chain \in Seq(Block)
      /\ \A i \in 1 .. Len(chain) : chain[i] \in Block /\ chain[i].fork \in Nat
  BY ChainFacts
<1>2. CASE Grow
  <2>1. PICK v \in BOOLEAN :
           chain' = Append(chain, [height |-> Len(chain) + 1, fork |-> forks, required |-> v])
    BY <1>2 DEF Grow
  <2> DEFINE b == [height |-> Len(chain) + 1, fork |-> forks, required |-> v]
  <2>2. b \in Block
    BY <1>1, <1>2, SnapshotAssumption DEF Grow, Block, ChainOK
  <2>3. b.height = Len(chain) + 1 /\ b.fork = forks
    OBVIOUS
  <2>4. chain' = Append(chain, b)
    BY <2>1
  <2> HIDE DEF b
  <2>5. /\ chain' \in Seq(Block) /\ Len(chain') = Len(chain) + 1
        /\ \A i \in 1 .. Len(chain) : chain'[i] = chain[i]
        /\ chain'[Len(chain) + 1] = b
    BY <1>1, <2>2, <2>4
  <2>6. forks' = forks /\ Len(chain) < MaxHeight
    BY <1>2 DEF Grow
  <2>7. \A i \in 1 .. Len(chain') : chain'[i].height = i /\ chain'[i].fork <= forks
    BY <1>1, <2>3, <2>5 DEF ChainOK
  <2> QED
    BY <1>1, <2>5, <2>6, <2>7, SnapshotAssumption DEF ChainOK, NowOrBefore
<1>3. CASE Replace
  <2> DEFINE n == Len(chain)
  <2>1. PICK v \in BOOLEAN :
           chain' = [chain EXCEPT ![n].fork = forks + 1, ![n].required = v]
    BY <1>3 DEF Replace
  <2>2. n \in 1 .. Len(chain) /\ n \in Nat /\ n \in 1 .. MaxHeight
    BY <1>1 DEF ChainOK
  <2> DEFINE b == [chain[n] EXCEPT !.fork = forks + 1, !.required = v]
  <2>3. chain' = [chain EXCEPT ![n] = b]
    BY <1>1, <2>1, <2>2
  <2>4. chain[n] \in Block /\ chain[n].height = n /\ chain[n].fork <= forks
    BY <1>1, <2>2 DEF ChainOK
  <2>5. forks' = forks + 1 /\ forks + 1 \in 0 .. MaxForks
    BY <1>1, <1>3, SnapshotAssumption DEF Replace
  <2>6. b \in Block /\ b.height = n /\ b.fork = forks + 1
    BY <2>4, <2>5 DEF Block
  <2> HIDE DEF b, n
  <2>7. /\ chain' \in Seq(Block) /\ Len(chain') = Len(chain)
        /\ \A i \in 1 .. Len(chain) : chain'[i] = IF i = n THEN b ELSE chain[i]
    BY <1>1, <2>2, <2>3, <2>6
  <2>8. \A i \in 1 .. Len(chain') : chain'[i].height = i /\ chain'[i].fork <= forks + 1
    BY <1>1, <2>6, <2>7 DEF ChainOK
  <2>9. \A i \in 1 .. Len(chain) : NowOrBefore(chain[i], chain'[i])
    BY <1>1, <2>2, <2>4, <2>6, <2>7 DEF NowOrBefore
  <2> QED
    BY <1>1, <2>5, <2>7, <2>8, <2>9 DEF ChainOK
<1> QED
  BY <1>2, <1>3

LEMMA LagIsTransitive ==
    ASSUME NEW a, NEW b, NEW c, a.fork \in Int, b.fork \in Int, c.fork \in Int,
           NowOrBefore(a, b), NowOrBefore(b, c)
    PROVE  NowOrBefore(a, c)
BY DEF NowOrBefore

LEMMA ChainSteps ==
    ASSUME SnapshotInv, Grow \/ Replace
    PROVE  SnapshotInv'
<1>1. ChainOK' /\ KnownLags /\ Len(chain) \in Nat /\ Len(chain') \in Nat
  BY ChainFacts, ChainMoves DEF ChainOK
<1>2. UNCHANGED <<known, reader>> /\ Reading
  BY DEF Grow, Replace
<1>3. KnownLags'
  <2>1. SUFFICES ASSUME NEW r \in Source
        PROVE  /\ Len(known[r]) <= Len(chain')
               /\ \A i \in 1 .. Len(known[r]) :
                     known[r][i].height = i /\ NowOrBefore(known[r][i], chain'[i])
    BY <1>1, <1>2 DEF KnownLags
  <2>2. Len(known[r]) \in Nat /\ Len(known[r]) <= Len(chain') /\ Len(known[r]) <= Len(chain)
    BY <1>1, ChainFacts, ChainMoves DEF KnownLags
  <2>3. ASSUME NEW i \in 1 .. Len(known[r])
        PROVE  known[r][i].height = i /\ NowOrBefore(known[r][i], chain'[i])
    <3>1. i \in 1 .. Len(chain) /\ i \in 1 .. Len(chain')
      BY <1>1, <2>2, ChainMoves
    <3>2. NowOrBefore(chain[i], chain'[i])
      BY <3>1, ChainMoves
    <3>3. known[r][i].height = i /\ NowOrBefore(known[r][i], chain[i])
      BY <1>1 DEF KnownLags
    <3>4. known[r][i].fork \in Int /\ chain[i].fork \in Int
      BY <3>1, ChainFacts
    <3>5. chain'[i].fork \in Int
      <4>1. chain' \in Seq(Block)
        BY <1>1 DEF ChainOK
      <4>2. chain'[i] \in Block
        BY <3>1, <4>1
      <4> QED
        BY <4>2, SnapshotAssumption DEF Block
    <3> QED
      BY <3>2, <3>3, <3>4, <3>5, LagIsTransitive
  <2> QED
    BY <2>2, <2>3
<1>4. HeadersLag' /\ ValuesTell'
  <2>1. HeadersLag /\ ValuesTell
    BY DEF SnapshotInv
  <2> QED
    BY <1>2, <2>1 DEF HeadersLag, ValuesTell, Tag, reader
<1> QED
  BY <1>1, <1>2, <1>3, <1>4 DEF SnapshotInv, reader, Reading

LEMMA FollowStep ==
    ASSUME SnapshotInv, NEW q \in Truthful, Follow(q)
    PROVE  SnapshotInv'
<1>1. /\ ChainOK /\ KnownLags /\ HeadersLag /\ ValuesTell
      /\ Len(chain) \in Nat /\ chain \in Seq(Block)
      /\ \A i \in 1 .. Len(chain) : chain[i] \in Block /\ chain[i].fork \in Nat
  BY ChainFacts
<1>2. UNCHANGED <<chain, forks, reader>> /\ Reading
  BY DEF Follow
<1>3. q \in Source /\ DOMAIN known = Source
  BY <1>1 DEF Truthful, KnownLags
<1>4. \A r \in Source : known'[r] = IF r = q THEN chain ELSE known[r]
  BY <1>3 DEF Follow
<1>5. ChainOK'
  BY <1>1, <1>2 DEF ChainOK
<1>6. KnownLags'
  <2>1. known' \in [Source -> Seq(Block)]
    BY <1>1, <1>3 DEF Follow, KnownLags
  <2>2. ASSUME NEW r \in Source
        PROVE  /\ Len(known'[r]) <= Len(chain)
               /\ \A i \in 1 .. Len(known'[r]) :
                     known'[r][i].height = i /\ NowOrBefore(known'[r][i], chain[i])
    <3>1. CASE r = q
      BY <1>1, <1>4, <3>1 DEF ChainOK, NowOrBefore
    <3>2. CASE r # q
      BY <1>1, <1>4, <3>2 DEF KnownLags
    <3> QED
      BY <3>1, <3>2
  <2> QED
    BY <1>2, <2>1, <2>2 DEF KnownLags
<1>7. ASSUME NEW r \in Truthful, header[r] # Unknown
      PROVE  /\ stage \in {"value", "after"} /\ header[r] \in Block
             /\ Tag \in 1 .. Len(known'[r])
             /\ NowOrBefore(header[r], known'[r][Tag])
             /\ header[r] = known'[r][Tag] => header[r] = known[r][Tag]
  <2>1. /\ stage \in {"value", "after"} /\ header[r] \in Block
        /\ Tag \in 1 .. Len(known[r])
        /\ NowOrBefore(header[r], known[r][Tag])
    BY <1>1, <1>7 DEF HeadersLag
  <2>2. r \in Source /\ Len(known[r]) \in Nat /\ Len(known[r]) <= Len(chain)
        /\ known[r][Tag].fork \in Nat /\ NowOrBefore(known[r][Tag], chain[Tag])
    BY <1>1, <2>1, ChainFacts DEF Truthful, KnownLags
  <2>3. Tag \in 1 .. Len(chain)
    BY <1>1, <2>1, <2>2
  <2>4. chain[Tag].fork \in Nat /\ header[r].fork \in Nat
    BY <1>1, <2>1, <2>3, SnapshotAssumption DEF Block
  <2>5. NowOrBefore(header[r], chain[Tag])
        /\ (header[r] = chain[Tag] => header[r] = known[r][Tag])
    BY <2>1, <2>2, <2>4 DEF NowOrBefore
  <2>6. CASE r = q
    <3>1. known'[r] = chain
      BY <1>3, <1>4, <2>6
    <3> QED
      BY <2>1, <2>3, <2>5, <3>1
  <2>7. CASE r # q
    <3>1. known'[r] = known[r]
      BY <1>4, <2>2, <2>7
    <3> QED
      BY <2>1, <3>1
  <2> QED
    BY <2>6, <2>7
<1>8. HeadersLag' /\ ValuesTell'
  <2>1. HeadersLag'
    BY <1>2, <1>7 DEF HeadersLag, Tag, reader
  <2>2. ASSUME NEW r \in Truthful, value[r] # Unknown
        PROVE  /\ stage = "after" /\ header[r] # Unknown
               /\ header[r] = known'[r][Tag] => value[r] = header[r].required
    <3>1. /\ stage = "after" /\ header[r] # Unknown
          /\ header[r] = known[r][Tag] => value[r] = header[r].required
      BY <1>1, <2>2 DEF ValuesTell
    <3> QED
      BY <1>7, <3>1
  <2>3. UNCHANGED <<stage, header, value, heights>>
    BY <1>2 DEF reader
  <2>4. ValuesTell'
    BY <2>2, <2>3 DEF ValuesTell, Tag
  <2> QED
    BY <2>1, <2>4
<1> QED
  BY <1>2, <1>5, <1>6, <1>8 DEF SnapshotInv, reader, Reading

(* What the header of an honest endpoint is *)
LEMMA HonestHeader ==
    ASSUME SnapshotInv, NEW r \in Source, NEW h, HeaderAt(r, h) # Unknown
    PROVE  /\ h \in 1 .. Len(known[r]) /\ Fresh(h)
           /\ HeaderAt(r, h) = known[r][h]
           /\ known[r][h] \in Block /\ known[r][h].height = h
BY ChainFacts DEF HeaderAt, KnownLags

LEMMA WorldSame ==
    ASSUME SnapshotInv, UNCHANGED world
    PROVE  ChainOK' /\ KnownLags'
BY DEF SnapshotInv, world, ChainOK, KnownLags

LEMMA ReaderSteps ==
    ASSUME SnapshotInv,
           ReadHeads \/ ChooseHeights \/ NoHeads \/ ReadBefore \/ ReadValue
    PROVE  SnapshotInv'
<1>1. UNCHANGED world /\ UNCHANGED <<emergency, result>> /\ Reading
  BY DEF ReadHeads, ChooseHeights, NoHeads, ReadBefore, ReadValue, Reading
<1>2. ChainOK' /\ KnownLags' /\ known' = known
  BY <1>1, WorldSame DEF world
<1>3. HeadersLag /\ ValuesTell /\ DOMAIN header = Source /\ DOMAIN value = Source
  BY DEF SnapshotInv
<1>4. CASE ReadHeads \/ ChooseHeights \/ NoHeads
  <2>1. UNCHANGED <<header, value>> /\ stage \notin {"value", "after"}
    BY <1>4 DEF ReadHeads, ChooseHeights, NoHeads
  <2>2. \A r \in Truthful : header[r] = Unknown /\ value[r] = Unknown
    BY <1>3, <2>1 DEF HeadersLag, ValuesTell
  <2>3. HeadersLag' /\ ValuesTell'
    BY <2>1, <2>2 DEF HeadersLag, ValuesTell
  <2> QED
    BY <1>1, <1>2, <1>3, <2>1, <2>3 DEF SnapshotInv, Reading
<1>5. CASE ReadBefore
  <2>1. stage = "before" /\ stage' = "value" /\ UNCHANGED <<heights, value>>
    BY <1>5 DEF ReadBefore
  <2>2. DOMAIN header' = Source
        /\ \A r \in Source : header'[r] # Unknown =>
              header'[r] = HeaderAt(r, Tag)
    BY <1>5 DEF ReadBefore, MayAnswer
  <2>3. ASSUME NEW r \in Truthful, header'[r] # Unknown
        PROVE  Tag \in 1 .. Len(known[r]) /\ header'[r] = known[r][Tag] /\ header'[r] \in Block
    <3>1. r \in Source
      BY DEF Truthful
    <3>2. header'[r] = HeaderAt(r, Tag)
      BY <2>2, <2>3, <3>1
    <3> QED
      BY <2>3, <3>1, <3>2, HonestHeader
  <2>4. HeadersLag'
    BY <1>2, <2>1, <2>3 DEF HeadersLag, Tag, NowOrBefore
  <2>5. ValuesTell'
    BY <1>3, <2>1 DEF ValuesTell
  <2> QED
    BY <1>1, <1>2, <1>3, <2>1, <2>2, <2>4, <2>5 DEF SnapshotInv, Reading
<1>6. CASE ReadValue
  <2>1. stage = "value" /\ stage' = "after" /\ UNCHANGED <<heights, header>>
    BY <1>6 DEF ReadValue
  <2>2. DOMAIN value' = Source
        /\ \A r \in Source : value'[r] # Unknown =>
              header[r] # Unknown /\ value'[r] = known[r][Tag].required
    BY <1>6 DEF ReadValue
  <2>3. HeadersLag'
    BY <1>2, <1>3, <2>1 DEF HeadersLag, Tag
  <2>4. ValuesTell'
    BY <1>2, <2>1, <2>2 DEF ValuesTell, Tag, Truthful
  <2> QED
    BY <1>1, <1>2, <1>3, <2>1, <2>2, <2>3, <2>4 DEF SnapshotInv, Reading
<1> QED
  BY <1>4, <1>5, <1>6

-----------------------------------------------------------------------------
(* SnapshotRead: the decision *)

LEMMA DecisionStep ==
    ASSUME SnapshotInv, ReadAfter
    PROVE  SnapshotInv'
<1>1. PICK f \in Observations : Decide(f)
  BY DEF ReadAfter
<1>2. UNCHANGED world /\ header' = Nothing /\ value' = Nothing /\ Reading
  BY DEF ReadAfter, Reading
<1>3. ChainOK' /\ KnownLags'
  BY <1>2, WorldSame
<1>4. DOMAIN header' = Source /\ DOMAIN value' = Source
      /\ \A r \in Source : header'[r] = Unknown /\ value'[r] = Unknown
  BY <1>2 DEF Nothing
<1>5. HeadersLag' /\ ValuesTell'
  BY <1>4 DEF HeadersLag, ValuesTell, Truthful
<1>6. (emergency # Unknown => emergency.required) /\ result = Unknown
  BY <1>2 DEF SnapshotInv
<1>7. emergency' # Unknown => emergency'.required
  <2>1. emergency' = emergency \/ emergency' \in Disputed(f)
    BY <1>1 DEF Decide
  <2> QED
    BY <1>6, <2>1 DEF Disputed
<1>8. stage' # "done" => result' = Unknown
  BY <1>1, <1>6 DEF Decide, Answer
<1> QED
  BY <1>3, <1>4, <1>5, <1>7, <1>8 DEF SnapshotInv, Reading

(* The invariant of a read: the chain, how far endpoints, headers and values  *)
(* may lag behind it, and that only positive answers are kept for later.      *)
THEOREM SnapshotInvariance == SnapshotSpec => []SnapshotInv
<1>1. ASSUME SnapshotInv, [SnapshotNext]_snapshotVars PROVE SnapshotInv'
  <2>1. CASE UNCHANGED snapshotVars
    BY <1>1, <2>1 DEF snapshotVars, world, reader, SnapshotInv, ChainOK, KnownLags,
         HeadersLag, ValuesTell, Tag, Reading
  <2> QED
    BY <1>1, <2>1, ChainSteps, FollowStep, ReaderSteps, DecisionStep DEF SnapshotNext
<1> QED
  BY <1>1, SnapshotStart, PTL DEF SnapshotSpec

(* What an honest endpoint gives in an accepted answer is a block it had.     *)
LEMMA HonestObservation ==
    ASSUME SnapshotInv, NEW r \in Truthful, Observed(r) # Unknown
    PROVE  /\ Observed(r).block \in Block
           /\ Observed(r).required = Observed(r).block.required
           /\ Fresh(Observed(r).block.height)
<1>1. r \in Source /\ HeadersLag /\ ValuesTell
  BY DEF Truthful, SnapshotInv
<1>2. value[r] # Unknown /\ HeaderAt(r, Tag) = header[r]
  BY DEF Observed
<1>3. Observed(r) = [block |-> header[r], required |-> value[r]]
  BY <1>2 DEF Observed
<1>4. header[r] # Unknown /\ (header[r] = known[r][Tag] => value[r] = header[r].required)
  BY <1>1, <1>2 DEF ValuesTell
<1>5. /\ Fresh(Tag) /\ HeaderAt(r, Tag) = known[r][Tag]
      /\ known[r][Tag] \in Block /\ known[r][Tag].height = Tag
  BY <1>1, <1>2, <1>4, HonestHeader
<1> QED
  BY <1>2, <1>3, <1>4, <1>5

(* A negative answer that ends the read *)
LEMMA NegativeAnswer ==
    ASSUME SnapshotInv, ReadAfter, result' # Unknown, ~result'.required
    PROVE  /\ result'.block \in Block /\ ~result'.block.required
           /\ Cardinality(result'.sources) >= 2
           /\ Fresh(result'.block.height)
<1>1. PICK f \in Observations : Decide(f)
  BY DEF ReadAfter
<1>2. result = Unknown /\ (emergency # Unknown => emergency.required)
  BY DEF SnapshotInv, ReadAfter, Reading
<1>3. PICK o \in AgreedOn(f) : Answer(o, Giving(f, o))
  <2>1. ~(emergency' # Unknown /\ Answer(emergency', {}))
    <3>1. SUFFICES ASSUME emergency' # Unknown, Answer(emergency', {}) PROVE FALSE
      OBVIOUS
    <3>2. result'.required = emergency'.required
      BY <3>1 DEF Answer
    <3>3. emergency' = emergency \/ emergency' \in Disputed(f)
      BY <1>1 DEF Decide
    <3> QED
      BY <1>2, <3>1, <3>2, <3>3 DEF Disputed
  <2> QED
    BY <1>1, <1>2, <2>1 DEF Decide
<1>4. /\ result'.required = o.required /\ result'.block = o.block
      /\ result'.sources = Giving(f, o)
  BY <1>3 DEF Answer
<1>5. o \in Reported(f) /\ Cardinality(Giving(f, o)) >= HeadQuorum
      /\ (HeadQuorum = 1 => o.required)
  BY <1>3 DEF AgreedOn
<1>6. Cardinality(Giving(f, o)) >= 2
  BY <1>4, <1>5 DEF HeadQuorum
<1>7. PICK r \in Giving(f, o) : r \in Truthful
  <2>1. IsFiniteSet(Giving(f, o)) /\ Giving(f, o) \subseteq Source
    BY SnapshotAssumption, FS_Subset DEF Giving
  <2>2. Giving(f, o) \ Deceptive # {}
    BY <1>6, <2>1, SnapshotAssumption, OneHonest
  <2> QED
    BY <2>1, <2>2 DEF Truthful
<1>8. f[r] = o /\ o # Unknown /\ r \in Source
  BY <1>5, <1>7 DEF Giving, Reported
<1>9. o = Observed(r)
  BY <1>1, <1>7, <1>8 DEF Observations
<1>10. o.block \in Block /\ o.required = o.block.required /\ Fresh(o.block.height)
  BY <1>7, <1>8, <1>9, HonestObservation
<1> QED
  BY <1>4, <1>6, <1>10

(* NotNeededIsTrue: readLiveHfSafetyState says that no repair is required     *)
(* only by the word of two sources about a recent block that really said so.  *)
THEOREM NoRepairNeeded == SnapshotSpec => NotNeededIsTrue
<1>1. ASSUME SnapshotInv, [SnapshotNext]_snapshotVars,
             Reading, stage' = "done", result' # Unknown, ~result'.required
      PROVE  /\ result'.block \in Block /\ ~result'.block.required
             /\ Cardinality(result'.sources) >= 2
             /\ Fresh(result'.block.height)
  <2>1. result = Unknown
    BY <1>1 DEF SnapshotInv
  <2>2. ReadAfter
    BY <1>1, <2>1 DEF SnapshotNext, Grow, Replace, Follow, ReadHeads, ChooseHeights, NoHeads,
         ReadBefore, ReadValue, reader, snapshotVars
  <2> QED
    BY <1>1, <2>2, NegativeAnswer
<1>2. ASSUME SnapshotInv, [SnapshotNext]_snapshotVars
      PROVE  [ Reading /\ stage' = "done" /\ result' # Unknown /\ ~result'.required =>
                 /\ result'.block \in Block /\ ~result'.block.required
                 /\ Cardinality(result'.sources) >= 2
                 /\ Fresh(result'.block.height) ]_snapshotVars
  BY <1>1, <1>2, Zenon
<1> QED
  BY <1>2, SnapshotInvariance, PTL DEF SnapshotSpec, NotNeededIsTrue
=============================================================================
