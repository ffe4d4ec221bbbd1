---------------------------- MODULE SignerFileLock ----------------------------
(***************************************************************************)
(* The signer lock of the keepers (signer-file-lock.js): mutual exclusion   *)
(* between processes by hard links in a shared directory.  An attempt       *)
(* publishes its complete metadata under a unique name, then links it to    *)
(* the lock path.  A lock whose owner died is reclaimed: the recuperator    *)
(* links the lock's inode to a claim name of its own and unlinks the lock   *)
(* path only while it is the single claimant (link count 2).                *)
(*                                                                         *)
(* Each file-system call is one atomic step, so other processes may run,    *)
(* and any process may crash, between two calls.  An inode is identified    *)
(* with the attempt that wrote it (its token is unique); the metadata never *)
(* changes after publication.                                               *)
(***************************************************************************)
EXTENDS Naturals, FiniteSets

CONSTANTS
    Attempt,     \* calls of acquireSignerFileLock, over all processes
    Process,     \* process incarnations: (pid, start identity)
    ProcOf,      \* the process of each attempt
    NoFile,      \* "no such file" (ENOENT)
    MinPolls,    \* bound: passes an attempt repeats before its deadline may have come
    MaxPolls     \* bound: repeated passes after which its deadline has come

ASSUME LockAssumption ==
    /\ IsFiniteSet(Attempt)
    /\ ProcOf \in [Attempt -> Process]
    /\ NoFile \notin Attempt
    /\ MinPolls \in [Attempt -> Nat] /\ MaxPolls \in [Attempt -> Nat]

VARIABLES
    file,        \* inode of the lock path, or NoFile
    published,   \* attempts whose publication link exists
    claim,       \* inode each attempt's claim link points to, or NoFile
    pc,          \* next file-system call of each attempt
    todo,        \* names of the directory listing still to be examined
    snap,        \* lock read before reclaiming ("existing")
    linkedN,     \* link count read through the claim ("linked.nlink")
    cur,         \* inode opened through the lock path ("current")
    polls,       \* passes made
    crashed      \* processes that died

disk == <<file, published, claim>>
reads == <<todo, snap, linkedN, cur>>
vars == <<disk, pc, reads, polls, crashed>>

Alive(a) == ProcOf[a] \notin crashed

(* st_nlink: the lock path, the publication and the claims that share i. *)
NLink(i) == (IF file = i THEN 1 ELSE 0) + (IF i \in published THEN 1 ELSE 0)
            + Cardinality({b \in Attempt : claim[b] = i})

LinkNames == ({"publish"} \X published)
             \cup ({"reclaim"} \X {b \in Attempt : claim[b] # NoFile})

At(a, label) == Alive(a) /\ pc[a] = label

Goto(a, label) == pc' = [pc EXCEPT ![a] = label]

Init ==
    /\ file = NoFile
    /\ published = {}
    /\ claim = [a \in Attempt |-> NoFile]
    /\ pc = [a \in Attempt |-> "publish"]
    /\ todo = [a \in Attempt |-> {}]
    /\ snap = [a \in Attempt |-> NoFile]
    /\ linkedN = [a \in Attempt |-> 0]
    /\ cur = [a \in Attempt |-> NoFile]
    /\ polls = [a \in Attempt |-> 0]
    /\ crashed = {}

Publish(a) ==
    /\ At(a, "publish")
    /\ published' = published \cup {a}
    /\ Goto(a, "scan")
    /\ UNCHANGED <<file, claim, reads, polls, crashed>>

(* clearDeadLinks: list the directory, then remove the names of the dead. *)
Scan(a) ==
    /\ At(a, "scan")
    /\ todo' = [todo EXCEPT ![a] = LinkNames]
    /\ Goto(a, "clear")
    /\ UNCHANGED <<disk, snap, linkedN, cur, polls, crashed>>

(* Mutant: abandoned publications are never removed. *)
ClearLink_ClaimsOnly(a) ==
    /\ At(a, "clear")
    /\ \E name \in todo[a] :
         /\ todo' = [todo EXCEPT ![a] = @ \ {name}]
         /\ claim' = IF name[1] = "reclaim" /\ ~Alive(name[2])
                     THEN [claim EXCEPT ![name[2]] = NoFile] ELSE claim
    /\ UNCHANGED <<file, published, pc, snap, linkedN, cur, polls, crashed>>

ClearLink(a) ==
    /\ At(a, "clear")
    /\ \E name \in todo[a] :
         /\ todo' = [todo EXCEPT ![a] = @ \ {name}]
         /\ published' = IF name[1] = "publish" /\ ~Alive(name[2])
                         THEN published \ {name[2]} ELSE published
         /\ claim' = IF name[1] = "reclaim" /\ ~Alive(name[2])
                     THEN [claim EXCEPT ![name[2]] = NoFile] ELSE claim
    /\ UNCHANGED <<file, pc, snap, linkedN, cur, polls, crashed>>

ClearDone(a) ==
    /\ At(a, "clear")
    /\ todo[a] = {}
    /\ Goto(a, "link")
    /\ UNCHANGED <<disk, reads, polls, crashed>>

(* Mutant: the publication replaces whatever is at the lock path. *)
LinkFile_Rename(a) ==
    /\ At(a, "link")
    /\ file' = a
    /\ Goto(a, "unpublish")
    /\ UNCHANGED <<published, claim, reads, polls, crashed>>

(* linkSync(publication, file): atomic, fails when the path exists. *)
LinkFile(a) ==
    /\ At(a, "link")
    /\ IF file = NoFile
       THEN file' = a /\ Goto(a, "unpublish")
       ELSE file' = file /\ Goto(a, "inspect")
    /\ UNCHANGED <<published, claim, reads, polls, crashed>>

(* The finally block: the acquired lock is handed to its caller. *)
Unpublish(a) ==
    /\ At(a, "unpublish")
    /\ published' = published \ {a}
    /\ Goto(a, "held")
    /\ UNCHANGED <<file, claim, reads, polls, crashed>>

(* readLock(file) and the liveness test of its owner. *)
Inspect(a) ==
    /\ At(a, "inspect")
    /\ snap' = [snap EXCEPT ![a] = file]
    /\ Goto(a, IF file # NoFile /\ ~Alive(file) THEN "claim" ELSE "poll")
    /\ UNCHANGED <<disk, todo, linkedN, cur, polls, crashed>>

(* reclaimDeadLock: linkSync(file, claim). *)
Claim(a) ==
    /\ At(a, "claim")
    /\ claim' = [claim EXCEPT ![a] = file]
    /\ Goto(a, IF file = NoFile THEN "poll" ELSE "statClaim")
    /\ UNCHANGED <<file, published, reads, polls, crashed>>

StatClaim(a) ==
    /\ At(a, "statClaim")
    /\ linkedN' = [linkedN EXCEPT ![a] = NLink(claim[a])]
    /\ Goto(a, "open")
    /\ UNCHANGED <<disk, todo, snap, cur, polls, crashed>>

OpenCurrent(a) ==
    /\ At(a, "open")
    /\ cur' = [cur EXCEPT ![a] = file]
    /\ Goto(a, IF file = NoFile THEN "unclaim" ELSE "stat")
    /\ UNCHANGED <<disk, todo, snap, linkedN, polls, crashed>>

(* The decision: single claimant, same inode as inspected, owner dead. *)
StatCurrent(a) ==
    /\ At(a, "stat")
    /\ Goto(a, IF /\ linkedN[a] = 2 /\ NLink(cur[a]) = 2
                  /\ claim[a] = snap[a] /\ cur[a] = snap[a]
                  /\ ~Alive(cur[a])
               THEN "unlink" ELSE "unclaim")
    /\ UNCHANGED <<disk, reads, polls, crashed>>

UnlinkDead(a) ==
    /\ At(a, "unlink")
    /\ file' = NoFile
    /\ Goto(a, "unclaim")
    /\ UNCHANGED <<published, claim, reads, polls, crashed>>

Unclaim(a) ==
    /\ At(a, "unclaim")
    /\ claim' = [claim EXCEPT ![a] = NoFile]
    /\ Goto(a, "poll")
    /\ UNCHANGED <<file, published, reads, polls, crashed>>

Retry(a) ==
    /\ At(a, "poll")
    /\ polls[a] < MaxPolls[a]
    /\ polls' = [polls EXCEPT ![a] = @ + 1]
    /\ Goto(a, "scan")
    /\ UNCHANGED <<disk, reads, crashed>>

(* SIGNER_LOCK_TIMEOUT, thrown through the finally block. *)
TimeOut(a) ==
    /\ At(a, "poll")
    /\ polls[a] >= MinPolls[a]
    /\ published' = published \ {a}
    /\ Goto(a, "failed")
    /\ UNCHANGED <<file, claim, reads, polls, crashed>>

(* release(): assertOwned, then unlinkSync(file). *)
AssertOwned(a) ==
    /\ At(a, "held")
    /\ Goto(a, IF file = a THEN "release" ELSE "lost")
    /\ UNCHANGED <<disk, reads, polls, crashed>>

Release(a) ==
    /\ At(a, "release")
    /\ file' = NoFile
    /\ Goto(a, "done")
    /\ UNCHANGED <<published, claim, reads, polls, crashed>>

(* A process dies (or exits on a signal) between any two calls. *)
Crash(p) ==
    /\ p \notin crashed
    /\ crashed' = crashed \cup {p}
    /\ UNCHANGED <<disk, pc, reads, polls>>

Step(a) ==
    \/ Publish(a) \/ Scan(a) \/ ClearLink(a) \/ ClearDone(a)
    \/ LinkFile(a) \/ Unpublish(a)
    \/ Inspect(a) \/ Claim(a) \/ StatClaim(a) \/ OpenCurrent(a)
    \/ StatCurrent(a) \/ UnlinkDead(a) \/ Unclaim(a)
    \/ Retry(a) \/ TimeOut(a)
    \/ AssertOwned(a) \/ Release(a)

Next ==
    \/ \E a \in Attempt : Step(a)
    \/ \E p \in Process : Crash(p)

Spec == Init /\ [][Next]_vars

(* A running process keeps making its calls; the operation it runs under   *)
(* the lock is bounded by its own timeouts.  Nothing makes a process crash. *)
FairSpec == Spec /\ \A a \in Attempt : WF_vars(Step(a))

-----------------------------------------------------------------------------
Labels == {"publish", "scan", "clear", "link", "unpublish", "held", "inspect",
           "claim", "statClaim", "open", "stat", "unlink", "unclaim", "poll",
           "failed", "release", "lost", "done"}
Owning == {"unpublish", "held", "release"}
Armed == {"open", "stat", "unlink"}
MayFile == Attempt \cup {NoFile}

TypeOK ==
    /\ file \in MayFile
    /\ published \in SUBSET Attempt
    /\ claim \in [Attempt -> MayFile]
    /\ pc \in [Attempt -> Labels]
    /\ todo \in [Attempt -> SUBSET ({"publish", "reclaim"} \X Attempt)]
    /\ snap \in [Attempt -> MayFile]
    /\ linkedN \in [Attempt -> Nat]
    /\ cur \in [Attempt -> MayFile]
    /\ polls \in [Attempt -> Nat]
    /\ crashed \in SUBSET Process

(* Two attempts of living processes are never both entitled to sign. *)
MutualExclusion ==
    \A a, b \in Attempt :
        Alive(a) /\ Alive(b) /\ pc[a] \in Owning /\ pc[b] \in Owning => a = b

(* A lock is only ever removed by its owner's release or after the owner    *)
(* died, and is never overwritten (reclaimDeadLock, release).               *)
LockNotStolen ==
    [][ (file # NoFile /\ file' # file)
            => file' = NoFile /\ (~Alive(file) \/ pc[file] = "release") ]_vars

(* The refinement: the detailed lock implements the abstract mutex. *)
Phase == [a \in Attempt |->
            IF ~Alive(a) \/ pc[a] \in {"done", "failed", "lost"} THEN "ended"
            ELSE IF file = a THEN "holding" ELSE "waiting"]
Mutex == INSTANCE SignerMutex WITH phase <- Phase
ImplementsMutex == Mutex!Spec

(* A lock left by the dead does not block the living: the last attempt      *)
(* still running, with one more pass before its deadline, gets the lock,    *)
(* whatever links the crashed processes left in the directory.              *)
Lone(a) ==
    /\ At(a, "scan")
    /\ polls[a] < MinPolls[a]
    /\ \A b \in Attempt \ {a} : ~Alive(b) \/ pc[b] \in {"done", "failed"}
RecoversFromCrashes ==
    \A a \in {b \in Attempt : MinPolls[b] > 0} : Lone(a) ~> (pc[a] = "held" \/ ~Alive(a))

(* The inductive invariant behind mutual exclusion. *)
OwnerHasFile == \A a \in Attempt : Alive(a) /\ pc[a] \in Owning => file = a
(* A lock path points to an attempt past its link call, so a lock removed   *)
(* from the path never comes back, and claims point only to such inodes.    *)
BeenLocked(i) == ~Alive(i) \/ pc[i] \in {"unpublish", "held", "release", "lost", "done"}
LinkedOnce ==
    /\ file # NoFile => BeenLocked(file)
    /\ \A a \in Attempt : claim[a] # NoFile => BeenLocked(claim[a])
(* A claimant that counted two links while the lock path was still there    *)
(* was alone, and stays alone until it drops its claim.                     *)
SingleClaimant ==
    \A a, b \in Attempt :
        /\ file # NoFile
        /\ Alive(a) /\ pc[a] \in Armed /\ linkedN[a] = 2 /\ claim[a] = file
        /\ Alive(b) /\ pc[b] \in Armed /\ linkedN[b] = 2 /\ claim[b] = file
        => a = b
(* What a recuperator opened and judged is still at the lock path. *)
StillThere ==
    \A a \in Attempt :
        /\ Alive(a)
        /\ \/ pc[a] = "unlink"
           \/ /\ pc[a] = "stat" /\ linkedN[a] = 2
              /\ cur[a] = snap[a] /\ claim[a] = snap[a]
        => file = snap[a]
Judged ==
    \A a \in Attempt :
        /\ Alive(a) /\ pc[a] \in {"claim", "statClaim"} \cup Armed
              => snap[a] # NoFile /\ ~Alive(snap[a])
        /\ Alive(a) /\ pc[a] = "unlink"
              => linkedN[a] = 2 /\ claim[a] = snap[a]

IInv ==
    /\ TypeOK
    /\ OwnerHasFile
    /\ LinkedOnce
    /\ SingleClaimant
    /\ StillThere
    /\ Judged
=============================================================================
