------------------------------- MODULE RpcPool -------------------------------
(***************************************************************************)
(* How the reads of a pool keeper choose among its endpoints (RPCPool of     *)
(* utils/rpc.js): health flags and the current index of getProvider, chain   *)
(* authentication, retries of ordinary reads, the public tier, and reads    *)
(* that need two equal answers.  A keeper makes one read after the other;    *)
(* between two attempts endpoints go down and come back.                    *)
(*                                                                         *)
(* Abstracted: the public tier's own authentication flags, which only cache  *)
(* what authentication says.                                                *)
(***************************************************************************)
EXTENDS Naturals, FiniteSets

CONSTANTS
    Size,       \* configured endpoints: RPC_URL, RPC_BACKUP_1, RPC_BACKUP_2
    Wrong,      \* endpoints of another chain
    Lying,      \* endpoints whose answers to a read may be wrong
    MaxRetries  \* attempts asked for by the callers of executeWithRetry

Rpc == 0 .. Size - 1

ASSUME RpcAssumption ==
    /\ Size \in Nat /\ Size >= 3
    /\ Wrong \subseteq Rpc /\ Lying \subseteq Rpc
    /\ \A r, s \in Lying : r = s
    /\ MaxRetries \in Nat \ {0}

VARIABLES
    healthy,    \* entry.healthy
    auth,       \* chainVerified / chainMismatch of each entry, or "unknown"
    current,    \* currentIndex
    up,         \* endpoints that answer now
    left,       \* attempts left of the executeWithRetry under way, 0 if none
    answer,     \* what the last read returned: [source, kind], or None
    failures,   \* consecutive executeWithRetry calls that found no endpoint
    served      \* endpoints that answered since the first of them began

None == [source |-> {}, kind |-> "none"]

pool == <<healthy, auth, current>>
poolVars == <<pool, up, left, answer, failures, served>>

Right == Rpc \ Wrong

PoolInit ==
    /\ healthy = [r \in Rpc |-> TRUE]
    /\ auth = [r \in Rpc |-> "unknown"]
    /\ current = 0
    /\ up = Rpc
    /\ left = 0 /\ answer = None /\ failures = 0 /\ served = {}

Idle == left = 0

(* _verifyProviderChain: what an answering endpoint's chain id tells.        *)
Authenticated(r) ==
    IF auth[r] = "verified" \/ r \notin up THEN auth[r]
    ELSE IF r \in Wrong THEN "mismatch" ELSE "verified"

(* verifyProviderChains, at startup.  With no endpoint the process ends and  *)
(* is started anew, with nothing learnt.                                    *)
VerifyProviderChains ==
    /\ Idle /\ answer = None
    /\ up \cap Right # {}
    /\ auth' = [r \in Rpc |-> IF r \in up THEN Authenticated(r) ELSE auth[r]]
    /\ healthy' = [r \in Rpc |-> r \in up \cap Right]
    /\ UNCHANGED <<current, up, left, answer, failures, served>>

-----------------------------------------------------------------------------
(* getProvider: the current endpoint, else the next healthy one, else all    *)
(* flags are reset and the first endpoint of the right chain is taken.       *)
NextHealthy ==
    LET at(k) == (current + k) % Size
    IN  at(CHOOSE k \in 0 .. Size - 1 :
              healthy[at(k)] /\ \A j \in 0 .. k - 1 : ~healthy[at(j)])

AnyHealthy == \E r \in Rpc : healthy[r]
Matching == {r \in Rpc : auth[r] # "mismatch"}
First(S) == CHOOSE r \in S : \A s \in S : r <= s

Provider == IF AnyHealthy THEN NextHealthy ELSE First(Matching)
AfterReset == IF AnyHealthy THEN healthy ELSE [r \in Rpc |-> r \in Matching]
IndexAfter == IF AnyHealthy THEN NextHealthy ELSE 0

(* Mutant: a failing endpoint keeps its place until it has failed three times. *)
MarkUnhealthy_NotForced(r) ==
    /\ healthy' = AfterReset
    /\ current' = IndexAfter

(* markUnhealthy(provider, force): the next endpoint's turn *)
MarkUnhealthy(r) ==
    /\ healthy' = [AfterReset EXCEPT ![r] = FALSE]
    /\ current' = (r + 1) % Size

(* A call of executeWithRetry begins. *)
ReadBegins ==
    /\ Idle
    /\ left' = IF MaxRetries > Size THEN MaxRetries ELSE Size
    /\ failures' = failures % 2
    /\ served' = IF failures = 1 THEN served ELSE up \cap Right
    /\ UNCHANGED <<pool, up, answer>>

Returns(r, kind) == answer' = [source |-> {r}, kind |-> kind]
Ends == left' = 0 /\ failures' = 0

(* An attempt that gets its value, or a revert, which is thrown at once.     *)
AttemptSucceeds ==
    /\ left > 0 /\ Matching # {}
    /\ Provider \in up
    /\ Authenticated(Provider) = "verified"
    /\ healthy' = AfterReset /\ current' = IndexAfter
    /\ auth' = [auth EXCEPT ![Provider] = "verified"]
    /\ Returns(Provider, "retry") /\ Ends
    /\ UNCHANGED <<up, served>>

OneLess ==
    /\ left' = left - 1
    /\ failures' = IF left = 1 THEN failures + 1 ELSE failures
    /\ UNCHANGED <<up, answer, served>>

(* The endpoint turns out to be of another chain; the index stays.           *)
AttemptOnWrongChain ==
    /\ left > 0 /\ Matching # {}
    /\ Provider \in up /\ Authenticated(Provider) = "mismatch"
    /\ auth' = [auth EXCEPT ![Provider] = "mismatch"]
    /\ healthy' = [AfterReset EXCEPT ![Provider] = FALSE]
    /\ current' = IndexAfter
    /\ OneLess

(* A provider error (isProviderError): a timeout, no network, a status 5xx;  *)
(* for an urgent preparation (retryReverts) also a revert.                   *)
AttemptFails ==
    /\ left > 0 /\ Matching # {}
    /\ Provider \notin up
    /\ MarkUnhealthy(Provider)
    /\ UNCHANGED auth
    /\ OneLess

(* executePublicRead with a public tier: its endpoints in their order.       *)
PublicRead ==
    /\ Idle /\ up \cap Right # {}
    /\ Returns(First(up \cap Right), "public")
    /\ UNCHANGED <<pool, up, left, failures, served>>

(* Mutant: survivors decide; a single one is enough. *)
ConsensusRead_Survivors(A) ==
    /\ A # {}
    /\ answer' = [source |-> A, kind |-> "consensus"]

(* executeConsensusRead: a value that two endpoints give *)
ConsensusRead(A) ==
    /\ \E r, s \in A : r # s
    /\ answer' = [source |-> A, kind |-> "consensus"]

(* _authenticatedProviderEntries, then one read of every entry: a set A of   *)
(* them gives the same value.  Without a quorum the read throws.             *)
ReadAllEntries ==
    /\ Idle
    /\ LET tried == {r \in Rpc : auth[r] = "unknown"}
           now == [r \in Rpc |-> Authenticated(r)]
           entries == {r \in Rpc : now[r] = "verified"}
       IN  /\ auth' = now
           /\ healthy' = [r \in Rpc |-> IF r \in tried THEN now[r] = "verified" ELSE healthy[r]]
           /\ \/ \E A \in SUBSET (entries \cap up) : ConsensusRead(A)
              \/ UNCHANGED answer
    /\ UNCHANGED <<current, up, left, failures, served>>

(* Endpoints come and go. *)
Goes(r) == r \in up /\ up' = up \ {r}
Comes(r) == r \notin up /\ up' = up \cup {r}
Environment ==
    /\ \E r \in Rpc : Goes(r) \/ Comes(r)
    /\ served' = served \cap up'
    /\ UNCHANGED <<pool, left, answer, failures>>

PoolNext ==
    \/ VerifyProviderChains \/ ReadBegins
    \/ AttemptSucceeds \/ AttemptOnWrongChain \/ AttemptFails
    \/ PublicRead \/ ReadAllEntries
    \/ Environment

PoolSpec == PoolInit /\ [][PoolNext]_poolVars

-----------------------------------------------------------------------------
(* Nothing is read from another chain, whatever the retries and resets have  *)
(* done to the health flags, and a critical read always has an honest source. *)
TrustedSource ==
    /\ answer.source \cap Wrong = {}
    /\ answer.kind = "consensus" => answer.source \ Lying # {}

(* An endpoint that works is found: one call may fail beside it, because its *)
(* health flag is of an earlier failure, but not two calls in a row.         *)
ReadRecovers == failures = 2 => served = {}

-----------------------------------------------------------------------------
(* Why this holds.  Only endpoints of the right chain are ever verified, and  *)
(* while calls fail, an endpoint that answered all the time is handed out in  *)
(* the end: each attempt takes one healthy flag away, so that the first call  *)
(* comes to the reset unless the flag of that endpoint is set, and the second *)
(* call runs out of the others.                                              *)
Answers ==
    {None}
    \cup [source : {{r} : r \in Right}, kind : {"retry", "public"}]
    \cup [source : {A \in SUBSET Right : A \ Lying # {}}, kind : {"consensus"}]

RpcTypeOK ==
    /\ healthy \in [Rpc -> BOOLEAN]
    /\ auth \in [Rpc -> {"unknown", "verified", "mismatch"}]
    /\ current \in Rpc
    /\ up \subseteq Rpc
    /\ left \in Nat /\ failures \in 0 .. 2
    /\ answer \in Answers

ChainsTold ==
    \A r \in Rpc : /\ auth[r] = "verified" => r \in Right
                   /\ auth[r] = "mismatch" => r \in Wrong

HealthyOnes == {r \in Rpc : healthy[r]}

FlagsLeft ==
    /\ served \subseteq up \cap Right
    /\ failures = 2 => left = 0 /\ served = {}
    /\ failures = 1 => \A r \in served : healthy[r]
    /\ failures = 1 /\ left > 0 /\ served # {} => Cardinality(HealthyOnes) <= left
    /\ failures = 0 /\ left > 0 =>
          \A r \in served : healthy[r] \/ Cardinality(HealthyOnes) < left

RpcInv == RpcTypeOK /\ ChainsTold /\ FlagsLeft
=============================================================================
