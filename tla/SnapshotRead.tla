----------------------------- MODULE SnapshotRead -----------------------------
(***************************************************************************)
(* How the delta-neutral keeper learns whether the health factor must be     *)
(* repaired (utils/rpc-snapshot-consensus.js, readLiveHfSafetyState): the    *)
(* endpoints are asked for a value at one recent block, each answer between  *)
(* two reads of that block's header, and two must agree.  Two emergency rules *)
(* accept less, and only the answer that a repair is required.               *)
(*                                                                         *)
(* A block stands for its hash and for the value the contracts give at it;   *)
(* its height is its age.  Between two steps of the reader the chain grows,  *)
(* its last block is replaced, and honest endpoints follow.  All keys of the *)
(* state but repairRequired are left out.                                   *)
(***************************************************************************)
EXTENDS Naturals, Sequences, FiniteSets

CONSTANTS
    Source,       \* authenticated endpoints
    Deceptive,    \* endpoints that may answer anything
    Unknown,      \* no answer, or an invalid one
    MaxHeight,    \* bound: blocks
    MaxForks,     \* bound: replaced blocks
    MaxAge        \* a header is accepted for so many blocks (120 seconds)

ASSUME SnapshotAssumption ==
    /\ IsFiniteSet(Source) /\ Cardinality(Source) >= 3
    /\ Deceptive \subseteq Source
    /\ \A r, s \in Deceptive : r = s
    /\ MaxHeight \in Nat \ {0} /\ MaxForks \in Nat /\ MaxAge \in Nat

VARIABLES
    chain,      \* blocks [height, fork, required]
    forks,      \* blocks replaced so far
    known,      \* the chain as each endpoint has it
    stage,      \* "heads", "tags", "before", "value", "after" or "done"
    heads,      \* height of each endpoint's latest header, or 0
    heights,    \* block tags still to try
    header,     \* header each endpoint gave before its value
    value,      \* the value each endpoint gave
    emergency,  \* a positive value of a disagreement
    result      \* [required, block, sources], or Unknown

world == <<chain, forks, known>>
reader == <<stage, heads, heights, header, value, emergency, result>>
snapshotVars == <<world, reader>>

Truthful == Source \ Deceptive
Block == [height : 1 .. MaxHeight, fork : 0 .. MaxForks, required : BOOLEAN]
Forged(h) == [height |-> h, fork |-> MaxForks + 1, required |-> FALSE]

Nothing == [r \in Source |-> Unknown]

SnapshotInit ==
    /\ chain = <<[height |-> 1, fork |-> 0, required |-> FALSE]>>
    /\ forks = 0
    /\ known = [r \in Source |-> chain]
    /\ stage = "heads" /\ heads = [r \in Source |-> 0] /\ heights = <<>>
    /\ header = Nothing /\ value = Nothing
    /\ emergency = Unknown /\ result = Unknown

-----------------------------------------------------------------------------
(* The chain and the endpoints, until the read ends. *)
Reading == stage # "done"

Grow ==
    /\ Reading /\ Len(chain) < MaxHeight
    /\ \E v \in BOOLEAN :
         chain' = Append(chain, [height |-> Len(chain) + 1, fork |-> forks, required |-> v])
    /\ UNCHANGED <<forks, known, reader>>

Replace ==
    /\ Reading /\ forks < MaxForks
    /\ forks' = forks + 1
    /\ \E v \in BOOLEAN :
         chain' = [chain EXCEPT ![Len(chain)].fork = forks + 1, ![Len(chain)].required = v]
    /\ UNCHANGED <<known, reader>>

Follow(r) ==
    /\ Reading /\ known[r] # chain
    /\ known' = [known EXCEPT ![r] = chain]
    /\ UNCHANGED <<chain, forks, reader>>

(* validHeader: of the height asked for and not too old.  An endpoint may    *)
(* also fail to answer.                                                      *)
Fresh(h) == h + MaxAge >= Len(chain)

(* Mutant: a header of any age will do. *)
HeaderAt_AnyAge(r, h) == IF h \in 1 .. Len(known[r]) THEN known[r][h] ELSE Unknown

HeaderAt(r, h) == IF h \in 1 .. Len(known[r]) /\ Fresh(h) THEN known[r][h] ELSE Unknown
MayAnswer(x) == {x, Unknown}

-----------------------------------------------------------------------------
(* The q-th highest of the heads that were received *)
Heard == {r \in Source : heads[r] # 0}
NthHead(q) ==
    CHOOSE h \in {heads[r] : r \in Heard} :
        /\ Cardinality({r \in Heard : heads[r] > h}) < q
        /\ Cardinality({r \in Heard : heads[r] >= h}) >= q
LowestHead == CHOOSE h \in {heads[r] : r \in Heard} : \A r \in Heard : h <= heads[r]

(* One source decides only if it is the only one left (allowLastSurvivor).   *)
HeadQuorum == IF Cardinality(Heard) = 1 THEN 1 ELSE 2

ReadHeads ==
    /\ stage = "heads"
    /\ heads' \in {f \in [Source -> 0 .. MaxHeight] :
                     \A r \in Truthful :
                         f[r] = 0 \/ (f[r] = Len(known[r]) /\ Fresh(f[r]))}
    /\ stage' = "tags"
    /\ UNCHANGED <<world, heights, header, value, emergency, result>>

(* headLag blocks behind the quorum's head, then the lowest head *)
ChooseHeights ==
    /\ stage = "tags" /\ Cardinality(Heard) >= HeadQuorum
    /\ LET near == IF NthHead(HeadQuorum) > 1 THEN NthHead(HeadQuorum) - 1 ELSE 1
       IN  heights' = IF near = LowestHead THEN <<near>> ELSE <<near, LowestHead>>
    /\ stage' = "before"
    /\ UNCHANGED <<world, heads, header, value, emergency, result>>

NoHeads ==
    /\ stage = "tags" /\ Cardinality(Heard) < HeadQuorum
    /\ stage' = "done"
    /\ UNCHANGED <<world, heads, heights, header, value, emergency, result>>

Tag == Head(heights)

(* The header before the value; a deceptive source need not decide yet.      *)
ReadBefore ==
    /\ stage = "before"
    /\ header' \in {f \in [Source -> {HeaderAt(r, Tag) : r \in Source} \cup {Unknown}] :
                      \A r \in Source :
                         f[r] \in IF r \in Heard \cap Truthful THEN MayAnswer(HeaderAt(r, Tag))
                                  ELSE {Unknown}}
    /\ stage' = "value"
    /\ UNCHANGED <<world, heads, heights, value, emergency, result>>

ReadValue ==
    /\ stage = "value"
    /\ value' = [r \in Source |->
                   IF header[r] # Unknown /\ Tag <= Len(known[r])
                   THEN known[r][Tag].required ELSE Unknown]
    /\ stage' = "after"
    /\ UNCHANGED <<world, heads, heights, header, emergency, result>>

(* Mutant: the header is not read again after the value. *)
Observed_Once(r) ==
    IF value[r] = Unknown THEN Unknown ELSE [block |-> header[r], required |-> value[r]]

(* The observation of an honest source counts if its header did not change.  *)
Observed(r) ==
    IF value[r] = Unknown \/ HeaderAt(r, Tag) # header[r] THEN Unknown
    ELSE [block |-> header[r], required |-> value[r]]

(* A deceptive source may name any block, real or not, and any value.        *)
Claims ==
    {Unknown} \cup
    {[block |-> b, required |-> v] :
        b \in {known[r][Tag] : r \in {s \in Truthful : Tag <= Len(known[s])}} \cup {Forged(Tag)},
        v \in BOOLEAN}

Observations ==
    {[r \in Source |-> IF r \in Truthful THEN Observed(r)
                        ELSE IF r \in Heard THEN claim ELSE Unknown] : claim \in Claims}

Giving(f, o) == {r \in Source : f[r] = o}
OnBlock(f, b) == {r \in Source : f[r] # Unknown /\ f[r].block = b}
Reported(f) == {f[r] : r \in Source} \ {Unknown}

(* Agreed by a quorum; a sole survivor's word counts if it is positive       *)
(* (emergencyPositive).                                                      *)
AgreedOn(f) ==
    {o \in Reported(f) :
        /\ Cardinality(Giving(f, o)) >= HeadQuorum
        /\ HeadQuorum = 1 => o.required}

(* Two sources that name the same block but not the same value: a positive   *)
(* one may trigger the repair, which the contracts check again.              *)
Disputed(f) ==
    {o \in Reported(f) : o.required /\ Cardinality(OnBlock(f, o.block)) >= 2}

Answer(o, S) ==
    /\ result' = [required |-> o.required, block |-> o.block, sources |-> S]
    /\ stage' = "done"

Decide(f) ==
    \/ /\ \E o \in AgreedOn(f) : Answer(o, Giving(f, o))
       /\ UNCHANGED <<heights, emergency>>
    \/ /\ AgreedOn(f) = {}
       /\ emergency' \in IF Disputed(f) = {} THEN {emergency} ELSE Disputed(f)
       /\ IF Len(heights) > 1
          THEN heights' = Tail(heights) /\ stage' = "before" /\ UNCHANGED result
          ELSE /\ UNCHANGED heights
               /\ IF emergency' = Unknown THEN stage' = "done" /\ UNCHANGED result
                  ELSE Answer(emergency', {})

ReadAfter ==
    /\ stage = "after"
    /\ \E f \in Observations : Decide(f)
    /\ header' = Nothing /\ value' = Nothing
    /\ UNCHANGED <<world, heads>>

SnapshotNext ==
    \/ Grow \/ Replace \/ (\E r \in Truthful : Follow(r))
    \/ ReadHeads \/ ChooseHeights \/ NoHeads \/ ReadBefore \/ ReadValue \/ ReadAfter

SnapshotSpec == SnapshotInit /\ [][SnapshotNext]_snapshotVars

-----------------------------------------------------------------------------
(* That no repair is required is only ever concluded from the value of a     *)
(* block that really was on an honest endpoint's chain and that two sources  *)
(* gave: not from a liar, a sole survivor, or a value and a header of two    *)
(* different blocks around a reorganisation.  And when it is concluded, that  *)
(* block is recent, though a lagging or lying source may choose the height.   *)
NotNeededIsTrue ==
    [][ Reading /\ stage' = "done" /\ result' # Unknown /\ ~result'.required =>
            /\ result'.block \in Block /\ ~result'.block.required
            /\ Cardinality(result'.sources) >= 2
            /\ Fresh(result'.block.height) ]_snapshotVars

-----------------------------------------------------------------------------
(* Why it is true: a block that was replaced never comes back.  An endpoint's *)
(* block, and the header read before, are the present one or of an earlier    *)
(* fork, so that an unchanged header means an unchanged block in between.     *)
ChainOK ==
    /\ forks \in 0 .. MaxForks
    /\ chain \in Seq(Block) /\ Len(chain) \in 1 .. MaxHeight
    /\ \A i \in 1 .. Len(chain) : chain[i].height = i /\ chain[i].fork <= forks

NowOrBefore(b, c) == b = c \/ b.fork < c.fork

KnownLags ==
    /\ known \in [Source -> Seq(Block)]
    /\ \A r \in Source :
          /\ Len(known[r]) <= Len(chain)
          /\ \A i \in 1 .. Len(known[r]) :
                known[r][i].height = i /\ NowOrBefore(known[r][i], chain[i])

HeadersLag ==
    \A r \in Truthful :
        header[r] # Unknown =>
            /\ stage \in {"value", "after"} /\ header[r] \in Block
            /\ Tag \in 1 .. Len(known[r])
            /\ NowOrBefore(header[r], known[r][Tag])

ValuesTell ==
    \A r \in Truthful :
        value[r] # Unknown =>
            /\ stage = "after" /\ header[r] # Unknown
            /\ header[r] = known[r][Tag] => value[r] = header[r].required

SnapshotInv ==
    /\ ChainOK /\ KnownLags /\ HeadersLag /\ ValuesTell
    /\ DOMAIN header = Source /\ DOMAIN value = Source
    /\ emergency # Unknown => emergency.required
    /\ Reading => result = Unknown
=============================================================================
