----------------------------- MODULE FeeConsensus -----------------------------
(***************************************************************************)
(* The fees, then the gas limit, of a health-factor repair (utils/rpc-fee-   *)
(* consensus.js): each endpoint quotes, a lone outlier must not decide, and   *)
(* an emergency falls back on the base fee or the gas limit of a fresh block. *)
(*                                                                         *)
(* Amounts are small numbers.  Honest estimates lie in HonestGas, honest      *)
(* priority fees in HonestTips (endpoints without eth_maxPriorityFeePerGas    *)
(* make ethers quote a default), honest legacy prices in HonestPrices, and an *)
(* honest maximum is twice the base fee more than the priority, as ethers     *)
(* computes it.  The Crooked endpoint quotes any number of AnyQuotes.    *)
(* A block stands for its hash: endpoints show the fresh block, another one,  *)
(* or none.                                                                *)
(***************************************************************************)
EXTENDS Naturals, FiniteSets

CONSTANTS
    Quoter,        \* authenticated endpoints
    Crooked,       \* endpoints that may quote anything
    Mute,          \* no answer
    HonestGas,     \* gas estimates of honest endpoints
    HonestTips,    \* their priority fees
    HonestPrices,  \* their answers to eth_gasPrice
    AnyQuotes,     \* what a crooked endpoint may quote
    BaseFee,       \* base fee of the fresh block
    GasLimit       \* its gas limit

ASSUME FeeAssumption ==
    /\ IsFiniteSet(Quoter) /\ Cardinality(Quoter) >= 3
    /\ Crooked \subseteq Quoter /\ \A r, s \in Crooked : r = s
    /\ HonestGas \subseteq Nat /\ HonestTips \subseteq Nat
    /\ HonestPrices \subseteq Nat /\ AnyQuotes \subseteq Nat
    /\ BaseFee \in Nat \ {0} /\ GasLimit \in Nat

VARIABLES
    step,     \* "fee", then "gas", then "done"
    attempt,  \* of the gas estimate
    gas,      \* [amount, by] or Mute
    fee       \* [max, priority, by] or Mute; a legacy price is both

feeVars == <<step, attempt, gas, fee>>

Trusty == Quoter \ Crooked
Quotes(honest) ==
    {q \in [Quoter -> honest \cup AnyQuotes \cup {Mute}] :
        \A r \in Trusty : q[r] \in honest \cup {Mute}}
(* The maximal fees that go with the priority fees p.  Of a block with a base *)
(* fee an honest answer has both, and a legacy price unless that call failed. *)
MaxFees(p) ==
    {[r \in Quoter |-> IF r \notin Trusty THEN any
                        ELSE IF p[r] = Mute THEN Mute ELSE 2 * BaseFee + p[r]] :
        any \in {2 * BaseFee + t : t \in HonestTips} \cup AnyQuotes \cup {Mute}}
GasPrices(p) ==
    {g \in Quotes(HonestPrices) : \A r \in Trusty : p[r] = Mute => g[r] = Mute}
Quoted(q) == {r \in Quoter : q[r] # Mute}

(* The value at position k, from 0, of the sorted quotes *)
Nth(q, k) ==
    CHOOSE v \in {q[r] : r \in Quoted(q)} :
        /\ Cardinality({r \in Quoted(q) : q[r] < v}) <= k
        /\ Cardinality({r \in Quoted(q) : q[r] <= v}) > k

(* Mutant: of two quotes the higher counts, however far above the other. *)
Corroborated_NoSpread(q) ==
    IF Cardinality(Quoted(q)) < 2 THEN Mute ELSE Nth(q, Cardinality(Quoted(q)) \div 2)

(* corroborateNumbers: the middle of three, or the higher of two that differ *)
(* by at most a quarter *)
Corroborated(q) ==
    LET n == Cardinality(Quoted(q))
    IN  IF n < 2 \/ (n = 2 /\ Nth(q, 1) * 100 > Nth(q, 0) * 125) THEN Mute
        ELSE Nth(q, n \div 2)
Disagree(q) == Cardinality(Quoted(q)) = 2 /\ Corroborated(q) = Mute

(* matchingFeeBlock: the endpoints that name the same fresh block, if two do. *)
MatchingBlock(B) == IF \E r, s \in B : r # s THEN B ELSE {}

Highest(S) == CHOOSE v \in S : \A w \in S : w <= v
WithMargin(v) == (v * 120) \div 100

FeeInit ==
    /\ step = "fee" /\ attempt = 0
    /\ gas = Mute /\ fee = Mute

GasIs(v, by) == gas' = [amount |-> v, by |-> by] /\ step' = "done"

(* readFeeConsensus.  B: the endpoints that can show the fresh block.        *)
GasAttempt(q, B) ==
    /\ step = "gas"
    /\ LET sole == {q[r] : r \in Quoted(q) \cap B}
           matched == {q[r] : r \in MatchingBlock(B) \cap Quoted(q)}
       IN  \/ Corroborated(q) # Mute /\ GasIs(Corroborated(q), "quorum") /\ UNCHANGED attempt
           \/ /\ Cardinality(Quoted(q)) = 1
              /\ \E v \in sole : v > 0 /\ WithMargin(v) <= GasLimit /\ GasIs(v, "survivor")
              /\ UNCHANGED attempt
           \/ /\ Disagree(q) /\ attempt = 1 /\ matched # {}
              /\ Highest(matched) > 0 /\ WithMargin(Highest(matched)) <= GasLimit
              /\ GasIs(Highest(matched), "block")
              /\ UNCHANGED attempt
           \/ Disagree(q) /\ attempt = 0 /\ attempt' = 1 /\ UNCHANGED <<gas, step>>
    /\ UNCHANGED fee

(* feeFromBaseFee: a proposed priority counts if it is below twice the base  *)
FromBaseFee(base, p) ==
    LET priority == IF p # Mute /\ p > 0 /\ p < base * 2 THEN p ELSE base * 2
    IN  [max |-> base * 3 + priority, priority |-> priority]

FeeIs(f, by) == fee' = [max |-> f.max, priority |-> f.priority, by |-> by] /\ step' = "gas"

(* readFeeDataConsensus over the fields maxFeePerGas, maxPriorityFeePerGas and *)
(* gasPrice of the answers.  A sole survivor's block decides; else two fields  *)
(* of type 2 that agree; else the legacy price, of which the same is asked;    *)
(* else the base fee of a common fresh block.  A crooked endpoint may answer    *)
(* without any quote (silent), and alone show a block with any base fee.        *)
FeeRead(m, p, g) ==
    LET both == Corroborated(m) # Mute /\ Corroborated(p) # Mute
        legacy == Corroborated(g)
        answered(silent) == Quoted(m) \cup Quoted(p) \cup Quoted(g) \cup silent
    IN  /\ step = "fee"
        /\ \/ \E silent \in SUBSET Crooked, r \in Quoter, base \in ({BaseFee} \cup AnyQuotes) \ {0} :
                 /\ answered(silent) = {r} /\ (r \in Trusty => base = BaseFee)
                 /\ FeeIs(FromBaseFee(base, p[r]), "survivor")
           \/ both /\ FeeIs([max |-> Corroborated(m), priority |-> Corroborated(p)], "quorum")
           \/ ~both /\ legacy # Mute /\ FeeIs([max |-> legacy, priority |-> legacy], "legacy")
           \/ /\ ~both /\ legacy = Mute
              /\ \E silent \in SUBSET Crooked, B \in SUBSET Quoter :
                   /\ \E r, s \in answered(silent) : r # s
                   /\ \E r \in MatchingBlock(B) \cap answered(silent) :
                        FeeIs(FromBaseFee(BaseFee, p[r]), "block")
        /\ UNCHANGED <<attempt, gas>>

(* No quorum and no fallback: the preparation fails and is tried again.      *)
Refused ==
    /\ step \in {"gas", "fee"}
    /\ step' = "done"
    /\ UNCHANGED <<attempt, gas, fee>>

FeeNext ==
    \/ \E q \in Quotes(HonestGas), B \in SUBSET Quoter : GasAttempt(q, B)
    \/ \E p \in Quotes(HonestTips) :
       \E m \in MaxFees(p), g \in GasPrices(p) : FeeRead(m, p, g)
    \/ Refused

FeeSpec == FeeInit /\ [][FeeNext]_feeVars

-----------------------------------------------------------------------------
(* When two endpoints answer, one of them wrong, a repair never offers more    *)
(* than a quarter above what an honest endpoint quotes for the same field, be  *)
(* it the maximal fee or, where that is disputed, the legacy price, nor more   *)
(* than five times the base fee where both are; and its gas limit is between   *)
(* an honest estimate and a quarter above one.                              *)
FeeBounded ==
    /\ gas # Mute /\ gas.by = "quorum" =>
         \E lo, hi \in HonestGas : lo <= gas.amount /\ gas.amount * 100 <= hi * 125
    /\ fee # Mute =>
         /\ fee.by = "quorum" => \E t \in HonestTips : fee.max * 100 <= (2 * BaseFee + t) * 125
         /\ fee.by = "legacy" => \E x \in HonestPrices : fee.max * 100 <= x * 125
         /\ fee.by = "block" => fee.max <= 5 * BaseFee

(* What the comments of rpc-fee-consensus.js say, "reject a lone outlier" and *)
(* "without accepting a lone quote": when more than one endpoint quotes, the  *)
(* gas limit is no further above the honest estimates than two quotes may be  *)
(* apart.                                                                    *)
LoneOutlierRejected ==
    gas # Mute /\ gas.by # "survivor" =>
        \E hi \in HonestGas : gas.amount * 100 <= hi * 125
=============================================================================
