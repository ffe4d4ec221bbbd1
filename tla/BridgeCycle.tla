----------------------------- MODULE BridgeCycle -----------------------------
(***************************************************************************)
(* The loop of the bridge keeper (runOnce, processTreasury): each treasury in *)
(* turn, its conversions, the amount that can leave, then a bridge or a        *)
(* forward on the same chain; and the record of consecutive failures by which *)
(* the operator is told of an incident (PersistentBridgeAlerts).              *)
(*                                                                         *)
(* The treasuries share the signer and so its journal; so do the keepers of   *)
(* the pools that sign with the same key, by one file and one lock.  What the *)
(* keeper reads of a treasury, its configuration, bounty, fees and balance,   *)
(* is a choice.                                                              *)
(* The contract's side is in Treasury, the signing in SignerJournal.          *)
(***************************************************************************)
EXTENDS Naturals

CONSTANTS
    Treasuries,   \* number configured
    Conversions,  \* bound: native wrap, tokens and sources of one treasury
    AlertAfter,   \* cfg.alertAfterCycles
    MaxRestarts   \* bound

ASSUME BridgeAssumption ==
    /\ Treasuries \in Nat \ {0} /\ Conversions \in Nat
    /\ AlertAfter \in Nat \ {0} /\ MaxRestarts \in Nat

VARIABLES
    journalled,  \* the signer's journal: "none"; a transaction of this keeper, "open"
                 \* or "mined"; or one of an "other" keeper of the signer
    phase,
    treasury,    \* being processed
    todo,        \* its conversions still to be tried
    sending,     \* "convert", "forward" or "bridge"
    current,     \* no transaction of the keeper was mined since it read what it
                 \* is about to send
    elsewhere,   \* history: since then, another keeper of the signer took one that
                 \* was mined out of the journal
    actions,     \* alerts.state.actions
    saved,       \* the alert file
    reports,     \* reports since the treasury last did well
    revived,     \* history: the last restart read back an alert of a streak that had
                 \* ended, and the treasury has not done well since
    restarts

reading == <<current, elsewhere>>
told == <<reports, revived>>
alerts == <<actions, saved, told>>
bridgeVars == <<journalled, phase, treasury, todo, sending, reading, alerts, restarts>>

None == [failures |-> 0, alerted |-> FALSE]

BridgeInit ==
    /\ journalled = "none"
    /\ phase = "read" /\ treasury = 1 /\ todo = 0
    /\ sending = "none" /\ current = FALSE /\ elsewhere = FALSE
    /\ actions = [t \in 1 .. Treasuries |-> None] /\ saved = actions
    /\ reports = [t \in 1 .. Treasuries |-> 0]
    /\ revived = [t \in 1 .. Treasuries |-> FALSE]
    /\ restarts = 0

To(p) == phase' = p
Reads == current' = TRUE /\ elsewhere' = FALSE
Forgets == current' = FALSE /\ elsewhere' = FALSE
NextTreasury ==
    /\ To("read")
    /\ treasury' = (treasury % Treasuries) + 1
    /\ UNCHANGED <<todo, sending, reading>>

(* processTreasury returns, or throws, which runOnce counts as a failure.    *)
Ends(outcome) ==
    /\ To(outcome)
    /\ todo' = 0 /\ sending' = "none" /\ Forgets
    /\ UNCHANGED treasury
Outcomes == {"success", "failure"}

-----------------------------------------------------------------------------
(* The chains are verified and the state is read; conversions may be disabled. *)
ReadState ==
    /\ phase = "read"
    /\ \/ todo' \in 0 .. Conversions /\ To("convert") /\ UNCHANGED <<treasury, sending, reading>>
       \/ Ends("failure")
    /\ UNCHANGED <<journalled, alerts, restarts>>

(* prepareNativeWrap, prepareFeeConversion: nothing to do, no executable      *)
(* tranche, or an error; a conversion is optional and the next one follows,   *)
(* unless the journal holds a transaction.                                   *)
SkipConversion ==
    /\ phase = "convert" /\ todo > 0
    /\ \/ todo' = todo - 1 /\ UNCHANGED <<phase, treasury, sending, reading>>
       \/ journalled # "none" /\ Ends("failure")
    /\ UNCHANGED <<journalled, alerts, restarts>>

(* The first tranche, of eight halves, that a simulation accepts.            *)
SelectConversion ==
    /\ phase = "convert" /\ todo > 0
    /\ To("send") /\ sending' = "convert" /\ todo' = todo - 1 /\ Reads
    /\ UNCHANGED <<journalled, treasury, alerts, restarts>>

(* bridgeableUsdc: never an approximate amount                               *)
ReadBridgeable ==
    /\ phase = "convert" /\ todo = 0
    /\ \/ To("decide") /\ Reads /\ UNCHANGED <<treasury, todo, sending>>
       \/ Ends("failure")
    /\ UNCHANGED <<journalled, alerts, restarts>>

(* Forward on the same chain, or bridge with a fee the wallet and the bounty  *)
(* cover, by the configuration read before the conversions; or nothing is     *)
(* due; or the estimate or the wallet is an error.                           *)
Decide ==
    /\ phase = "decide"
    /\ \/ /\ To("send") /\ sending' \in {"forward", "bridge"}
          /\ UNCHANGED <<treasury, todo, reading>>
       \/ \E outcome \in Outcomes : Ends(outcome)
    /\ UNCHANGED <<journalled, alerts, restarts>>

-----------------------------------------------------------------------------
(* Mutant: the caller is not told to read the chain again. *)
SettleJournal_GoesOn ==
    /\ phase = "send" /\ journalled = "mined"
    /\ journalled' = "none"
    /\ UNCHANGED <<phase, treasury, todo, sending, reading, alerts, restarts>>

(* sendSigned settles an earlier transaction first, whoever's it is: if it    *)
(* cannot, or did, the treasury is left for the next cycle.                 *)
SettleJournal ==
    /\ phase = "send" /\ journalled # "none"
    /\ \/ journalled \in {"mined", "other"} /\ journalled' = "none"
       \/ journalled \in {"open", "other"} /\ UNCHANGED journalled
    /\ Ends("failure")
    /\ UNCHANGED <<alerts, restarts>>

(* Errors before anything is signed, and reverts: an optional conversion only *)
(* gives way to the next one.                                               *)
Refused ==
    IF sending = "convert" THEN To("convert") /\ UNCHANGED <<treasury, todo, sending, reading>>
    ELSE Ends("failure")

PreparationFails ==
    /\ phase = "send" /\ journalled = "none"
    /\ Refused
    /\ UNCHANGED <<journalled, alerts, restarts>>

SignAndSend ==
    /\ phase = "send" /\ journalled = "none"
    /\ journalled' = "open" /\ To("wait")
    /\ UNCHANGED <<treasury, todo, sending, reading, alerts, restarts>>

(* finalizeReceipt fails if the receipt names no message that was sent.      *)
Receipt ==
    /\ phase = "wait"
    /\ \/ journalled' = "none" /\ Refused
       \/ /\ journalled' = "none"
          /\ IF sending = "convert"
             THEN To("convert") /\ Forgets /\ UNCHANGED <<treasury, todo, sending>>
             ELSE \/ Ends("success")
                  \/ sending = "bridge" /\ Ends("failure")
       \/ UNCHANGED journalled /\ Ends("failure")
    /\ UNCHANGED <<alerts, restarts>>

(* Its transaction is mined after the call gave up. *)
BridgeMinedLate ==
    /\ journalled = "open" /\ phase # "wait"
    /\ journalled' = "mined" /\ current' = FALSE
    /\ UNCHANGED <<phase, treasury, todo, sending, elsewhere, alerts, restarts>>

(* Other keepers of the signer, in any moment in which this one does not hold *)
(* the lock.  They journal transactions of their own; an urgent repair also   *)
(* competes for the nonce of one that is open, and may be mined in its place. *)
OthersSend ==
    /\ journalled \in {"none", "open"} /\ phase # "wait"
    /\ journalled' = "other"
    /\ UNCHANGED <<phase, treasury, todo, sending, reading, alerts, restarts>>

(* They settle what they find, this keeper's transaction too. *)
OthersSettle ==
    /\ journalled \in {"mined", "other"} /\ phase # "wait"
    /\ journalled' = "none"
    /\ elsewhere' = (elsewhere \/ journalled = "mined")
    /\ UNCHANGED <<phase, treasury, todo, sending, current, alerts, restarts>>

-----------------------------------------------------------------------------
(* PersistentBridgeAlerts, whose file may refuse a write.                    *)
(* Above the threshold all numbers are alike. *)
Counts(entry) ==
    IF entry.failures > AlertAfter THEN entry ELSE [entry EXCEPT !.failures = @ + 1]

CountFailure ==
    /\ phase = "failure"
    /\ actions' = [actions EXCEPT ![treasury] = Counts(@)]
    /\ To("counted")
    /\ UNCHANGED <<journalled, treasury, todo, sending, reading, saved, told, restarts>>

(* Mutant: the operator is told at the threshold, not from it on. *)
IncidentDue_Exact == actions[treasury].failures = AlertAfter /\ ~actions[treasury].alerted

IncidentDue == actions[treasury].failures >= AlertAfter /\ ~actions[treasury].alerted

PersistCount ==
    /\ phase = "counted"
    /\ saved' = actions
    /\ IF IncidentDue THEN Ends("report") ELSE NextTreasury
    /\ UNCHANGED <<journalled, actions, told, restarts>>

Report ==
    /\ phase = "report"
    /\ reports' = [reports EXCEPT ![treasury] = @ + 1]
    /\ actions' = [actions EXCEPT ![treasury].alerted = TRUE]
    /\ To("persist")
    /\ UNCHANGED <<journalled, treasury, todo, sending, reading, saved, revived, restarts>>

Success ==
    /\ phase = "success"
    /\ reports' = [reports EXCEPT ![treasury] = 0]
    /\ revived' = [revived EXCEPT ![treasury] = FALSE]
    /\ actions' = [actions EXCEPT ![treasury] = None]
    /\ IF actions[treasury] = None THEN NextTreasury ELSE Ends("persist")
    /\ UNCHANGED <<journalled, saved, restarts>>

Persist ==
    /\ phase = "persist"
    /\ saved' = actions
    /\ NextTreasury
    /\ UNCHANGED <<journalled, actions, told, restarts>>

(* trackBridgeAlert logs the error and the loop goes on.                     *)
PersistFails ==
    /\ phase \in {"counted", "persist"}
    /\ NextTreasury
    /\ UNCHANGED <<journalled, alerts, restarts>>

BridgeRestart ==
    /\ restarts < MaxRestarts
    /\ restarts' = restarts + 1
    /\ actions' = saved
    /\ revived' = [t \in 1 .. Treasuries |-> saved[t].alerted /\ reports[t] = 0]
    /\ To("read") /\ treasury' = 1 /\ todo' = 0 /\ sending' = "none" /\ Forgets
    /\ UNCHANGED <<journalled, saved, reports>>

RunOnce ==
    \/ ReadState \/ SkipConversion \/ SelectConversion \/ ReadBridgeable \/ Decide
    \/ SettleJournal \/ PreparationFails \/ SignAndSend \/ Receipt
    \/ CountFailure \/ PersistCount \/ Report \/ Success \/ Persist \/ PersistFails

BridgeNext == RunOnce \/ BridgeMinedLate \/ OthersSend \/ OthersSettle \/ BridgeRestart
BridgeSpec == BridgeInit /\ [][BridgeNext]_bridgeVars

(* The loop runs, and the file of the alerts can be written now and then.    *)
BridgeFairness ==
    /\ WF_bridgeVars(RunOnce)
    /\ \A t \in 1 .. Treasuries : SF_bridgeVars(treasury = t /\ PersistCount)

-----------------------------------------------------------------------------
(* What the keeper signs for a treasury it read after everything it sent was  *)
(* mined: a bridge that timed out never has its amount sent once more.  Only  *)
(* if another keeper of the signer settled that bridge in between is nothing  *)
(* found in the journal; the estimate inside the lock is then what refuses    *)
(* an amount the treasury no longer has (sendSigned, readBridgeableUsdc).     *)
AmountIsCurrent == phase = "wait" => current \/ elsewhere

(* A late transaction makes what was read stale, and stays in the journal     *)
(* until the call that would send on it, or another keeper, finds it there.   *)
CurrentOrFound ==
    phase \in {"decide", "send"} => current \/ journalled = "mined" \/ elsewhere

(* A streak of failures is reported once, and once more at most for every     *)
(* restart, however the file fails: a report is remembered until a restart.   *)
ReportedOnce == \A t \in 1 .. Treasuries : reports[t] <= 1 + restarts
ReportsRemembered ==
    /\ \A t \in 1 .. Treasuries :
        reports[t] <= restarts + (IF actions[t].alerted THEN 1 ELSE 0)
    /\ phase = "report" => ~actions[treasury].alerted

CallOK ==
    /\ journalled \in {"none", "open", "mined", "other"}
    /\ phase \in {"read", "convert", "decide", "send", "wait", "counted", "report", "persist"}
                 \cup Outcomes
    /\ treasury \in 1 .. Treasuries
    /\ sending \in {"none", "convert", "forward", "bridge"} /\ current \in BOOLEAN
    /\ elsewhere \in BOOLEAN
AlertsOK ==
    /\ actions \in [1 .. Treasuries -> [failures : Nat, alerted : BOOLEAN]]
    /\ saved \in [1 .. Treasuries -> [failures : Nat, alerted : BOOLEAN]]
    /\ reports \in [1 .. Treasuries -> Nat]
    /\ revived \in [1 .. Treasuries -> BOOLEAN]
    /\ restarts \in 0 .. MaxRestarts
BridgeTypeOK == CallOK /\ AlertsOK /\ todo \in 0 .. Conversions

BridgeInv == BridgeTypeOK /\ AmountIsCurrent /\ CurrentOrFound /\ ReportsRemembered

(* A treasury that only fails is reported in the end, whatever the other      *)
(* treasuries do, however the file fails and however often the keeper starts  *)
(* anew: once, and once more at most for every restart.  The exception is a   *)
(* streak after a restart that read back an alert of an earlier one: a        *)
(* success had ended that streak, but its write failed or never came.         *)
IncidentReported ==
    \A t \in 1 .. Treasuries :
        []<>(actions[t].failures = 0 \/ reports[t] \in 1 .. 1 + restarts \/ revived[t])
=============================================================================
