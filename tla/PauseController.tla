--------------------------- MODULE PauseController ---------------------------
(***************************************************************************)
(* The per-pool circuit breaker (PauseController.sol).  The Safe stops     *)
(* inflows or holds withdrawals for a bounded time; both pauses expire by   *)
(* themselves; exit-only is irreversible.  Time is block.timestamp, in      *)
(* whole units (hours).  Every action is one transaction of the Safe,       *)
(* except Tick, the passing of time between two blocks.                     *)
(***************************************************************************)
EXTENDS Integers

CONSTANTS
    MIN_PAUSE,                   \* shortest pause, 1 hour
    MAX_INFLOWS_PAUSE,           \* 7 days
    MAX_WITHDRAW_PAUSE,          \* 48 hours
    WITHDRAWAL_RECOVERY_WINDOW,  \* 24 hours
    MaxTime                      \* bound: last instant the model reaches

ASSUME PauseAssumption ==
    /\ MIN_PAUSE \in Nat \ {0}
    /\ MAX_INFLOWS_PAUSE \in Nat /\ MIN_PAUSE <= MAX_INFLOWS_PAUSE
    /\ MAX_WITHDRAW_PAUSE \in Nat /\ MIN_PAUSE <= MAX_WITHDRAW_PAUSE
    /\ WITHDRAWAL_RECOVERY_WINDOW \in Nat \ {0}
    /\ MaxTime \in Nat

VARIABLES
    now,                     \* block.timestamp
    inflowsPausedUntil,
    withdrawalsPausedUntil,
    nextWithdrawalPauseAt,
    exitOnly,
    heldFor,                 \* history: time withdrawals have been held without a break
    openFor,                 \* history: time they have been open since they were last held
    everHeld                 \* history: withdrawals have been held for some time

pauseVars == <<inflowsPausedUntil, withdrawalsPausedUntil, nextWithdrawalPauseAt, exitOnly>>
history == <<heldFor, openFor, everHeld>>
vars == <<now, pauseVars, history>>

InflowsPaused == exitOnly \/ now < inflowsPausedUntil

WithdrawalsPaused == now < withdrawalsPausedUntil

Init ==
    /\ now = 0
    /\ inflowsPausedUntil = 0
    /\ withdrawalsPausedUntil = 0
    /\ nextWithdrawalPauseAt = 0
    /\ exitOnly = FALSE
    /\ heldFor = 0
    /\ openFor = 0
    /\ everHeld = FALSE

(* Time passes; the history variables measure the interval that just ended. *)
Tick ==
    /\ now < MaxTime
    /\ now' = now + 1
    /\ heldFor' = IF WithdrawalsPaused THEN heldFor + 1 ELSE 0
    /\ openFor' = IF WithdrawalsPaused THEN 0 ELSE openFor + 1
    /\ everHeld' = IF WithdrawalsPaused THEN TRUE ELSE everHeld
    /\ UNCHANGED pauseVars

PauseInflows(duration) ==
    /\ ~exitOnly
    /\ duration \in MIN_PAUSE .. MAX_INFLOWS_PAUSE
    /\ now >= inflowsPausedUntil
    /\ inflowsPausedUntil' = now + duration
    /\ UNCHANGED <<now, withdrawalsPausedUntil, nextWithdrawalPauseAt, exitOnly, history>>

(* Mutant: the reuse gap is not tested before a new hold. *)
PauseWithdrawals_NoGap(duration) ==
    /\ duration \in MIN_PAUSE .. MAX_WITHDRAW_PAUSE
    /\ now >= withdrawalsPausedUntil
    /\ withdrawalsPausedUntil' = now + duration
    /\ nextWithdrawalPauseAt' = now + duration + WITHDRAWAL_RECOVERY_WINDOW
    /\ inflowsPausedUntil' = IF inflowsPausedUntil < now + duration
                             THEN now + duration ELSE inflowsPausedUntil
    /\ UNCHANGED <<now, exitOnly, history>>

(* Holding withdrawals also stops inflows for at least as long. *)
PauseWithdrawals(duration) ==
    /\ duration \in MIN_PAUSE .. MAX_WITHDRAW_PAUSE
    /\ now >= nextWithdrawalPauseAt
    /\ now >= withdrawalsPausedUntil
    /\ withdrawalsPausedUntil' = now + duration
    /\ nextWithdrawalPauseAt' = now + duration + WITHDRAWAL_RECOVERY_WINDOW
    /\ inflowsPausedUntil' = IF inflowsPausedUntil < now + duration
                             THEN now + duration ELSE inflowsPausedUntil
    /\ UNCHANGED <<now, exitOnly, history>>

UnpauseInflows ==
    /\ ~exitOnly
    /\ now >= withdrawalsPausedUntil
    /\ inflowsPausedUntil' = 0
    /\ UNCHANGED <<now, withdrawalsPausedUntil, nextWithdrawalPauseAt, exitOnly, history>>

(* Mutant: an early resume forgets the reuse gap. *)
UnpauseWithdrawals_NoGap ==
    /\ now < withdrawalsPausedUntil
    /\ withdrawalsPausedUntil' = 0
    /\ nextWithdrawalPauseAt' = now
    /\ UNCHANGED <<now, inflowsPausedUntil, exitOnly, history>>

UnpauseWithdrawals ==
    /\ now < withdrawalsPausedUntil
    /\ withdrawalsPausedUntil' = 0
    /\ nextWithdrawalPauseAt' = now + WITHDRAWAL_RECOVERY_WINDOW
    /\ UNCHANGED <<now, inflowsPausedUntil, exitOnly, history>>

ActivateExitOnly ==
    /\ ~exitOnly
    /\ exitOnly' = TRUE
    /\ UNCHANGED <<now, inflowsPausedUntil, withdrawalsPausedUntil, nextWithdrawalPauseAt, history>>

Next ==
    \/ Tick
    \/ \E duration \in MIN_PAUSE .. MAX_INFLOWS_PAUSE : PauseInflows(duration)
    \/ \E duration \in MIN_PAUSE .. MAX_WITHDRAW_PAUSE : PauseWithdrawals(duration)
    \/ UnpauseInflows
    \/ UnpauseWithdrawals
    \/ ActivateExitOnly

Spec == Init /\ [][Next]_vars

-----------------------------------------------------------------------------
(* Every variable has its type. *)
TypeOK ==
    /\ now \in Nat
    /\ inflowsPausedUntil \in Nat
    /\ withdrawalsPausedUntil \in Nat
    /\ nextWithdrawalPauseAt \in Nat
    /\ exitOnly \in BOOLEAN
    /\ heldFor \in Nat
    /\ openFor \in Nat
    /\ everHeld \in BOOLEAN

(* No sequence of pauses, early resumes and expiries keeps withdrawals held *)
(* without a break for longer than one maximal pause (_pauseWithdrawals).   *)
HoldIsBounded == heldFor <= MAX_WITHDRAW_PAUSE

(* While users cannot withdraw nobody can be let in: a withdrawal hold      *)
(* implies an inflow pause, whichever order the Safe pauses and resumes in. *)
HoldStopsInflows == WithdrawalsPaused => InflowsPaused

(* A hold starts only after withdrawals have been open for a whole recovery *)
(* window since the previous hold, however that one ended.                  *)
ReuseGap ==
    [][ (~WithdrawalsPaused /\ WithdrawalsPaused' /\ everHeld)
            => openFor >= WITHDRAWAL_RECOVERY_WINDOW ]_vars

(* What docs/SECURITY.md says of inflow pauses, "with no active extension": *)
(* the end of an inflow pause in force is only ever moved by resuming.      *)
NoActiveInflowExtension ==
    [][ now < inflowsPausedUntil => inflowsPausedUntil' \in {0, inflowsPausedUntil} ]_vars

(* The inductive strengthening behind the three properties above: what is   *)
(* left of a hold fits in its bound, and the next hold is booked beyond the  *)
(* recovery window, counted from the moment withdrawals reopen.              *)
HeldWithinPause ==
    WithdrawalsPaused => heldFor + (withdrawalsPausedUntil - now) <= MAX_WITHDRAW_PAUSE
GapBooked ==
    WithdrawalsPaused =>
        nextWithdrawalPauseAt = withdrawalsPausedUntil + WITHDRAWAL_RECOVERY_WINDOW
GapReserved ==
    everHeld /\ ~WithdrawalsPaused =>
        nextWithdrawalPauseAt + openFor >= now + WITHDRAWAL_RECOVERY_WINDOW
HeldOrOpen == heldFor > 0 => openFor = 0 /\ everHeld
InflowsOutlastHold == WithdrawalsPaused => inflowsPausedUntil >= withdrawalsPausedUntil

IInv ==
    /\ TypeOK
    /\ HoldIsBounded
    /\ HeldWithinPause
    /\ GapBooked
    /\ GapReserved
    /\ HeldOrOpen
    /\ InflowsOutlastHold
=============================================================================
