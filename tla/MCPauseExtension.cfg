SPECIFICATION Spec
CONSTANTS
    MIN_PAUSE = 1
    MAX_INFLOWS_PAUSE = 4
    MAX_WITHDRAW_PAUSE = 3
    WITHDRAWAL_RECOVERY_WINDOW = 2
    MaxTime = 6
PROPERTY NoActiveInflowExtension
CHECK_DEADLOCK FALSE
