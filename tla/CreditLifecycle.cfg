SPECIFICATION Spec
CONSTANTS
    Users = {u1, u2}
    Tokens = {t1}
    CreditIds = {1, 2}
    Deposits = {20, 40}
    Locks = {0, 20}
    Principals = {10, 40}
    Durations = {1}
    Prices = {1, 3}
    MinimumScore = 500
    Values = {}
    Limits = {}
    Scores = {}
    MixFull = 20
    DaysPerTick = 365
    MaxHeld = 40
    MaxTime = 3
CHECK_DEADLOCK FALSE
INVARIANTS LockedBacksActiveCredits ManagerIsSolvent HistoryMatchesCredits
PROPERTIES CreditsSettleOnce
