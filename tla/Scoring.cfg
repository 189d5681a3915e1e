SPECIFICATION ScoringSpec
CONSTANTS
    Users = {u1}
    Values = {2, 6}
    Limits = {0, 10}
    Scores = {150, 1000}
    MixFull = 20
    DaysPerTick = 365
    MaxUpdates = 6
    MaxTime = 3
    Incomes = {0, 50000}
    AccountAges = {0, 3, 6, 13, 25}
    Amounts = {50000, 100000, 2000000}
    Terms = {3, 12, 36, 48}
    CreditScores = {0, 600, 650, 850}
    JobDurations = {0, 6, 12, 36}
    DebtShares = {0, 250, 450, 700}
    Ages = {18, 22, 25}
    Businesses <- SmallBusinesses
CHECK_DEADLOCK FALSE
INVARIANTS ScoringTypeOK   CompliantIsDocumented
