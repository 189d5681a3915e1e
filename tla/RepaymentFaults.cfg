SPECIFICATION FaultySpec
CONSTANTS
    Schedules = {s1}
    Installments = {i1, i2}
    Txns = {t1, t2, t3}
    AutoDebits = {a1}
    NoSchedule = NoSchedule
    NoInstallment = NoInstallment
    NoTxn = NoTxn
    NoAutoDebit = NoAutoDebit
CHECK_DEADLOCK FALSE
SYMMETRY Symmetry
INVARIANTS TypeOK PaidWasCharged CompletedOnlyWhenAllCharged RecordsMatchCharges
