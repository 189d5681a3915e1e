SPECIFICATION SerialSpec
CONSTANTS
    Schedules = {s1}
    Installments = {i1, i2}
    Txns = {t1, t2, t3}
    AutoDebits = {a1, a2}
    NoSchedule = NoSchedule
    NoInstallment = NoInstallment
    NoTxn = NoTxn
    NoAutoDebit = NoAutoDebit
CHECK_DEADLOCK FALSE
PROPERTIES ImplementsIdeal
INVARIANTS PointerNamesItsSetup
