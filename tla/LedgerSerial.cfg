SPECIFICATION SerialSpec
CONSTANTS
    Codes <- CashOnly
    AccountIds = {a1}
    EntryIds = {e1, e2, e3}
    Users = {u1, u2}
    Lines <- Exact
    Tolerance = 1
    Threshold = 3
    NoAccount = NoAccount
    NoEntry = NoEntry
    NoUser = NoUser
CHECK_DEADLOCK FALSE
PROPERTIES ImplementsIdeal
