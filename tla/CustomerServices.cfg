SPECIFICATION CustomerSpec
CONSTANTS
    Clients = {k1, k2}
    Staff = {k1, k2}
    Applications = {a1}
    Uploads = {d1, d2}
    ApplicantTypes = {"individual", "business"}
    KycLevels = {"tier_1"}
    Numbers = {n1}
    HomeNumbers = {n1}
    MaxDocuments = 1
    Cases = {c1}
    Actions = {x1}
    Delinquencies <- SmallDelinquencies
    MaxSteps = 1
    Jobs = {j1, j2}
    Orders <- SmallOrders
    Strict = FALSE
    Messages = {m1}
    Recipients = {r1, r2}
    Blacklisted = {r2}
    Unsubscribed = {}
    MaxCalls = 2
    Users = {u1, u2, u3}
    Emails = {e1}
    Roles = {"user", "admin"}
    Keys = {i1}
    Founder = u1
    FoundersEmail = e0
    MaxTokens = 2
    MaxPasswords = 2
    Draws = {0}
    Lenders = {v1, v2}
    ProviderEmails = {e1}
    Submissions <- SmallSubmissions
    MarginUpdates <- SmallMargins
    LeadAmounts = {100, 150}
    MaxActions = 4
    MaxWork = 2
SYMMETRY Symmetry
CONSTRAINT OneUnwelcome
CHECK_DEADLOCK FALSE
INVARIANTS CustomerTypeOK   
