SPECIFICATION PlatformSpec
CONSTANTS
    Clients = {k1, k2}
    Staff = {k1, k2}
    Admins = {k1}
    Loans = {a1}
    PaymentIds = {p1, p2, p3}
    LoanStates = {"pending", "active"}
    PaymentStates = {"completed"}
    PaidAmounts = {1, 2}
    EventIds = {e1, e2, e3}
    EventTypes = {"loan.application.approved", "loan.application.reviewed"}
    Listeners = {l1}
    Throwing = {l1}
    StoreSize = 2
    Notices = {n1}
    Delays = {0, 1, 3}
    LongestTimer = 2
    LastDay = 3
    Rules = {r1}
    Metrics = {m1}
    Severities = {"critical"}
    Cooldown <- SmallCooldown
    EvaluationWindow = 2
    ResolutionWindow = 1
    HistorySize = 2
    Silences = {2}
    MaxObjects = 2
    LastMinute = 3
    Services = {s1}
    Checks = {c1, c2}
    Retries = 2
    KeptResults = 3
    GatewayServices = {g1}
    Instances = {i1}
    Probes = {b1, b2}
    Identifiers = {x1}
    WindowSize = 2
    MaxRequests = 2
    BlockDuration = 1
    BucketSize = 2
    Refill = 2
    MaxWindow = 4
    MaxGranted = 6
    LastTick = 4
    Users = {u1, u2}
    Applicants = {u1}
    CreditApps = {d1}
    AppStates = {"pending", "approved"}
    MaxVersion = 3
    KeyPrefix = FALSE
    StoreKeys = {v1, v2}
    Items = {j1, j2}
    MaxOrigin = 2
    MaxIncrements = 2
    MaxTold = 2
    HealthChecks = {h1, h2}
    CacheRules = {q1, q2}
    LostRule = q1
    Schedules = {z1, z2}
    DelayedRules = {y1}
    MaxInvalidations = 2
    MaxRetries = 1
    SmeRetries = 1
    MaxRate = 2
    Sockets = {w1, w2, w3}
    NoSocket = none
    Messages = {t1, t2}
    KeepLast = 2
    MaxArrived = 3
    MaxReconnectAttempts = 1
    Images = {i1, i2, i3}
    Present = {i1, i2, i3}
    Dockerfiles = {i1, i2}
    Stages <- TwoStages
    Priority = {i1}
    MaxChecks = 2
CONSTRAINTS FailuresBound OnePayment OneException
CHECK_DEADLOCK FALSE
INVARIANTS PlatformTypeOK   HealthIsFounded 
