SPECIFICATION Spec
CONSTANTS
    Sessions = {s1, s2, s3, s4}
    Callers = {c1, c2}
    Ops = {"create", "destroy"}
    maxSessions = 1
    TTL = 1
    ClockMoves = FALSE
    RedisMayFail = FALSE
INVARIANTS LiveIsIndexed LimitKept
CHECK_DEADLOCK FALSE
