SPECIFICATION LiveSpec
CONSTANTS
    Sessions = {s1}
    Callers = {c1, c2}
    Ops = {"create", "validate", "update", "destroy", "destroyUser"}
    maxSessions = 1
    TTL = 1
    ClockMoves = TRUE
    RedisMayFail = TRUE
INVARIANTS DestroyedIsGone
PROPERTIES CallsReturn
CHECK_DEADLOCK FALSE
