------------------------------ MODULE RateLimiter ------------------------------
(***************************************************************************)
(* libs/cache, RateLimitingService: a sliding window of the requests of an *)
(* identifier, a block for those that exceed it, and a token bucket.  The  *)
(* pipeline and the script are atomic in Redis; the reads and writes       *)
(* around them are steps of their own.  When Redis fails, requests pass.   *)
(***************************************************************************)
EXTENDS Requests, Functions

CONSTANTS
    Identifiers,
    WindowSize, MaxRequests, BlockDuration,   \* of a rule, in ticks
    BucketSize, Refill,                       \* tokens, and ticks for each
    MaxWindow, MaxGranted, LastTick           \* bounds: requests in a window, tokens granted, and the clock

ASSUME RateLimiterAssumption ==
    /\ {WindowSize, MaxRequests, BlockDuration, BucketSize, MaxWindow, MaxGranted, LastTick} \subseteq Nat
    /\ Refill \in Nat \ {0}

VARIABLES
    window,      \* limit:<identifier>: how many requests it has of each tick
    blocked,     \* block:<identifier>, until when; 0 for no such key
    limiting,    \* the request each client is in
    bucket,      \* bucket:<identifier>
    tick,
    passed,      \* history: those allowed by the window, of the last WindowSize ticks
    granted,     \* history: tokens granted since the bucket was new
    openedAt     \* history: when it was

LimiterVars == <<window, blocked, limiting, bucket, tick, passed, granted, openedAt>>
NoBucket == [tokens |-> -1]
Ticks == 0 .. LastTick
NoRequests == [t \in Ticks |-> 0]

LimiterInit ==
    /\ window = [i \in Identifiers |-> NoRequests] /\ blocked = [i \in Identifiers |-> 0]
    /\ limiting = [k \in Clients |-> Resting] /\ bucket = [i \in Identifiers |-> NoBucket] /\ tick = 0
    /\ passed = [i \in Identifiers |-> NoRequests] /\ granted = [i \in Identifiers |-> 0]
    /\ openedAt = [i \in Identifiers |-> 0]

\* What is left of the last WindowSize ticks, with one more request.
WithRequest(times, now) ==
    [t \in Ticks |-> (IF t > now - WindowSize THEN times[t] ELSE 0) + (IF t = now THEN 1 ELSE 0)]

-----------------------------------------------------------------------------
\* A failing read counts as not blocked.
isBlocked(i) == blocked[i] > tick
checkRateLimit(k, i, works) ==
    /\ limiting[k] = Resting /\ ~(works /\ isBlocked(i))
    /\ limiting' = [limiting EXCEPT ![k] = [pc |-> "window", id |-> i]]
    /\ UNCHANGED <<window, blocked, bucket, tick, passed, granted, openedAt>>

\* Faulty variant: the request itself is not counted.
AllowedBefore(times) == SumFunction(times) <= MaxRequests + 1

Allowed(times) == SumFunction(times) <= MaxRequests

\* The request is added to the window, allowed or not.
slidingWindowRateLimit(k) ==
    LET i == limiting[k].id
        now == WithRequest(window[i], tick) IN
    /\ limiting[k].pc = "window" /\ SumFunction(now) <= MaxWindow
    /\ window' = [window EXCEPT ![i] = now]
    /\ IF Allowed(now)
       THEN /\ passed' = [passed EXCEPT ![i] = WithRequest(@, tick)]
            /\ limiting' = [limiting EXCEPT ![k] = Resting]
       ELSE limiting' = [limiting EXCEPT ![k].pc = "block"] /\ UNCHANGED passed
    /\ UNCHANGED <<blocked, bucket, tick, granted, openedAt>>
\* Redis does not answer: the request passes, and nothing is counted.
FailOpen(k) ==
    /\ limiting[k].pc = "window" /\ limiting' = [limiting EXCEPT ![k] = Resting]
    /\ UNCHANGED <<window, blocked, bucket, tick, passed, granted, openedAt>>
blockIdentifier(k, works) ==
    /\ limiting[k].pc = "block"
    /\ blocked' = IF works THEN [blocked EXCEPT ![limiting[k].id] = tick + BlockDuration] ELSE blocked
    /\ limiting' = [limiting EXCEPT ![k] = Resting]
    /\ UNCHANGED <<window, bucket, tick, passed, granted, openedAt>>
unblockIdentifier(i) ==
    /\ blocked[i] # 0 /\ blocked' = [blocked EXCEPT ![i] = 0]
    /\ UNCHANGED <<window, limiting, bucket, tick, passed, granted, openedAt>>
resetRateLimit(i) ==
    /\ window' = [window EXCEPT ![i] = NoRequests] /\ blocked' = [blocked EXCEPT ![i] = 0]
    /\ bucket' = [bucket EXCEPT ![i] = NoBucket]
    /\ passed' = [passed EXCEPT ![i] = NoRequests] /\ granted' = [granted EXCEPT ![i] = 0]
    /\ UNCHANGED <<limiting, tick, openedAt>>

\* Faulty variant: a token that is partly earned is given.
TokensToAddSoon(elapsed) == (elapsed + Refill - 1) \div Refill

TokensToAdd(elapsed) == elapsed \div Refill

\* The time is used up even when it earned no token.
tokenBucketRateLimit(i, requested) ==
    LET new == bucket[i] = NoBucket
        before == IF new THEN BucketSize ELSE bucket[i].tokens + TokensToAdd(tick - bucket[i].lastRefill)
        tokens == IF before < BucketSize THEN before ELSE BucketSize
        spent == IF tokens >= requested THEN requested ELSE 0 IN
    /\ granted[i] + spent <= MaxGranted
    /\ bucket' = [bucket EXCEPT ![i] = [tokens |-> tokens - spent, lastRefill |-> tick]]
    /\ granted' = [granted EXCEPT ![i] = @ + spent]
    /\ openedAt' = [openedAt EXCEPT ![i] = IF new THEN tick ELSE @]
    /\ UNCHANGED <<window, blocked, limiting, tick, passed>>

NextTick ==
    /\ tick < LastTick /\ tick' = tick + 1
    /\ UNCHANGED <<window, blocked, limiting, bucket, passed, granted, openedAt>>

LimiterNext ==
    \/ \E k \in Clients, works \in BOOLEAN :
           blockIdentifier(k, works) \/ \E i \in Identifiers : checkRateLimit(k, i, works)
    \/ \E k \in Clients : slidingWindowRateLimit(k) \/ FailOpen(k)
    \/ \E i \in Identifiers : unblockIdentifier(i) \/ resetRateLimit(i)
    \/ NextTick
BucketNext ==
    \/ \E i \in Identifiers : resetRateLimit(i) \/ \E n \in 1 .. BucketSize : tokenBucketRateLimit(i, n)
    \/ NextTick
LimiterSpec == LimiterInit /\ [][LimiterNext \/ BucketNext]_LimiterVars

-----------------------------------------------------------------------------
\* The keys hold what RateLimitingService puts there.
LimiterTypeOK ==
    /\ window \in [Identifiers -> [Ticks -> Nat]] /\ blocked \in [Identifiers -> 0 .. LastTick + BlockDuration]
    /\ bucket \in [Identifiers -> {NoBucket} \union [tokens : 0 .. BucketSize, lastRefill : 0 .. LastTick]]

\* However requests interleave, no more than MaxRequests pass the window in any WindowSize
\* ticks since the last reset.
WindowLimit == \A i \in Identifiers : SumFunction(passed[i]) <= MaxRequests

\* A bucket never grants more than it held when new and has earned since.
TokensAreEarned ==
    \A i \in Identifiers : bucket[i] # NoBucket
        => bucket[i].tokens + granted[i] <= BucketSize + (tick - openedAt[i]) \div Refill
=============================================================================
