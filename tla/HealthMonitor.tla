----------------------------- MODULE HealthMonitor -----------------------------
(***************************************************************************)
(* services/monitoring, HealthMonitor: services that are checked at an     *)
(* interval.  A check is up to Retries requests with a pause in between,   *)
(* and its result is filed when it ends, whatever happened to the service  *)
(* and however many other checks of it began or ended meanwhile.           *)
(***************************************************************************)
EXTENDS Requests

CONSTANTS
    Services,
    Checks,        \* checks in flight at once
    Retries,       \* retries, 3
    KeptResults    \* maxHistory, 2880

VARIABLES
    registered,    \* services: names, each with its interval
    health,        \* healthChecks
    results,       \* healthHistory
    checking,      \* the checks in flight
    system,        \* the health of system_memory, which is checked every 30 seconds
    crossed        \* history: services with a check in flight when they were unregistered

ASSUME HealthAssumption == KeptResults \in Nat \ {0}

HealthVars == <<registered, health, results, checking, system, crossed>>

NoHealth == [status |-> "unknown"]
Statuses == {"healthy", "degraded", "unhealthy"}
Health == [status : Statuses, failures : Nat]
InFlight == {c \in Checks : checking[c] # Resting}

HealthInit ==
    /\ registered = {} /\ health = [s \in Services |-> NoHealth] /\ results = [s \in Services |-> <<>>]
    /\ checking = [c \in Checks |-> Resting] /\ system = "unknown" /\ crossed = {}

-----------------------------------------------------------------------------
Begin(s) == \E c \in Checks \ InFlight : checking' = [checking EXCEPT ![c] = [pc |-> "check", service |-> s, attempt |-> 0]]

\* Registering again keeps what is known; the interval is replaced, and a check begins at once.
registerService(s) ==
    /\ registered' = registered \union {s} /\ Begin(s)
    /\ UNCHANGED <<health, results, system, crossed>>

\* Faulty variant: the history stays.
unregisterServiceOnly(s) ==
    /\ s \in registered /\ registered' = registered \ {s}
    /\ health' = [health EXCEPT ![s] = NoHealth] /\ UNCHANGED results
    /\ crossed' = IF \E c \in InFlight : checking[c].service = s THEN crossed \union {s} ELSE crossed
    /\ UNCHANGED <<checking, system>>

unregisterService(s) ==
    /\ s \in registered /\ registered' = registered \ {s}
    /\ health' = [health EXCEPT ![s] = NoHealth] /\ results' = [results EXCEPT ![s] = <<>>]
    /\ crossed' = IF \E c \in InFlight : checking[c].service = s THEN crossed \union {s} ELSE crossed
    /\ UNCHANGED <<checking, system>>

\* The interval's tick, performManualCheck, or updateServiceConfig with another interval.
performHealthCheck(s) ==
    /\ s \in registered /\ Begin(s)
    /\ UNCHANGED <<registered, health, results, system, crossed>>

\* The service's answer: a status that is not the expected one, or its own word for it, is
\* bad health; text that is not the expected one, or its own word, is degraded.
checkServiceHealth(answer) ==
    CASE answer.code # "expected" \/ answer.says \in {"unhealthy", "down"} -> "unhealthy"
      [] answer.text # "expected" \/ answer.says \in {"degraded", "warning"} -> "degraded"
      [] OTHER -> "healthy"
Answers == [code : {"expected", "other"}, text : {"expected", "other"}, says : {"ok", "warning", "down"}]

Share(history) == Cardinality({i \in DOMAIN history : history[i]})
\* calculateUptime and calculateAvailability: all three periods look at the same results.
uptime(s) == IF results[s] = <<>> THEN 100 ELSE (100 * Share(results[s])) \div Len(results[s])

updateHealthCheck(s, status, answered) ==
    LET kept == Append(results[s], answered)
        before == IF health[s] = NoHealth THEN 0 ELSE health[s].failures IN
    /\ health' = [health EXCEPT ![s] = [status |-> status, failures |-> IF answered THEN 0 ELSE before + 1]]
    /\ results' = [results EXCEPT ![s] = IF Len(kept) > KeptResults THEN Tail(kept) ELSE kept]

\* An answer, of whatever status, ends the check as passed.
Answered(c, answer) ==
    /\ c \in InFlight
    /\ updateHealthCheck(checking[c].service, checkServiceHealth(answer), TRUE)
    /\ checking' = [checking EXCEPT ![c] = Resting]
    /\ UNCHANGED <<registered, system, crossed>>
NoAnswer(c) ==
    /\ c \in InFlight
    /\ IF checking[c].attempt + 1 < Retries
       THEN /\ checking' = [checking EXCEPT ![c].attempt = @ + 1] /\ UNCHANGED <<health, results>>
       ELSE /\ updateHealthCheck(checking[c].service, "unhealthy", FALSE)
            /\ checking' = [checking EXCEPT ![c] = Resting]
    /\ UNCHANGED <<registered, system, crossed>>

\* More than a gigabyte of heap is degraded, more than two unhealthy.
checkSystemResources ==
    /\ system' \in Statuses
    /\ UNCHANGED <<registered, health, results, checking, crossed>>

HealthNext ==
    \/ checkSystemResources
    \/ \E s \in Services : registerService(s) \/ unregisterService(s) \/ performHealthCheck(s)
    \/ \E c \in Checks : NoAnswer(c) \/ \E answer \in Answers : Answered(c, answer)
HealthSpec == HealthInit /\ [][HealthNext]_HealthVars

\* Bound: consecutive failures beyond the history are not told apart.
FailuresBound == \A s \in Services : health[s] = NoHealth \/ health[s].failures <= KeptResults + 1

-----------------------------------------------------------------------------
\* getOverallHealth: the worst of what is known, of registered services or not.
getOverallHealth ==
    LET known == {health[s].status : s \in Services} \union {system} IN
    IF "unhealthy" \in known THEN "unhealthy" ELSE IF "degraded" \in known THEN "degraded" ELSE "healthy"

\* The state is of the types of health-monitor.ts.
HealthTypeOK ==
    /\ registered \subseteq Services /\ system \in Statuses \union {"unknown"} /\ health \in [Services -> Health \union {NoHealth}]
    /\ results \in [Services -> Seq(BOOLEAN)] /\ \A s \in Services : Len(results[s]) <= KeptResults

\* A service has a health exactly if it has results, and its consecutive failures are the
\* results at the end that failed (as far as the history reaches back): whatever checks
\* overlap, and however often it is registered.
FailuresAreCounted ==
    \A s \in Services :
        LET n == Len(results[s]) IN
        IF health[s] = NoHealth THEN n = 0
        ELSE /\ n > 0
             /\ \A i \in 1 .. n : i > n - health[s].failures => ~results[s][i]
             /\ health[s].failures < n => results[s][n - health[s].failures]

\* Only a service that is registered, or that had a check in flight when it was unregistered,
\* counts in the overall health.
OnlyWatchedCount == \A s \in Services : health[s] # NoHealth => s \in registered \union crossed
=============================================================================
