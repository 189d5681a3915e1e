---------------------------- MODULE CacheMonitoring ----------------------------
(***************************************************************************)
(* libs/cache: the connections of RedisClient with its isConnected flag,   *)
(* and CacheMonitoringService, whose health checks ping Redis, ask it for  *)
(* its figures and evaluate the alert rules one by one.  Checks are        *)
(* started by a timer that does not wait for the one before, and by        *)
(* reports.                                                                *)
(***************************************************************************)
EXTENDS Requests

CONSTANTS
    HealthChecks,       \* checks that may be in flight together
    CacheRules,         \* alert rules, each on a metric of its own
    LostRule            \* "Redis Connection Lost"

ASSUME CacheMonitoringAssumption == LostRule \in CacheRules

VARIABLES
    connection,     \* the status of each of the three ioredis clients
    isConnected,
    connecting,     \* whether a call of connect() is being answered, and how
    ruled,          \* alertRules: those registered and enabled
    bad,            \* the rules whose metric is beyond its threshold at the moment
    cacheAlerts,    \* activeAlerts: "none", "active" or "resolved" for each rule
    saved,          \* alert:<id>
    inspecting,       \* the checks in flight
    verdict,        \* history: how the rule was last evaluated
    unsaved         \* history: rules whose alert could not be written

MonitoringVars == <<connection, isConnected, connecting, ruled, bad, cacheAlerts, saved, inspecting,
                    verdict, unsaved>>

Connections == {"client", "subscriber", "publisher"}
MonitoringInit ==
    /\ connection = [c \in Connections |-> "wait"] /\ isConnected = FALSE /\ connecting = "never"
    /\ ruled = CacheRules /\ bad = {} /\ cacheAlerts = [r \in CacheRules |-> "none"] /\ saved = cacheAlerts
    /\ inspecting = [h \in HealthChecks |-> Resting] /\ verdict = [r \in CacheRules |-> FALSE] /\ unsaved = {}

UnchangedAlerts == UNCHANGED <<ruled, bad, cacheAlerts, saved, inspecting, verdict, unsaved>>

-----------------------------------------------------------------------------
MayOpen(c) == connection[c] \in {"wait", "close", "end"}
\* connect() opens those that wait or have ended, and rejects if another is open already.
connect ==
    /\ connecting # "underway"
    /\ connection' = [c \in Connections |-> IF MayOpen(c) THEN "connecting" ELSE connection[c]]
    /\ connecting' = IF \A c \in Connections : MayOpen(c) THEN "underway" ELSE "rejected"
    /\ UNCHANGED isConnected /\ UnchangedAlerts
connectAnswers ==
    /\ connecting = "underway"
    /\ \/ (\A c \in Connections : connection[c] = "ready") /\ connecting' = "answered"
       \/ (\E c \in Connections : connection[c] \in {"close", "end"}) /\ connecting' = "rejected"
    /\ UNCHANGED <<connection, isConnected>> /\ UnchangedAlerts

\* The flag follows the events of the main client alone.
StatusChanges(c, status) ==
    /\ connection' = [connection EXCEPT ![c] = status]
    /\ isConnected' = CASE c = "client" /\ status = "connect" -> TRUE
                        [] c = "client" /\ status \in {"failed", "close"} -> FALSE
                        [] OTHER -> isConnected
\* A status follows another as ioredis has it: closed, a client connects anew by itself.  A
\* ready client that emitted an error still has the status "ready" until it closes; it is
\* called "failed" here.
Follows(before, after) ==
    <<before, after>> \in {<<"connecting", "connect">>, <<"connect", "ready">>, <<"connecting", "close">>,
                           <<"connect", "close">>, <<"ready", "close">>, <<"ready", "failed">>,
                           <<"failed", "close">>, <<"close", "connecting">>}
ConnectionEvent(c) ==
    /\ \E status \in {"connecting", "connect", "ready", "failed", "close"} :
           Follows(connection[c], status) /\ StatusChanges(c, status)
    /\ UNCHANGED connecting /\ UnchangedAlerts
disconnect ==
    /\ \E c \in Connections : connection[c] # "end"
    /\ connection' = [c \in Connections |-> "end"] /\ isConnected' = FALSE
    /\ UNCHANGED connecting /\ UnchangedAlerts
isReady == isConnected /\ connection["client"] \in {"ready", "failed"}

-----------------------------------------------------------------------------
UnchangedClient == UNCHANGED <<connection, isConnected, connecting>>
Check(h, check) == inspecting' = [inspecting EXCEPT ![h] = check]

\* performCacheCheck: RedisClient.healthCheck turns an error into "unhealthy".
performCacheCheck(h) ==
    /\ inspecting[h] = Resting
    /\ \E pong \in BOOLEAN : Check(h, [pc |-> "info", lost |-> ~pong])
    /\ UNCHANGED <<ruled, bad, cacheAlerts, saved, verdict, unsaved>> /\ UnchangedClient
\* What getInfo throws ends the check as unhealthy, with no rule evaluated.
getInfo(h, works) ==
    LET values == (bad \ {LostRule}) \union (IF inspecting[h].lost THEN {LostRule} ELSE {}) IN
    /\ inspecting[h].pc = "info"
    /\ Check(h, IF works /\ ruled # {} THEN [pc |-> "rules", values |-> values, left |-> ruled] ELSE Resting)
    /\ UNCHANGED <<ruled, bad, cacheAlerts, saved, verdict, unsaved>> /\ UnchangedClient

\* Faulty variant: an alert that was raised is never resolved.
AlertAfterForever(alert, raise) == IF raise THEN "active" ELSE alert

\* A resolved alert stays under its id, so that its rule raises no other.
AlertAfter(alert, raise) ==
    CASE raise /\ alert = "none" -> "active"
      [] ~raise /\ alert = "active" -> "resolved"
      [] OTHER -> alert
evaluateAlertRule(r, values) == r \in values
\* handleAlert and handleAlertResolution write the alert as it is then.
handleAlert(r, alert, works) ==
    /\ saved' = IF works THEN [saved EXCEPT ![r] = alert] ELSE saved
    /\ unsaved' = IF works THEN unsaved \ {r} ELSE unsaved \union {r}
\* One rule of checkAlertRules, which waits for the alert to be written before the next.
checkAlertRule(h, r, works) ==
    LET raise == evaluateAlertRule(r, inspecting[h].values)
        alert == AlertAfter(cacheAlerts[r], raise)
        left == inspecting[h].left \ {r} IN
    /\ inspecting[h].pc = "rules" /\ r \in inspecting[h].left
    /\ Check(h, IF left = {} THEN Resting ELSE [inspecting[h] EXCEPT !.left = left])
    /\ IF r \notin ruled THEN UNCHANGED <<cacheAlerts, saved, verdict, unsaved>>
       ELSE /\ verdict' = [verdict EXCEPT ![r] = raise]
            /\ cacheAlerts' = [cacheAlerts EXCEPT ![r] = alert]
            /\ IF alert = cacheAlerts[r] THEN UNCHANGED <<saved, unsaved>> ELSE handleAlert(r, alert, works)
    /\ UNCHANGED <<ruled, bad>> /\ UnchangedClient

\* A rule added at the end of the map is also met by the checks that go through it.
addAlertRule(r) ==
    /\ r \notin ruled /\ ruled' = ruled \union {r}
    /\ inspecting' = [h \in HealthChecks |->
          IF inspecting[h].pc = "rules" THEN [inspecting[h] EXCEPT !.left = @ \union {r}] ELSE inspecting[h]]
    /\ UNCHANGED <<bad, cacheAlerts, saved, verdict, unsaved>> /\ UnchangedClient
\* Its alert stays, whatever it is.
removeAlertRule(r) ==
    /\ r \in ruled /\ ruled' = ruled \ {r}
    /\ UNCHANGED <<bad, cacheAlerts, saved, inspecting, verdict, unsaved>> /\ UnchangedClient
MetricMoves(r) ==
    /\ bad' = IF r \in bad THEN bad \ {r} ELSE bad \union {r}
    /\ UNCHANGED <<ruled, cacheAlerts, saved, inspecting, verdict, unsaved>> /\ UnchangedClient

getActiveAlerts == {r \in CacheRules : cacheAlerts[r] = "active"}
getAlertHistory == {r \in CacheRules : cacheAlerts[r] # "none"}

ClientNext == connect \/ connectAnswers \/ disconnect \/ \E c \in Connections : ConnectionEvent(c)
MonitoringNext ==
    \/ \E h \in HealthChecks :
        \/ performCacheCheck(h)
        \/ \E works \in BOOLEAN : getInfo(h, works) \/ \E r \in CacheRules : checkAlertRule(h, r, works)
    \/ \E r \in CacheRules : addAlertRule(r) \/ removeAlertRule(r) \/ (r # LostRule /\ MetricMoves(r))
MonitoringSpec == MonitoringInit /\ [][ClientNext \/ MonitoringNext]_MonitoringVars

-----------------------------------------------------------------------------
\* The clients have statuses of ioredis, the alerts those of the interface Alert.
MonitoringTypeOK ==
    /\ connection \in [Connections -> {"wait", "connecting", "connect", "ready", "failed", "close", "end"}]
    /\ isConnected \in BOOLEAN /\ connecting \in {"never", "underway", "answered", "rejected"}
    /\ {cacheAlerts, saved} \subseteq [CacheRules -> {"none", "active", "resolved"}]

\* The client says it is ready just when it is and has not failed, however its connection
\* comes and goes.
ReadyWhenReady == isReady <=> connection["client"] = "ready"

\* The alert of a rule is active just when the rule was last found exceeded, however checks
\* overlap and rules come and go, with the one exception that a rule alerts only once.
AlertsFollowVerdicts ==
    \A r \in CacheRules :
        /\ r \in getActiveAlerts => verdict[r]
        /\ verdict[r] => r \in getAlertHistory

\* What is stored of an alert is its present state, unless the last write failed.
SavedAsRaised == \A r \in CacheRules \ unsaved : saved[r] = cacheAlerts[r]
=============================================================================
