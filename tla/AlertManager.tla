----------------------------- MODULE AlertManager ------------------------------
(***************************************************************************)
(* services/monitoring: the samples MetricsCollector keeps, and the        *)
(* AlertManager that every minute compares the latest of them with its     *)
(* rules.  A sample is over the threshold or not.  Time is in minutes.     *)
(***************************************************************************)
EXTENDS Requests, SequencesExt

CONSTANTS
    Rules, Metrics,
    Severities, Cooldown,   \* getCooldownPeriod: minutes for each severity
    EvaluationWindow,       \* 5: how old a sample may be that raises an alert
    ResolutionWindow,       \* 2: how old a sample may be that keeps one active
    HistorySize,            \* maxMetricsHistory
    Silences,               \* for how long a rule is silenced
    MaxObjects, LastMinute  \* bounds: rules ever added, and the clock

ASSUME AlertsAssumption ==
    /\ Cooldown \in [Severities -> Nat] /\ EvaluationWindow \in Nat
    /\ \A s \in Severities : Cooldown[s] >= EvaluationWindow
    /\ HistorySize \in Nat /\ Silences \subseteq Nat /\ MaxObjects \in Nat /\ LastMinute \in Nat

VARIABLES
    samples,      \* metrics: the last of each name
    timers,       \* names being timed
    measuring,    \* what each client is measuring
    rules,        \* alertRules; `object` tells a rule from one of its name before it
    alerts,       \* activeAlerts
    lastAlert,    \* alertCooldowns
    wakeups,      \* timers of silenceRule: [object, at]
    minute,
    raised,       \* history: [rule, metric, by, at], `by` the sample that raised the alert
    objects,      \* history: rules added so far
    quietUntil,   \* history: until when each rule object was asked to be silent
    disturbed,    \* history: objects silenced again, or updated, while silent
    shared, unmeasured    \* history: names timed twice at once, or whose measure was lost

AlertVars == <<samples, timers, measuring, rules, alerts, lastAlert, wakeups, minute, raised, objects,
               quietUntil, disturbed, shared, unmeasured>>
RuleVars == <<rules, wakeups, objects, quietUntil, disturbed>>
SampleVars == <<samples, timers, measuring, shared, unmeasured>>

NoRule == [object |-> 0]
Rule == [object : 1 .. MaxObjects, severity : Severities, enabled : BOOLEAN, works : BOOLEAN]
Sample == [over : BOOLEAN, at : 0 .. LastMinute]
Pairs == Rules \X Metrics

AlertsInit ==
    /\ samples = [m \in Metrics |-> <<>>] /\ timers = {} /\ measuring = [k \in Clients |-> "none"]
    /\ rules = [r \in Rules |-> NoRule] /\ alerts = {} /\ lastAlert = [p \in Pairs |-> -1]
    /\ wakeups = {} /\ minute = 0 /\ raised = {} /\ objects = 0
    /\ quietUntil = [o \in 1 .. MaxObjects |-> 0] /\ disturbed = {} /\ shared = {} /\ unmeasured = {}

-----------------------------------------------------------------------------
\* Faulty variant: the history is trimmed before the new sample is added.
storeMetricLater(m, over) ==
    LET kept == samples[m] IN
    samples' = [samples EXCEPT ![m] = Append(IF Len(kept) > HistorySize THEN Tail(kept) ELSE kept,
                                             [over |-> over, at |-> minute])]

\* MetricsCollector
storeMetric(m, over) ==
    LET kept == Append(samples[m], [over |-> over, at |-> minute]) IN
    samples' = [samples EXCEPT ![m] = IF Len(kept) > HistorySize THEN Tail(kept) ELSE kept]
setGauge(m, over) ==
    /\ \A i \in DOMAIN samples[m] : samples[m][i].at # minute
    /\ storeMetric(m, over)
    /\ UNCHANGED <<timers, measuring, shared, unmeasured, alerts, lastAlert, minute, raised, RuleVars>>
\* One timer for a name, whoever started it.
startTimer(k, m) ==
    /\ measuring[k] = "none" /\ measuring' = [measuring EXCEPT ![k] = m]
    /\ timers' = timers \union {m}
    /\ shared' = IF \E j \in Clients : measuring[j] = m THEN shared \union {m} ELSE shared
    /\ UNCHANGED <<samples, unmeasured, alerts, lastAlert, minute, raised, RuleVars>>

\* Faulty variant: what fails is not measured.
endTimerUnlessFailed(k, over) ==
    LET m == measuring[k] IN
    /\ m # "none" /\ measuring' = [measuring EXCEPT ![k] = "none"]
    /\ timers' = timers \ {m}
    /\ \/ /\ m \in timers /\ storeMetric(m, over) /\ UNCHANGED unmeasured
       \/ /\ unmeasured' = unmeasured \union {m} /\ UNCHANGED samples
    /\ UNCHANGED <<shared, alerts, lastAlert, minute, raised, RuleVars>>

\* measureAsync ends the timer whether the call succeeds or fails.
endTimer(k, over) ==
    LET m == measuring[k] IN
    /\ m # "none" /\ measuring' = [measuring EXCEPT ![k] = "none"]
    /\ timers' = timers \ {m}
    /\ \/ /\ m \in timers /\ storeMetric(m, over) /\ UNCHANGED unmeasured
       \/ /\ m \notin timers /\ unmeasured' = unmeasured \union {m} /\ UNCHANGED samples
    /\ UNCHANGED <<shared, alerts, lastAlert, minute, raised, RuleVars>>
\* Where they are in the history.
getMetrics(m, since) == {i \in DOMAIN samples[m] : samples[m][i].at >= since}

-----------------------------------------------------------------------------
\* A rule that arrives as JSON, over POST /alerts/rules, has no condition to call.
addRule(r, severity, works) ==
    /\ objects < MaxObjects /\ objects' = objects + 1
    /\ rules' = [rules EXCEPT ![r] = [object |-> objects + 1, severity |-> severity,
                                      enabled |-> TRUE, works |-> works]]
    /\ UNCHANGED <<alerts, lastAlert, wakeups, minute, raised, quietUntil, disturbed, SampleVars>>
removeRule(r) ==
    /\ rules[r] \in Rule /\ rules' = [rules EXCEPT ![r] = NoRule]
    /\ UNCHANGED <<alerts, lastAlert, wakeups, minute, raised, objects, quietUntil, disturbed, SampleVars>>
updateRule(r, severity, enabled) ==
    /\ rules[r] \in Rule
    /\ rules' = [rules EXCEPT ![r].severity = severity, ![r].enabled = enabled]
    /\ disturbed' = disturbed \union {rules[r].object}
    /\ UNCHANGED <<alerts, lastAlert, wakeups, minute, raised, objects, quietUntil, SampleVars>>

\* Faulty variant: the rule is enabled again a minute early.
silenceRuleBriefly(r, duration) ==
    LET object == rules[r].object IN
    /\ rules[r] \in Rule /\ rules' = [rules EXCEPT ![r].enabled = FALSE]
    /\ wakeups' = wakeups \union {[object |-> object, at |-> minute + duration - 1]}
    /\ quietUntil' = [quietUntil EXCEPT ![object] = minute + duration]
    /\ disturbed' = IF \E w \in wakeups : w.object = object THEN disturbed \union {object} ELSE disturbed
    /\ UNCHANGED <<alerts, lastAlert, minute, raised, objects, SampleVars>>

silenceRule(r, duration) ==
    LET object == rules[r].object IN
    /\ rules[r] \in Rule /\ rules' = [rules EXCEPT ![r].enabled = FALSE]
    /\ wakeups' = wakeups \union {[object |-> object, at |-> minute + duration]}
    /\ quietUntil' = [quietUntil EXCEPT ![object] = minute + duration]
    /\ disturbed' = IF \E w \in wakeups : w.object = object THEN disturbed \union {object} ELSE disturbed
    /\ UNCHANGED <<alerts, lastAlert, minute, raised, objects, SampleVars>>
\* The timer holds the rule's object: one that replaced it is not touched.
Unsilence(w) ==
    /\ w \in wakeups /\ w.at <= minute /\ wakeups' = wakeups \ {w}
    /\ rules' = [r \in Rules |-> IF rules[r].object = w.object THEN [rules[r] EXCEPT !.enabled = TRUE]
                                 ELSE rules[r]]
    /\ UNCHANGED <<alerts, lastAlert, minute, raised, objects, quietUntil, disturbed, SampleVars>>

\* Faulty variant: no cooldown, only the active alert holds another back.
MayRaiseOnceResolved(r, m) == \A a \in alerts : <<a.rule, a.metric>> # <<r, m>>

\* triggerAlert: neither cooling down nor active.
MayRaise(r, m) ==
    /\ lastAlert[<<r, m>>] = -1 \/ minute - lastAlert[<<r, m>>] >= Cooldown[rules[r].severity]
    /\ \A a \in alerts : <<a.rule, a.metric>> # <<r, m>>
Over(m, window) == {i \in getMetrics(m, minute - window) : samples[m][i].over}
\* The alert names the first of them.
FirstOver(m) == samples[m][Min(Over(m, EvaluationWindow))].at

\* checkResolvedAlerts: of an alert whose rule is gone, or whose metric is silent, nothing is known.
Doubtful(a) == rules[a.rule] \in Rule /\ getMetrics(a.metric, minute - ResolutionWindow) # {}
Recovered(a) == Doubtful(a) /\ rules[a.rule].works /\ Over(a.metric, ResolutionWindow) = {}
Breaks(a) == Doubtful(a) /\ ~rules[a.rule].works
\* A rule without a condition throws, and the alerts after its own are not looked at.
ResolvedOf(all) ==
    LET recovered == {a \in all : Recovered(a)}
        broken == {a \in all : Breaks(a)} IN
    {done \in SUBSET recovered :
        /\ \A a \in recovered : (\A b \in broken : a.at < b.at) => a \in done
        /\ \A a \in done, b \in broken : a.at <= b.at}

evaluateRules ==
    LET firing == {p \in Pairs : /\ rules[p[1]] \in Rule /\ rules[p[1]].enabled /\ rules[p[1]].works
                                 /\ Over(p[2], EvaluationWindow) # {} /\ MayRaise(p[1], p[2])}
        new == {[rule |-> p[1], metric |-> p[2], at |-> minute] : p \in firing} IN
    /\ \E done \in ResolvedOf(alerts \union new) : alerts' = (alerts \union new) \ done
    /\ raised' = raised \union {[rule |-> p[1], metric |-> p[2], at |-> minute,
                                 by |-> FirstOver(p[2])] : p \in firing}
    /\ lastAlert' = [p \in Pairs |-> IF p \in firing THEN minute ELSE lastAlert[p]]
    /\ UNCHANGED <<minute, RuleVars, SampleVars>>
manuallyResolveAlert(a) ==
    /\ a \in alerts /\ alerts' = alerts \ {a}
    /\ UNCHANGED <<lastAlert, minute, raised, RuleVars, SampleVars>>
NextMinute ==
    /\ minute < LastMinute /\ \A w \in wakeups : w.at > minute
    /\ minute' = minute + 1
    /\ UNCHANGED <<alerts, lastAlert, raised, RuleVars, SampleVars>>

AlertsNext ==
    \/ \E m \in Metrics, over \in BOOLEAN : setGauge(m, over)
    \/ \E r \in Rules, severity \in Severities, on \in BOOLEAN :
           addRule(r, severity, on) \/ updateRule(r, severity, on)
    \/ \E r \in Rules : removeRule(r) \/ \E duration \in Silences : silenceRule(r, duration)
    \/ \E w \in wakeups : Unsilence(w)
    \/ \E a \in alerts : manuallyResolveAlert(a)
    \/ evaluateRules \/ NextMinute
MeasuresNext ==
    \/ \E k \in Clients, m \in Metrics : startTimer(k, m)
    \/ \E k \in Clients, over \in BOOLEAN : endTimer(k, over)
    \/ NextMinute
AlertsSpec == AlertsInit /\ [][AlertsNext \/ MeasuresNext]_AlertVars

-----------------------------------------------------------------------------
\* The state is of the types of monitoring.ts and alert-manager.ts.
AlertsTypeOK ==
    /\ samples \in [Metrics -> Seq(Sample)] /\ \A m \in Metrics : Len(samples[m]) <= HistorySize
    /\ rules \in [Rules -> Rule \union {NoRule}] /\ timers \subseteq Metrics
    /\ alerts \subseteq [rule : Rules, metric : Metrics, at : 0 .. LastMinute]

\* A sample is not alerted about twice: by the time the cooldown is over it has left the
\* window, or leaves it in that very minute; resolving the alert by hand, or adding the rule
\* again, changes nothing about that.
SampleRaisesOnce ==
    \A a, b \in raised : a.rule = b.rule /\ a.metric = b.metric /\ a.by = b.by
                         => a.at = b.at \/ a.at - b.at \in {EvaluationWindow, -EvaluationWindow}

\* A silenced rule stays silent for the time asked for, unless it was silenced once more, or
\* updated, meanwhile: then the first timer ends the later silence.
SilenceHolds ==
    \A r \in Rules : rules[r] \in Rule /\ rules[r].object \notin disturbed /\ rules[r].enabled
                     => quietUntil[rules[r].object] <= minute

\* A measure is lost only if two calls of a name were timed at once.
MeasuresAreKept == unmeasured \subseteq shared
=============================================================================
