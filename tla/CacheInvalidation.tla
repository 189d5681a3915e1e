--------------------------- MODULE CacheInvalidation ---------------------------
(***************************************************************************)
(* libs/cache, CacheInvalidationService: invalidations by key, pattern and *)
(* tag, alone or together for a user or a tenant, at once, scheduled, or   *)
(* by the delayed rules of triggerInvalidation; their statistics, kept in  *)
(* memory and written to a hash in Redis.                                  *)
(***************************************************************************)
EXTENDS Requests

CONSTANTS
    Schedules,      \* ids of scheduled invalidations
    DelayedRules,   \* rules with a delay, each of an event of its own
    MaxInvalidations

VARIABLES
    schedule,       \* the scheduled invalidations
    pendingInvalidations,
    delayed,        \* rules whose timer runs, after their event
    invalidationRules,
    invalidating,   \* what each caller, and each timer that fired, is doing
    stats,          \* the statistics in memory: in total, by type, and failed
    storedStats,    \* cache:invalidation:stats: which of its fields are there, and the total
    cancelled,      \* history: schedules whose cancellation was answered while they waited
    ran,            \* history: schedules whose timer fired
    torn            \* history: the statistics were read back in part

InvalidationVars == <<schedule, pendingInvalidations, delayed, invalidationRules, invalidating, stats,
                      storedStats, cancelled, ran, torn>>

Types == {"key", "pattern", "tag"}
Callers == Clients \union Schedules
\* What an invalidation comes down to.
Steps(type) ==
    CASE type = "user" -> <<"pattern", "pattern", "pattern", "pattern", "tag">>
      [] type = "tenant" -> <<"pattern", "pattern">>
      [] OTHER -> <<type>>

NoStats == [total |-> 0, byType |-> [t \in Types |-> 0], failed |-> 0]
Nowhere == [total |-> 0, byType |-> FALSE]
InvalidationInit ==
    /\ schedule = [i \in Schedules |-> "unused"] /\ pendingInvalidations = {} /\ delayed = {}
    /\ invalidationRules = DelayedRules /\ invalidating = [c \in Callers |-> Resting]
    /\ stats = NoStats /\ storedStats = Nowhere
    /\ cancelled = {} /\ ran = {} /\ torn = FALSE

UnchangedSchedules == UNCHANGED <<schedule, pendingInvalidations, delayed, invalidationRules, cancelled, ran>>
Doing(c, call) == invalidating' = [invalidating EXCEPT ![c] = call]

-----------------------------------------------------------------------------
BeginSteps(c, type) == Doing(c, [pc |-> "count", left |-> Steps(type)])
invalidate(k, type) ==
    /\ invalidating[k] = Resting /\ BeginSteps(k, type)
    /\ UNCHANGED <<stats, storedStats, torn>> /\ UnchangedSchedules

\* By key, none found is a failure, like an error of the deletion.
invalidateByKey(found, works) == works /\ found
\* By pattern, only an error of the scan is one.
invalidateByPattern(found, works) == works
\* By tag, nothing is: no error of its commands is passed on.
invalidateByTags(found, works) == TRUE
Success(type, found, works) ==
    CASE type = "key" -> invalidateByKey(found, works)
      [] type = "pattern" -> invalidateByPattern(found, works)
      [] type = "tag" -> invalidateByTags(found, works)

\* Faulty variant: one that failed is counted in total only.
CountSuccess(type, success) ==
    [total |-> stats.total + 1,
     byType |-> IF success THEN [stats.byType EXCEPT ![type] = @ + 1] ELSE stats.byType,
     failed |-> stats.failed + (IF success THEN 0 ELSE 1)]

\* updateStats counts in memory first.
Count(type, success) ==
    [total |-> stats.total + 1, byType |-> [stats.byType EXCEPT ![type] = @ + 1],
     failed |-> stats.failed + (IF success THEN 0 ELSE 1)]
\* invalidateByKey, -Pattern or -Tags, once it has deleted what it finds; the total is the
\* first field to be written.
updateStats(c, found, works) ==
    LET type == Head(invalidating[c].left) IN
    /\ invalidating[c].pc = "count" /\ stats.total < MaxInvalidations
    /\ stats' = Count(type, Success(type, found, works))
    /\ \E stored \in {works, FALSE} :
          storedStats' = IF stored THEN [storedStats EXCEPT !.total = stats.total + 1] ELSE storedStats
    /\ Doing(c, [invalidating[c] EXCEPT !.pc = "store"])
    /\ UNCHANGED torn /\ UnchangedSchedules
\* The other fields; then the next step, or the end, at which a schedule is forgotten.
storeStats(c, works) ==
    LET left == Tail(invalidating[c].left) IN
    /\ invalidating[c].pc = "store"
    /\ storedStats' = IF works THEN [storedStats EXCEPT !.byType = TRUE] ELSE storedStats
    /\ Doing(c, IF left = <<>> THEN Resting ELSE [pc |-> "count", left |-> left])
    /\ pendingInvalidations' = IF left = <<>> THEN pendingInvalidations \ {c} ELSE pendingInvalidations
    /\ schedule' = IF left = <<>> /\ c \in Schedules THEN [schedule EXCEPT ![c] = "done"] ELSE schedule
    /\ UNCHANGED <<delayed, invalidationRules, stats, cancelled, ran, torn>>

\* What is read is parsed twice, which throws as soon as there is a breakdown: then, as when
\* nothing is stored, memory is the answer.  A total alone is taken over, without a breakdown.
getInvalidationStats(works) ==
    LET taken == works /\ storedStats.total > 0 /\ ~storedStats.byType IN
    /\ stats' = IF taken THEN [NoStats EXCEPT !.total = storedStats.total] ELSE stats
    /\ torn' = (torn \/ taken)
    /\ UNCHANGED <<invalidating, storedStats>> /\ UnchangedSchedules
resetInvalidationStats(works) ==
    /\ stats' = NoStats /\ torn' = FALSE
    /\ storedStats' = IF works THEN Nowhere ELSE storedStats
    /\ UNCHANGED invalidating /\ UnchangedSchedules

-----------------------------------------------------------------------------
UnchangedStats == UNCHANGED <<stats, storedStats, torn>>

scheduleInvalidation(i) ==
    /\ schedule[i] = "unused" /\ schedule' = [schedule EXCEPT ![i] = "waiting"]
    /\ pendingInvalidations' = pendingInvalidations \union {i}
    /\ UNCHANGED <<delayed, invalidationRules, invalidating, cancelled, ran>> /\ UnchangedStats
TimerFires(i, type) ==
    /\ schedule[i] = "waiting" /\ schedule' = [schedule EXCEPT ![i] = "running"]
    /\ ran' = ran \union {i} /\ BeginSteps(i, type)
    /\ UNCHANGED <<pendingInvalidations, delayed, invalidationRules, cancelled>> /\ UnchangedStats

\* Faulty variant: the entry is deleted, and the timer left to itself.
cancelScheduledInvalidationEntry(i) ==
    /\ i \in pendingInvalidations /\ pendingInvalidations' = pendingInvalidations \ {i}
    /\ cancelled' = IF schedule[i] = "waiting" THEN cancelled \union {i} ELSE cancelled
    /\ UNCHANGED <<schedule, delayed, invalidationRules, invalidating, ran>> /\ UnchangedStats

\* Answered with true also when the timer has fired and its invalidation is under way.
cancelScheduledInvalidation(i) ==
    /\ i \in pendingInvalidations /\ pendingInvalidations' = pendingInvalidations \ {i}
    /\ schedule' = IF schedule[i] = "waiting" THEN [schedule EXCEPT ![i] = "cleared"] ELSE schedule
    /\ cancelled' = IF schedule[i] = "waiting" THEN cancelled \union {i} ELSE cancelled
    /\ UNCHANGED <<delayed, invalidationRules, invalidating, ran>> /\ UnchangedStats

\* triggerInvalidation for the event of a rule with a delay: its timer is kept nowhere.
triggerDelayed(r) ==
    /\ r \in invalidationRules \ delayed /\ delayed' = delayed \union {r}
    /\ UNCHANGED <<schedule, pendingInvalidations, invalidationRules, invalidating, cancelled, ran>> /\ UnchangedStats
DelayEnds(r, k) ==
    /\ r \in delayed /\ invalidating[k] = Resting
    /\ delayed' = delayed \ {r} /\ BeginSteps(k, "pattern")
    /\ UNCHANGED <<schedule, pendingInvalidations, invalidationRules, cancelled, ran>> /\ UnchangedStats
addInvalidationRule(r) ==
    /\ r \notin invalidationRules /\ invalidationRules' = invalidationRules \union {r}
    /\ UNCHANGED <<schedule, pendingInvalidations, delayed, invalidating, cancelled, ran>> /\ UnchangedStats
removeInvalidationRule(r) ==
    /\ r \in invalidationRules /\ invalidationRules' = invalidationRules \ {r}
    /\ UNCHANGED <<schedule, pendingInvalidations, delayed, invalidating, cancelled, ran>> /\ UnchangedStats

\* Every timer that waits is cleared; the delayed rules and what has begun are not.
cleanupInvalidations ==
    /\ schedule' = [i \in Schedules |->
          IF i \in pendingInvalidations /\ schedule[i] = "waiting" THEN "cleared" ELSE schedule[i]]
    /\ pendingInvalidations' = {}
    /\ cancelled' = cancelled \union {i \in pendingInvalidations : schedule[i] = "waiting"}
    /\ UNCHANGED <<delayed, invalidationRules, invalidating, ran>> /\ UnchangedStats

InvalidationsNext ==
    \/ \E k \in Clients, type \in {"key", "tenant", "user"} : invalidate(k, type)
    \/ \E k \in Clients, works \in BOOLEAN :
        storeStats(k, works) \/ \E found \in BOOLEAN : updateStats(k, found, works)
    \/ \E works \in BOOLEAN : getInvalidationStats(works) \/ resetInvalidationStats(works)
SchedulesNext ==
    \/ \E i \in Schedules :
        \/ scheduleInvalidation(i) \/ cancelScheduledInvalidation(i)
        \/ \E type \in Types : TimerFires(i, type)
    \/ \E r \in DelayedRules :
        triggerDelayed(r) \/ addInvalidationRule(r) \/ removeInvalidationRule(r) \/ \E k \in Clients : DelayEnds(r, k)
    \/ cleanupInvalidations
    \/ \E c \in Callers : updateStats(c, TRUE, TRUE) \/ storeStats(c, TRUE)
InvalidationSpec == InvalidationInit /\ [][InvalidationsNext \/ SchedulesNext]_InvalidationVars

-----------------------------------------------------------------------------
\* The timers and the statistics hold what CacheInvalidationService puts there.
InvalidationTypeOK ==
    /\ schedule \in [Schedules -> {"unused", "waiting", "cleared", "running", "done"}]
    /\ pendingInvalidations \subseteq Schedules /\ {delayed, invalidationRules} \subseteq SUBSET DelayedRules
    /\ {stats.total, stats.failed} \subseteq Nat /\ stats.byType \in [Types -> Nat]

\* A scheduled invalidation whose cancellation was answered before its time, or that a cleanup
\* found waiting, never begins.
CancelledNeverRuns == cancelled \cap ran = {}

\* The wait of every schedule can still be cancelled.
WaitingIsPending == \A i \in Schedules : schedule[i] = "waiting" => i \in pendingInvalidations

\* The breakdown by type adds up to the total, through overlapping invalidations, failures and
\* resets, unless the statistics were read back between two writes of them.
StatsAddUp ==
    torn \/ stats.total = stats.byType["key"] + stats.byType["pattern"] + stats.byType["tag"]
=============================================================================
