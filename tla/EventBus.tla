------------------------------- MODULE EventBus --------------------------------
(***************************************************************************)
(* services/notifications: the bus that keeps the last events, calls its   *)
(* subscribers and turns some events into notifications for the hub, and   *)
(* NotificationService, which sends notifications now or at a time.  All   *)
(* runs in one thread: publishing is one step.                             *)
(***************************************************************************)
EXTENDS Requests, SequencesExt

CONSTANTS
    EventIds,
    EventTypes,      \* those of DomainEvent an instance publishes
    Listeners,       \* subscribers other than the registry's
    Throwing,        \* those that throw
    StoreSize,       \* maxStoreSize, 1000
    Notices, Delays, \* scheduled notifications, and how far ahead, in days
    LongestTimer,    \* 24 days: a longer timeout fires at once
    LastDay

ASSUME EventBusAssumption == StoreSize \in Nat /\ Delays \subseteq Nat /\ LongestTimer \in Nat

VARIABLES
    eventStore,      \* [id, type], the oldest first
    subscribed,      \* [listener, type]; "*" is told of every event
    notified,        \* what the hub was given: [event, channel, priority]
    scheduled,       \* scheduledNotifications: [notice, due, fires]
    delivered,       \* history: notices sent, with the day
    shutDown,
    today,           \* the clock, in days
    published,       \* history: every event, in order
    heard            \* history: events that no listener failed on

EventBusVars == <<eventStore, subscribed, notified, scheduled, delivered, shutDown, today, published, heard>>

AdminTypes == {"system.alert"}
\* mapEventToNotification: what the hub is told, and about how urgent a matter.
Mapped(type) ==
    CASE type \in {"loan.application.submitted", "loan.application.rejected"} -> [channel |-> "loans", priority |-> "medium"]
      [] type = "loan.application.approved" -> [channel |-> "loans", priority |-> "high"]
      [] type = "payment.processed" -> [channel |-> "payments", priority |-> "medium"]
      [] type = "payment.failed" -> [channel |-> "payments", priority |-> "high"]
      [] type = "payment.overdue" -> [channel |-> "payments", priority |-> "critical"]
      [] type \in AdminTypes -> [channel |-> "system", priority |-> "high"]
      [] type = "user.registered" -> [channel |-> "system", priority |-> "medium"]
      [] OTHER -> [channel |-> "none"]
IsMapped(type) == Mapped(type).channel # "none"

LastOf(s, n) == SubSeq(s, 1 + (IF Len(s) > n THEN Len(s) - n ELSE 0), Len(s))

\* Faulty variant: the oldest are kept.
StoredFirst(store) == SubSeq(store, 1, IF Len(store) > StoreSize THEN StoreSize ELSE Len(store))

Stored(store) == LastOf(store, StoreSize)

EventBusInit ==
    /\ eventStore = <<>> /\ subscribed = {} /\ notified = {} /\ scheduled = {} /\ delivered = {}
    /\ shutDown = FALSE /\ today = 0 /\ published = <<>> /\ heard = {}

-----------------------------------------------------------------------------
subscribe(listener, type) ==
    /\ subscribed' = subscribed \union {[listener |-> listener, type |-> type]}
    /\ UNCHANGED <<eventStore, notified, scheduled, delivered, shutDown, today, published, heard>>
unsubscribe(listener, type) ==
    /\ subscribed' = subscribed \ {[listener |-> listener, type |-> type]}
    /\ UNCHANGED <<eventStore, notified, scheduled, delivered, shutDown, today, published, heard>>

Events == [id : EventIds, type : EventTypes]
NewEventIds == EventIds \ {published[i].id : i \in DOMAIN published}     \* randomUUID
Fails(type) == \E s \in subscribed : s.type \in {type, "*"} /\ s.listener \in Throwing

\* Faulty variant: the hub is told before the event is kept, and a failure undoes nothing.
publishUnlessFailing(event) ==
    /\ published' = Append(published, event)
    /\ IF Fails(event.type) THEN UNCHANGED <<eventStore, heard, notified>>
       ELSE /\ eventStore' = Stored(Append(eventStore, event)) /\ heard' = heard \union {event}
            /\ notified' = IF IsMapped(event.type) THEN notified \union {[event |-> event, to |-> Mapped(event.type)]}
                           ELSE notified
    /\ UNCHANGED <<subscribed, scheduled, delivered, shutDown, today>>

\* The event is kept first; a listener that throws keeps the later ones and the hub from it.
publish(event) ==
    /\ published' = Append(published, event)
    /\ eventStore' = Stored(Append(eventStore, event))
    /\ IF Fails(event.type) THEN UNCHANGED <<heard, notified>>
       ELSE /\ heard' = heard \union {event}
            /\ notified' = IF IsMapped(event.type) THEN notified \union {[event |-> event, to |-> Mapped(event.type)]}
                           ELSE notified
    /\ UNCHANGED <<subscribed, scheduled, delivered, shutDown, today>>

\* `type` is an event's type or the part of it before a dot.
KindsOf == [p \in EventTypes \union {"loan", "payment", "user", "system"} |->
    CASE p = "loan" -> {"loan.application.submitted", "loan.application.approved",
                        "loan.application.rejected", "loan.application.reviewed"}
      [] p = "payment" -> {"payment.processed", "payment.failed", "payment.scheduled", "payment.overdue"}
      [] p = "user" -> {"user.registered", "user.verified", "user.profile.updated", "user.deactivated"}
      [] p = "system" -> {"system.maintenance", "system.alert", "system.error", "system.performance"}
      [] OTHER -> {p}]
getEvents(type, limit) == LastOf(SelectSeq(eventStore, LAMBDA e : e.type \in KindsOf[type]), limit)

\* A timer of more than 2^31 - 1 milliseconds fires after one.
scheduleNotification(notice, delay) ==
    /\ ~shutDown /\ \A s \in scheduled \union delivered : s.notice # notice
    /\ IF delay = 0
       THEN delivered' = delivered \union {[notice |-> notice, due |-> today, on |-> today]} /\ UNCHANGED scheduled
       ELSE /\ scheduled' = scheduled \union
                  {[notice |-> notice, due |-> today + delay,
                    fires |-> IF delay > LongestTimer THEN today ELSE today + delay]}
            /\ UNCHANGED delivered
    /\ UNCHANGED <<eventStore, subscribed, notified, shutDown, today, published, heard>>
sendNotificationNow(s) ==
    /\ s \in scheduled /\ s.fires <= today
    /\ scheduled' = scheduled \ {s}
    /\ delivered' = delivered \union {[notice |-> s.notice, due |-> s.due, on |-> today]}
    /\ UNCHANGED <<eventStore, subscribed, notified, shutDown, today, published, heard>>
shutdown ==
    /\ shutDown' = TRUE /\ scheduled' = {}
    /\ UNCHANGED <<eventStore, subscribed, notified, delivered, today, published, heard>>

\* Timers are punctual to the day.
NextDay ==
    /\ today < LastDay /\ \A s \in scheduled : s.fires > today
    /\ today' = today + 1
    /\ UNCHANGED <<eventStore, subscribed, notified, scheduled, delivered, shutDown, published, heard>>

EventBusNext ==
    \/ NewEventIds # {} /\ \E type \in EventTypes : publish([id |-> CHOOSE i \in NewEventIds : TRUE, type |-> type])
    \/ \E listener \in Listeners, type \in EventTypes \union {"*"} :
           subscribe(listener, type) \/ unsubscribe(listener, type)
    \/ \E notice \in Notices, delay \in Delays : scheduleNotification(notice, delay)
    \/ \E s \in scheduled : sendNotificationNow(s)
    \/ shutdown \/ NextDay
EventBusSpec == EventBusInit /\ [][EventBusNext]_EventBusVars

-----------------------------------------------------------------------------
\* The state is of the types of event-bus.ts.
EventBusTypeOK ==
    /\ eventStore \in Seq(Events) /\ Len(eventStore) <= StoreSize
    /\ subscribed \subseteq [listener : Listeners, type : EventTypes \union {"*"}]
    /\ \A n \in notified : n.event \in Events

\* Whoever throws, a query for the last events of a kind finds the last that were published,
\* as far back as the store reaches, and the hub is told of exactly those events of a mapped
\* type on which no listener failed.
EventsAreKept ==
    /\ \A type \in DOMAIN KindsOf, limit \in 1 .. StoreSize :
           getEvents(type, limit) =
               LastOf(SelectSeq(LastOf(published, StoreSize), LAMBDA e : e.type \in KindsOf[type]), limit)
    /\ {n.event : n \in notified} = {e \in heard : IsMapped(e.type)}

\* A scheduled notification is sent once, and on its day, or was dropped by a shutdown; one
\* further ahead than the longest timer is sent at once.
ScheduledOnTime ==
    /\ \A s, t \in scheduled \union delivered : s.notice = t.notice => s = t
    /\ \A s \in delivered : s.on = s.due \/ s.due - s.on > LongestTimer
=============================================================================
