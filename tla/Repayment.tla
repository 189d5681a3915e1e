------------------------------ MODULE Repayment ------------------------------
(***************************************************************************)
(* The repayment engine: schedules, payments and auto debits kept as whole *)
(* JSON documents in Redis (services/repayment, over libs/cache).          *)
(*                                                                         *)
(* Each processPayment call has a transaction id of its own, which names   *)
(* the call here.  A call reads the schedule, waits for the provider and   *)
(* then writes its own copy of the schedule back: every await is a point   *)
(* where other calls run.  CacheService never throws: when Redis is away a *)
(* get answers null and a set is dropped.                                  *)
(***************************************************************************)
EXTENDS Naturals, FiniteSets

CONSTANTS
    Schedules,     \* ids createSchedule may draw
    Installments,  \* the scheduled payments of a schedule
    Txns,          \* transaction ids, one per processPayment call
    AutoDebits,    \* ids setupAutoDebit may draw
    NoSchedule, NoInstallment, NoTxn, NoAutoDebit

VARIABLES
    redisUp,       \* whether Redis answers
    charged,       \* transactions the provider took the money of
    created,       \* schedule ids already drawn
    schedules,     \* key schedule:<id>
    transactions,  \* key transaction:<id>, its status
    events,        \* transactions with a stored payment_made event
    pc,            \* where each processPayment call stands
    target, item,  \* the schedule and the installment a call pays
    copy,          \* the schedule object a call holds in memory
    drawn,         \* auto debit ids already drawn
    autoDebits,    \* key autodebit:<id>, the schedule it debits
    autoDebitOf,   \* key schedule:<id>:autodebit
    linking,       \* the schedule a setupAutoDebit call has still to link
    plans,         \* schedules with a stored payment plan
    early          \* outcome of processEarlyPayment, per schedule

callVars  == <<pc, target, item, copy>>
autoVars  == <<drawn, autoDebits, autoDebitOf, linking>>
sideVars  == <<plans, early>>
vars == <<redisUp, charged, created, schedules, transactions, events, pc, target,
          item, copy, drawn, autoDebits, autoDebitOf, linking, plans, early>>

\* The fields of a RepaymentSchedule that decide anything: its status, which
\* transaction marked each installment paid, and whether endDate is a Date.
Schedule == [status  : {"active", "completed"},
             paidBy  : [Installments -> Txns \union {NoTxn}],
             endDate : {"Date", "string"}]

\* The values that stand for "nothing" are none of the ids and documents.
ASSUME SentinelAssumption ==
    /\ NoTxn \notin Txns
    /\ NoAutoDebit \notin AutoDebits
    /\ NoInstallment \notin Installments
    /\ NoSchedule \notin Schedules \union Schedule

TxnStatus == {"none", "pending", "completed", "failed"}
Steps == {"idle", "charging", "charged", "applied", "done", "failed"}

-----------------------------------------------------------------------------
\* Reading and writing one cache key.  JSON turns every Date into a string.
Get(f, k, none) == IF redisUp THEN f[k] ELSE none
Put(f, k, v) == IF redisUp THEN [f EXCEPT ![k] = v] ELSE f
\* Faulty variant: dates are lost instead of turned into strings.
SerialisedAsNull(schedule) == [schedule EXCEPT !.endDate = "null"]
Serialised(schedule) == [schedule EXCEPT !.endDate = "string"]

getSchedule(s) == Get(schedules, s, NoSchedule)
saveSchedule(s, schedule) == schedules' = Put(schedules, s, Serialised(schedule))

\* Faulty variant: some instead of every.
AnyPaid(paidBy) == \E i \in Installments : paidBy[i] # NoTxn
AllPaid(paidBy) == \A i \in Installments : paidBy[i] # NoTxn

\* Faulty variant: the other installments start again unpaid.
WithOnlyPayment(schedule, i, t) ==
    LET paidBy == [j \in Installments |-> IF j = i THEN t ELSE NoTxn]
    IN  [schedule EXCEPT !.paidBy = paidBy,
                         !.status = IF AllPaid(paidBy) THEN "completed" ELSE @]

\* The in-memory effect of applyPayment on the schedule a call holds.
WithPayment(schedule, i, t) ==
    LET paidBy == [schedule.paidBy EXCEPT ![i] = t]
    IN  [schedule EXCEPT !.paidBy = paidBy,
                         !.status = IF AllPaid(paidBy) THEN "completed" ELSE @]

InFlight == {t \in Txns : pc[t] \in {"charging", "charged", "applied"}}

-----------------------------------------------------------------------------
Init ==
    /\ redisUp = TRUE
    /\ charged = {}
    /\ created = {}
    /\ schedules = [s \in Schedules |-> NoSchedule]
    /\ transactions = [t \in Txns |-> "none"]
    /\ events = {}
    /\ pc = [t \in Txns |-> "idle"]
    /\ target = [t \in Txns |-> NoSchedule]
    /\ item = [t \in Txns |-> NoInstallment]
    /\ copy = [t \in Txns |-> NoSchedule]
    /\ drawn = {}
    /\ autoDebits = [a \in AutoDebits |-> NoSchedule]
    /\ autoDebitOf = [s \in Schedules |-> NoAutoDebit]
    /\ linking = [a \in AutoDebits |-> NoSchedule]
    /\ plans = {}
    /\ early = [s \in Schedules |-> "none"]

createSchedule(s) ==
    /\ s \notin created
    /\ created' = created \union {s}
    /\ saveSchedule(s, [status  |-> "active",
                        paidBy  |-> [i \in Installments |-> NoTxn],
                        endDate |-> "Date"])
    /\ UNCHANGED <<redisUp, charged, transactions, events, callVars, autoVars, sideVars>>

\* processPayment up to the provider call: it throws when the schedule is not
\* found, and looks at no status of the schedule or of the installment.
BeginPayment(t, s, i) ==
    /\ pc[t] = "idle"
    /\ getSchedule(s) # NoSchedule
    /\ pc' = [pc EXCEPT ![t] = "charging"]
    /\ target' = [target EXCEPT ![t] = s]
    /\ item' = [item EXCEPT ![t] = i]
    /\ copy' = [copy EXCEPT ![t] = getSchedule(s)]
    /\ transactions' = Put(transactions, t, "pending")
    /\ UNCHANGED <<redisUp, charged, created, schedules, events, autoVars, sideVars>>

\* processWithProvider: the money is taken, then the transaction is saved.
ChargeSucceeds(t) ==
    /\ pc[t] = "charging"
    /\ pc' = [pc EXCEPT ![t] = "charged"]
    /\ charged' = charged \union {t}
    /\ transactions' = Put(transactions, t, "completed")
    /\ UNCHANGED <<redisUp, created, schedules, events, target, item, copy,
                   autoVars, sideVars>>

\* Faulty variant: the catch leaves the status set before the provider call.
ChargeFailsAsCompleted(t) ==
    /\ pc[t] = "charging"
    /\ pc' = [pc EXCEPT ![t] = "failed"]
    /\ transactions' = Put(transactions, t, "completed")
    /\ UNCHANGED <<redisUp, charged, created, schedules, events, target, item, copy,
                   autoVars, sideVars>>

\* processWithProvider's catch: the call ends with the error.
ChargeFails(t) ==
    /\ pc[t] = "charging"
    /\ pc' = [pc EXCEPT ![t] = "failed"]
    /\ transactions' = Put(transactions, t, "failed")
    /\ UNCHANGED <<redisUp, charged, created, schedules, events, target, item, copy,
                   autoVars, sideVars>>

\* Faulty variant: the provider call is not awaited.
ApplyPaymentUnawaited(t) ==
    /\ pc[t] = "charging"
    /\ pc' = [pc EXCEPT ![t] = "applied"]
    /\ copy' = [copy EXCEPT ![t] = WithPayment(@, item[t], t)]
    /\ saveSchedule(target[t], copy'[t])
    /\ UNCHANGED <<redisUp, charged, created, transactions, events, target, item,
                   autoVars, sideVars>>

\* applyPayment: the copy read before the provider call is marked and saved.
ApplyPayment(t) ==
    /\ pc[t] = "charged"
    /\ pc' = [pc EXCEPT ![t] = "applied"]
    /\ copy' = [copy EXCEPT ![t] = WithPayment(@, item[t], t)]
    /\ saveSchedule(target[t], copy'[t])
    /\ UNCHANGED <<redisUp, charged, created, transactions, events, target, item,
                   autoVars, sideVars>>

\* applyPayment's last await: the payment_made event, after the schedule.
EmitPaymentMade(t) ==
    /\ pc[t] = "applied"
    /\ pc' = [pc EXCEPT ![t] = "done"]
    /\ events' = IF redisUp THEN events \union {t} ELSE events
    /\ UNCHANGED <<redisUp, charged, created, schedules, transactions, target, item,
                   copy, autoVars, sideVars>>

\* Faulty variant: the pointer is written before the setup it names.
SaveAutoDebitPointer(a, s) ==
    /\ a \notin drawn
    /\ getSchedule(s) # NoSchedule
    /\ drawn' = drawn \union {a}
    /\ autoDebitOf' = Put(autoDebitOf, s, a)
    /\ linking' = [linking EXCEPT ![a] = s]
    /\ UNCHANGED <<redisUp, charged, created, schedules, transactions, events, callVars,
                   autoDebits, sideVars>>

\* setupAutoDebit writes the setup and then, another await, the pointer to it.
\* An earlier setup of the schedule is neither read nor deactivated.
SaveAutoDebit(a, s) ==
    /\ a \notin drawn
    /\ getSchedule(s) # NoSchedule
    /\ drawn' = drawn \union {a}
    /\ autoDebits' = Put(autoDebits, a, s)
    /\ linking' = [linking EXCEPT ![a] = s]
    /\ UNCHANGED <<redisUp, charged, created, schedules, transactions, events, callVars,
                   autoDebitOf, sideVars>>

LinkAutoDebit(a) ==
    /\ linking[a] # NoSchedule
    /\ linking' = [linking EXCEPT ![a] = NoSchedule]
    /\ autoDebitOf' = Put(autoDebitOf, linking[a], a)
    /\ UNCHANGED <<redisUp, charged, created, schedules, transactions, events, callVars,
                   drawn, autoDebits, sideVars>>

createPaymentPlan(s) ==
    /\ getSchedule(s) # NoSchedule
    /\ plans' = IF redisUp THEN plans \union {s} ELSE plans
    /\ UNCHANGED <<redisUp, charged, created, schedules, transactions, events, callVars,
                   autoVars, early>>

\* calculateEarlyPaymentImpact calls getTime on the endDate of the schedule it
\* was given: a TypeError, and the call throws, unless that is still a Date.
processEarlyPayment(s) ==
    /\ getSchedule(s) # NoSchedule
    /\ early' = [early EXCEPT ![s] =
                    IF getSchedule(s).endDate = "Date" THEN "saved" ELSE "threw"]
    /\ UNCHANGED <<redisUp, charged, created, schedules, transactions, events, callVars,
                   autoVars, plans>>

-----------------------------------------------------------------------------
\* The environment: Redis goes away and comes back; a schedule key that is not
\* saved again for thirty days expires.
RedisFails ==
    /\ redisUp
    /\ redisUp' = FALSE
    /\ UNCHANGED <<charged, created, schedules, transactions, events, callVars, autoVars,
                   sideVars>>

RedisRecovers ==
    /\ ~redisUp
    /\ redisUp' = TRUE
    /\ UNCHANGED <<charged, created, schedules, transactions, events, callVars, autoVars,
                   sideVars>>

ScheduleExpires(s) ==
    /\ redisUp
    /\ schedules[s] # NoSchedule
    /\ schedules' = [schedules EXCEPT ![s] = NoSchedule]
    /\ UNCHANGED <<redisUp, charged, created, transactions, events, callVars, autoVars,
                   sideVars>>

CallStep(t) ==
    \/ ChargeSucceeds(t)
    \/ ChargeFails(t)
    \/ ApplyPayment(t)
    \/ EmitPaymentMade(t)

Next ==
    \/ \E s \in Schedules : createSchedule(s)
    \/ \E t \in Txns, s \in Schedules, i \in Installments : BeginPayment(t, s, i)
    \/ \E t \in Txns : CallStep(t)
    \/ \E a \in AutoDebits, s \in Schedules : SaveAutoDebit(a, s)
    \/ \E a \in AutoDebits : LinkAutoDebit(a)
    \/ \E s \in Schedules : createPaymentPlan(s)
    \/ \E s \in Schedules : processEarlyPayment(s)

FaultyNext ==
    \/ Next
    \/ RedisFails
    \/ RedisRecovers
    \/ \E s \in Schedules : ScheduleExpires(s)

\* Node resumes every call whose await is over.
CallFairness == \A t \in Txns : WF_vars(CallStep(t))

\* Calls overlap freely, and Redis goes away and forgets.
FaultySpec == Init /\ [][FaultyNext]_vars

\* Redis answers and no key expires; a payment of a schedule starts only when no
\* other is in flight.
SerialNext ==
    /\ Next
    /\ \A t1, t2 \in InFlight' : target'[t1] = target'[t2] => t1 = t2
SerialSpec == Init /\ [][SerialNext]_vars /\ CallFairness

-----------------------------------------------------------------------------
TypeOK ==
    /\ redisUp \in BOOLEAN
    /\ charged \subseteq Txns
    /\ created \subseteq Schedules
    /\ schedules \in [Schedules -> Schedule \union {NoSchedule}]
    /\ transactions \in [Txns -> TxnStatus]
    /\ events \subseteq Txns
    /\ pc \in [Txns -> Steps]
    /\ target \in [Txns -> Schedules \union {NoSchedule}]
    /\ item \in [Txns -> Installments \union {NoInstallment}]
    /\ copy \in [Txns -> Schedule \union {NoSchedule}]
    /\ drawn \subseteq AutoDebits
    /\ autoDebits \in [AutoDebits -> Schedules \union {NoSchedule}]
    /\ autoDebitOf \in [Schedules -> AutoDebits \union {NoAutoDebit}]
    /\ linking \in [AutoDebits -> Schedules \union {NoSchedule}]
    /\ plans \subseteq Schedules
    /\ early \in [Schedules -> {"none", "saved", "threw"}]

\* Transaction t took money for installment i of schedule s.
Paid(t, s, i) == t \in charged /\ target[t] = s /\ item[t] = i

\* Whatever the order in which overlapping calls write the schedule back, and
\* through outages and expiry, an installment of the stored schedule is marked
\* paid only by a transaction that took the money for that very installment.
PaidWasCharged ==
    \A s \in Schedules, i \in Installments :
        schedules[s] # NoSchedule /\ schedules[s].paidBy[i] # NoTxn
            => Paid(schedules[s].paidBy[i], s, i)

\* applyPayment decides "completed" on a copy that may be out of date; still, a
\* stored schedule is completed only if every installment has been charged.
CompletedOnlyWhenAllCharged ==
    \A s \in Schedules :
        schedules[s] # NoSchedule /\ schedules[s].status = "completed"
            => \A i \in Installments : \E t \in Txns : Paid(t, s, i)

\* A stored transaction never claims an outcome its provider call did not have:
\* completed means the money moved, failed means it did not, and a payment_made
\* event exists only for a charge.  Dropped writes leave it behind, never wrong.
RecordsMatchCharges ==
    /\ \A t \in Txns : transactions[t] = "completed" => t \in charged
    /\ \A t \in Txns : transactions[t] = "failed" => pc[t] = "failed"
    /\ events \subseteq charged

\* While Redis answers, the auto debit pointer of a schedule always names a
\* stored setup for that schedule, whichever of several setups wrote it last.
PointerNamesItsSetup ==
    \A s \in Schedules :
        autoDebitOf[s] # NoAutoDebit => autoDebits[autoDebitOf[s]] = s

\* Without overlapping payments the engine keeps the promise of IdealRepayment.
ChargedItems == [s \in Schedules |->
    {i \in Installments : \E t \in Txns : Paid(t, s, i)}]
SettledItems == [s \in Schedules |->
    {i \in Installments : schedules[s] # NoSchedule /\ schedules[s].paidBy[i] # NoTxn}]
ClosedSchedules == {s \in Schedules :
    schedules[s] # NoSchedule /\ schedules[s].status = "completed"}

Ideal == INSTANCE IdealRepayment WITH
    charged <- ChargedItems, settled <- SettledItems, closed <- ClosedSchedules
\* Serial payments implement IdealRepayment: marks and completion are never
\* undone, and money taken is always settled in the end.
ImplementsIdeal == Ideal!Spec
=============================================================================
