--------------------------- MODULE RepaymentProofs ---------------------------
(***************************************************************************)
(* Safety of the repayment engine for any number of schedules,             *)
(* installments and overlapping calls, with Redis outages and expiry.      *)
(***************************************************************************)
EXTENDS Repayment, TLAPS

\* What a schedule document may say, wherever it is: stored or in a call's hand.
Honest(doc, s) ==
    /\ \A i \in Installments : doc.paidBy[i] # NoTxn => Paid(doc.paidBy[i], s, i)
    /\ doc.status = "completed" => AllPaid(doc.paidBy)

StoredHonest ==
    \A s \in Schedules : schedules[s] # NoSchedule => Honest(schedules[s], s)

\* A call that has begun holds a document of a known schedule and installment.
CallsHonest ==
    \A t \in Txns : pc[t] # "idle" =>
        /\ target[t] \in Schedules
        /\ item[t] \in Installments
        /\ copy[t] \in Schedule
        /\ Honest(copy[t], target[t])

\* The calls past the provider are exactly those whose money was taken.
ChargedCalls ==
    \A t \in Txns : t \in charged <=> pc[t] \in {"charged", "applied", "done"}

IInv == TypeOK /\ StoredHonest /\ CallsHonest /\ ChargedCalls /\ RecordsMatchCharges

-----------------------------------------------------------------------------
LEMMA InitTypeOK == Init => TypeOK
  BY SentinelAssumption DEF Init, TypeOK, TxnStatus, Steps

\* Storing a document through Put keeps the store typed, and leaves each key
\* with its old document or, for the key written, the new one.
LEMMA PutSchedule ==
    ASSUME schedules \in [Schedules -> Schedule \union {NoSchedule}],
           NEW s \in Schedules, NEW d \in Schedule,
           saveSchedule(s, d)
    PROVE  /\ schedules' \in [Schedules -> Schedule \union {NoSchedule}]
           /\ Serialised(d) \in Schedule
           /\ Serialised(d).paidBy = d.paidBy
           /\ Serialised(d).status = d.status
           /\ \A x \in Schedules :
                 schedules'[x] = schedules[x] \/ (x = s /\ schedules'[x] = Serialised(d))
  BY DEF saveSchedule, Put, Serialised, Schedule

\* applyPayment on a typed document marks one installment and nothing else.
LEMMA WithPaymentDoc ==
    ASSUME NEW d \in Schedule, NEW i \in Installments, NEW t \in Txns
    PROVE  /\ WithPayment(d, i, t) \in Schedule
           /\ WithPayment(d, i, t).paidBy = [d.paidBy EXCEPT ![i] = t]
           /\ WithPayment(d, i, t).status = "completed" =>
                 d.status = "completed" \/ AllPaid([d.paidBy EXCEPT ![i] = t])
  BY DEF WithPayment, Schedule

LEMMA NextTypeOK == TypeOK /\ CallsHonest /\ [FaultyNext]_vars => TypeOK'
<1> SUFFICES ASSUME TypeOK, CallsHonest, [FaultyNext]_vars PROVE TypeOK'
  OBVIOUS
<1> USE DEF TypeOK
<1>1. ASSUME NEW s \in Schedules, createSchedule(s) PROVE TypeOK'
  <2> DEFINE d == [status  |-> "active",
                   paidBy  |-> [i \in Installments |-> NoTxn],
                   endDate |-> "Date"]
  <2>1. d \in Schedule
    BY DEF Schedule
  <2>2. saveSchedule(s, d)
    BY <1>1 DEF createSchedule
  <2> QED
    BY <1>1, <2>1, <2>2, PutSchedule
       DEF createSchedule, callVars, autoVars, sideVars
<1>2. ASSUME NEW t \in Txns, NEW s \in Schedules, NEW i \in Installments,
             BeginPayment(t, s, i)
      PROVE  TypeOK'
  BY <1>2 DEF BeginPayment, getSchedule, Get, Put, autoVars, sideVars, Steps, TxnStatus
<1>3. ASSUME NEW t \in Txns, ChargeSucceeds(t) PROVE TypeOK'
  BY <1>3 DEF ChargeSucceeds, Put, autoVars, sideVars, Steps, TxnStatus
<1>4. ASSUME NEW t \in Txns, ChargeFails(t) PROVE TypeOK'
  BY <1>4 DEF ChargeFails, Put, autoVars, sideVars, Steps, TxnStatus
<1>5. ASSUME NEW t \in Txns, ApplyPayment(t) PROVE TypeOK'
  <2> DEFINE d == WithPayment(copy[t], item[t], t)
  <2>1. target[t] \in Schedules /\ item[t] \in Installments /\ copy[t] \in Schedule
    BY <1>5 DEF ApplyPayment, CallsHonest
  <2>2. d \in Schedule
    BY <2>1, WithPaymentDoc
  <2>3. saveSchedule(target[t], d) /\ copy' = [copy EXCEPT ![t] = d]
    BY <1>5 DEF ApplyPayment, saveSchedule
  <2> HIDE DEF d
  <2> QED
    BY <1>5, <2>1, <2>2, <2>3, PutSchedule DEF ApplyPayment, autoVars, sideVars, Steps
<1>6. ASSUME NEW t \in Txns, EmitPaymentMade(t) PROVE TypeOK'
  BY <1>6 DEF EmitPaymentMade, autoVars, sideVars, Steps
<1>7. ASSUME NEW a \in AutoDebits, NEW s \in Schedules, SaveAutoDebit(a, s)
      PROVE  TypeOK'
  BY <1>7 DEF SaveAutoDebit, Put, callVars, sideVars
<1>8. ASSUME NEW a \in AutoDebits, LinkAutoDebit(a) PROVE TypeOK'
  BY <1>8, SentinelAssumption DEF LinkAutoDebit, Put, callVars, sideVars
<1>9. ASSUME NEW s \in Schedules, createPaymentPlan(s) PROVE TypeOK'
  BY <1>9 DEF createPaymentPlan, callVars, autoVars
<1>10. ASSUME NEW s \in Schedules, processEarlyPayment(s) PROVE TypeOK'
  BY <1>10 DEF processEarlyPayment, callVars, autoVars
<1>11. ASSUME RedisFails \/ RedisRecovers PROVE TypeOK'
  BY <1>11 DEF RedisFails, RedisRecovers, callVars, autoVars, sideVars
<1>12. ASSUME NEW s \in Schedules, ScheduleExpires(s) PROVE TypeOK'
  BY <1>12 DEF ScheduleExpires, callVars, autoVars, sideVars
<1>13. ASSUME UNCHANGED vars PROVE TypeOK'
  BY <1>13 DEF vars
<1> QED
  BY <1>1, <1>2, <1>3, <1>4, <1>5, <1>6, <1>7, <1>8, <1>9, <1>10, <1>11, <1>12,
     <1>13 DEF FaultyNext, Next, CallStep

-----------------------------------------------------------------------------
\* A call that has begun keeps its schedule and its installment, and a charge
\* is never taken back.
LEMMA ChargesStay ==
    ASSUME TypeOK, [FaultyNext]_vars
    PROVE  /\ \A t \in charged : t \in charged'
           /\ \A t \in Txns : pc[t] # "idle" =>
                 pc'[t] # "idle" /\ target'[t] = target[t] /\ item'[t] = item[t]
<1> USE DEF TypeOK
<1>1. CASE UNCHANGED <<charged, pc, target, item>>
  BY <1>1
<1>2. ASSUME NEW t \in Txns, NEW s \in Schedules, NEW i \in Installments,
             BeginPayment(t, s, i)
      PROVE  /\ \A x \in charged : x \in charged'
             /\ \A x \in Txns : pc[x] # "idle" =>
                   pc'[x] # "idle" /\ target'[x] = target[x] /\ item'[x] = item[x]
  BY <1>2 DEF BeginPayment
<1>3. ASSUME NEW t \in Txns, CallStep(t)
      PROVE  /\ \A x \in charged : x \in charged'
             /\ \A x \in Txns : pc[x] # "idle" =>
                   pc'[x] # "idle" /\ target'[x] = target[x] /\ item'[x] = item[x]
  BY <1>3 DEF CallStep, ChargeSucceeds, ChargeFails, ApplyPayment, EmitPaymentMade
<1>4. CASE ~ \/ \E t \in Txns, s \in Schedules, i \in Installments :
                   BeginPayment(t, s, i)
             \/ \E t \in Txns : CallStep(t)
  <2>1. UNCHANGED <<charged, pc, target, item>>
    BY <1>4 DEF FaultyNext, Next, createSchedule, SaveAutoDebit, LinkAutoDebit,
                createPaymentPlan, processEarlyPayment, RedisFails, RedisRecovers,
                ScheduleExpires, callVars, vars
  <2> QED
    BY <2>1, <1>1
<1> QED
  BY <1>2, <1>3, <1>4

\* What an honest document says therefore stays true.
LEMMA HonestStable ==
    ASSUME IInv, [FaultyNext]_vars, NEW doc, NEW s, Honest(doc, s)
    PROVE  Honest(doc, s)'
<1>1. \A t \in charged : t \in charged' /\ target'[t] = target[t] /\ item'[t] = item[t]
  BY ChargesStay DEF IInv, ChargedCalls, TypeOK
<1> QED
  BY <1>1 DEF Honest, Paid, AllPaid

\* Marking an installment that its transaction has charged keeps a document
\* honest, whatever copy it starts from.
LEMMA ApplyHonest ==
    ASSUME NEW d \in Schedule, NEW s, NEW i \in Installments, NEW t \in Txns,
           Honest(d, s), Paid(t, s, i)
    PROVE  Honest(WithPayment(d, i, t), s)
<1>0. /\ WithPayment(d, i, t).paidBy = [d.paidBy EXCEPT ![i] = t]
      /\ WithPayment(d, i, t).status = "completed" =>
            d.status = "completed" \/ AllPaid(WithPayment(d, i, t).paidBy)
  BY WithPaymentDoc
<1>1. \A j \in Installments :
         WithPayment(d, i, t).paidBy[j] = IF j = i THEN t ELSE d.paidBy[j]
  BY <1>0 DEF Schedule
<1>2. t # NoTxn
  BY SentinelAssumption
<1>3. AllPaid(d.paidBy) => AllPaid(WithPayment(d, i, t).paidBy)
  BY <1>1, <1>2 DEF AllPaid
<1>4. WithPayment(d, i, t).status = "completed" => AllPaid(WithPayment(d, i, t).paidBy)
  BY <1>0, <1>3 DEF Honest
<1> QED
  BY <1>1, <1>4 DEF Honest

\* Every document in the store is one that was there or the one a step saved.
LEMMA StoredStep ==
    ASSUME IInv, [FaultyNext]_vars
    PROVE  StoredHonest'
<1> SUFFICES ASSUME NEW s \in Schedules, schedules'[s] # NoSchedule
             PROVE  Honest(schedules[s], s)'
  BY DEF StoredHonest
<1> USE DEF IInv
<1>1. CASE schedules'[s] = schedules[s]
  <2>1. PICK d : d = schedules[s]
    OBVIOUS
  <2>2. Honest(d, s)
    BY <1>1, <2>1 DEF StoredHonest
  <2>3. Honest(d, s)'
    BY <2>2, HonestStable
  <2> QED
    BY <1>1, <2>1, <2>3 DEF Honest
<1>2. ASSUME NEW x \in Schedules, createSchedule(x), schedules'[s] # schedules[s]
      PROVE  Honest(schedules[s], s)'
  <2> DEFINE d == [status  |-> "active",
                   paidBy  |-> [i \in Installments |-> NoTxn],
                   endDate |-> "Date"]
  <2>1. d \in Schedule /\ saveSchedule(x, d)
    BY <1>2 DEF createSchedule, Schedule
  <2>2. schedules'[s].paidBy = d.paidBy /\ schedules'[s].status = d.status
    BY <1>2, <2>1, PutSchedule DEF TypeOK
  <2> QED
    BY <2>2 DEF Honest
<1>3. ASSUME NEW t \in Txns, ApplyPayment(t), schedules'[s] # schedules[s]
      PROVE  Honest(schedules[s], s)'
  <2>1. PICK d : d = WithPayment(copy[t], item[t], t)
    OBVIOUS
  <2>2. /\ target[t] \in Schedules /\ item[t] \in Installments /\ copy[t] \in Schedule
        /\ Honest(copy[t], target[t]) /\ Paid(t, target[t], item[t])
    BY <1>3 DEF ApplyPayment, CallsHonest, ChargedCalls, Paid
  <2>3. d \in Schedule /\ Honest(d, target[t])
    BY <2>1, <2>2, WithPaymentDoc, ApplyHonest
  <2>4. saveSchedule(target[t], d)
    BY <1>3, <2>1, <2>2 DEF ApplyPayment, saveSchedule, TypeOK
  <2>5. /\ s = target[t]
        /\ schedules'[s].paidBy = d.paidBy /\ schedules'[s].status = d.status
    BY <1>3, <2>2, <2>3, <2>4, PutSchedule DEF TypeOK
  <2>6. Honest(d, s)'
    BY <2>3, <2>5, HonestStable
  <2> QED
    BY <2>5, <2>6 DEF Honest
<1>4. ASSUME NEW x \in Schedules, ScheduleExpires(x)
      PROVE  schedules'[s] = schedules[s]
  BY <1>4 DEF ScheduleExpires, TypeOK
<1>5. CASE UNCHANGED schedules
  BY <1>1, <1>5
<1>6. \/ UNCHANGED schedules
      \/ \E x \in Schedules : createSchedule(x) \/ ScheduleExpires(x)
      \/ \E t \in Txns : ApplyPayment(t)
  BY DEF FaultyNext, Next, CallStep, BeginPayment, ChargeSucceeds, ChargeFails,
         EmitPaymentMade, SaveAutoDebit, LinkAutoDebit, createPaymentPlan,
         processEarlyPayment, RedisFails, RedisRecovers, vars
<1> QED
  BY <1>1, <1>2, <1>3, <1>4, <1>5, <1>6

\* A call's document is the stored one it read, or that with its own payment.
LEMMA CallsStep ==
    ASSUME IInv, [FaultyNext]_vars
    PROVE  CallsHonest'
<1> SUFFICES ASSUME NEW t \in Txns, pc'[t] # "idle"
             PROVE  /\ target'[t] \in Schedules
                    /\ item'[t] \in Installments
                    /\ copy'[t] \in Schedule
                    /\ Honest(copy[t], target[t])'
  BY DEF CallsHonest
<1> USE DEF IInv
<1>1. CASE pc[t] # "idle" /\ copy'[t] = copy[t]
  <2>1. PICK d, s : d = copy[t] /\ s = target[t]
    OBVIOUS
  <2>2. d \in Schedule /\ s \in Schedules /\ item[t] \in Installments /\ Honest(d, s)
    BY <1>1, <2>1 DEF CallsHonest
  <2>3. target'[t] = target[t] /\ item'[t] = item[t]
    BY <1>1, ChargesStay
  <2>4. Honest(d, s)'
    BY <2>2, HonestStable
  <2> QED
    BY <1>1, <2>1, <2>2, <2>3, <2>4 DEF Honest
<1>2. ASSUME NEW s \in Schedules, NEW i \in Installments, BeginPayment(t, s, i)
      PROVE  /\ target'[t] \in Schedules
             /\ item'[t] \in Installments
             /\ copy'[t] \in Schedule
             /\ Honest(copy[t], target[t])'
  <2>1. PICK d : d = schedules[s]
    OBVIOUS
  <2>2. d # NoSchedule /\ copy'[t] = d /\ target'[t] = s /\ item'[t] = i
    BY <1>2, <2>1 DEF BeginPayment, getSchedule, Get, TypeOK
  <2>3. d \in Schedule /\ Honest(d, s)
    BY <2>1, <2>2 DEF TypeOK, StoredHonest
  <2>4. Honest(d, s)'
    BY <2>3, HonestStable
  <2> QED
    BY <2>2, <2>3, <2>4 DEF Honest
<1>3. ASSUME ApplyPayment(t)
      PROVE  /\ target'[t] \in Schedules
             /\ item'[t] \in Installments
             /\ copy'[t] \in Schedule
             /\ Honest(copy[t], target[t])'
  <2>1. PICK d, s : d = WithPayment(copy[t], item[t], t) /\ s = target[t]
    OBVIOUS
  <2>2. /\ s \in Schedules /\ item[t] \in Installments /\ copy[t] \in Schedule
        /\ Honest(copy[t], s) /\ Paid(t, s, item[t])
    BY <1>3, <2>1 DEF ApplyPayment, CallsHonest, ChargedCalls, Paid
  <2>3. d \in Schedule /\ Honest(d, s)
    BY <2>1, <2>2, WithPaymentDoc, ApplyHonest
  <2>4. copy'[t] = d /\ target'[t] = s /\ item'[t] = item[t]
    BY <1>3, <2>1 DEF ApplyPayment, TypeOK
  <2>5. Honest(d, s)'
    BY <2>3, HonestStable
  <2> QED
    BY <2>2, <2>3, <2>4, <2>5 DEF Honest
<1>4. CASE UNCHANGED <<pc, copy>>
  BY <1>1, <1>4
<1>5. ASSUME NEW x \in Txns,
             \/ \E s \in Schedules, i \in Installments : BeginPayment(x, s, i)
             \/ CallStep(x)
      PROVE  \/ pc[t] # "idle" /\ copy'[t] = copy[t]
             \/ \E s \in Schedules, i \in Installments : BeginPayment(t, s, i)
             \/ ApplyPayment(t)
  BY <1>5 DEF BeginPayment, CallStep, ChargeSucceeds, ChargeFails, ApplyPayment,
              EmitPaymentMade, TypeOK
<1>6. \/ UNCHANGED <<pc, copy>>
      \/ \E x \in Txns : \/ \E s \in Schedules, i \in Installments :
                               BeginPayment(x, s, i)
                         \/ CallStep(x)
  BY DEF FaultyNext, Next, createSchedule, SaveAutoDebit, LinkAutoDebit,
         createPaymentPlan, processEarlyPayment, RedisFails, RedisRecovers,
         ScheduleExpires, callVars, vars
<1> QED
  BY <1>1, <1>2, <1>3, <1>4, <1>5, <1>6

LEMMA ChargedStep ==
    ASSUME TypeOK, ChargedCalls, [FaultyNext]_vars
    PROVE  ChargedCalls'
<1> USE DEF TypeOK, ChargedCalls
<1>1. CASE UNCHANGED <<charged, pc>>
  BY <1>1
<1>2. ASSUME NEW t \in Txns, NEW s \in Schedules, NEW i \in Installments,
             BeginPayment(t, s, i)
      PROVE  ChargedCalls'
  BY <1>2 DEF BeginPayment
<1>3. ASSUME NEW t \in Txns, CallStep(t) PROVE ChargedCalls'
  BY <1>3 DEF CallStep, ChargeSucceeds, ChargeFails, ApplyPayment, EmitPaymentMade
<1>4. \/ UNCHANGED <<charged, pc>>
      \/ \E t \in Txns, s \in Schedules, i \in Installments : BeginPayment(t, s, i)
      \/ \E t \in Txns : CallStep(t)
  BY DEF FaultyNext, Next, createSchedule, SaveAutoDebit, LinkAutoDebit,
         createPaymentPlan, processEarlyPayment, RedisFails, RedisRecovers,
         ScheduleExpires, callVars, vars
<1> QED
  BY <1>1, <1>2, <1>3, <1>4

LEMMA RecordsStep ==
    ASSUME TypeOK, ChargedCalls, RecordsMatchCharges, [FaultyNext]_vars
    PROVE  RecordsMatchCharges'
<1> USE DEF TypeOK, ChargedCalls, RecordsMatchCharges
<1>1. CASE UNCHANGED <<charged, pc, transactions, events>>
  BY <1>1
<1>2. ASSUME NEW t \in Txns, NEW s \in Schedules, NEW i \in Installments,
             BeginPayment(t, s, i)
      PROVE  RecordsMatchCharges'
  BY <1>2 DEF BeginPayment, Put
<1>3. ASSUME NEW t \in Txns, CallStep(t) PROVE RecordsMatchCharges'
  BY <1>3 DEF CallStep, ChargeSucceeds, ChargeFails, ApplyPayment, EmitPaymentMade, Put
<1>4. \/ UNCHANGED <<charged, pc, transactions, events>>
      \/ \E t \in Txns, s \in Schedules, i \in Installments : BeginPayment(t, s, i)
      \/ \E t \in Txns : CallStep(t)
  BY DEF FaultyNext, Next, createSchedule, SaveAutoDebit, LinkAutoDebit,
         createPaymentPlan, processEarlyPayment, RedisFails, RedisRecovers,
         ScheduleExpires, callVars, vars
<1> QED
  BY <1>1, <1>2, <1>3, <1>4

-----------------------------------------------------------------------------
\* IInv is inductive: it holds at the start and every step of the engine or of
\* its environment keeps it.
THEOREM Inductive == FaultySpec => []IInv
<1>1. Init => IInv
  BY InitTypeOK DEF Init, IInv, StoredHonest, CallsHonest, ChargedCalls,
     RecordsMatchCharges
<1>2. IInv /\ [FaultyNext]_vars => IInv'
  BY NextTypeOK, StoredStep, CallsStep, ChargedStep, RecordsStep DEF IInv
<1> QED
  BY <1>1, <1>2, PTL DEF FaultySpec

\* Every variable keeps its type, with outages, expiry and overlapping calls.
THEOREM TypeCorrect == FaultySpec => []TypeOK
  BY Inductive, PTL DEF IInv

\* An installment is marked paid only by a transaction that was charged for it.
THEOREM PaidIsCharged == FaultySpec => []PaidWasCharged
<1>1. IInv => PaidWasCharged
  BY DEF IInv, StoredHonest, Honest, PaidWasCharged
<1> QED
  BY <1>1, Inductive, PTL

\* A completed schedule has had every installment charged.
THEOREM CompletedIsCharged == FaultySpec => []CompletedOnlyWhenAllCharged
<1>1. IInv => CompletedOnlyWhenAllCharged
  <2> SUFFICES ASSUME IInv, NEW s \in Schedules, schedules[s] # NoSchedule,
                      schedules[s].status = "completed", NEW i \in Installments
               PROVE  \E t \in Txns : Paid(t, s, i)
    BY DEF CompletedOnlyWhenAllCharged
  <2>1. Honest(schedules[s], s)
    BY DEF IInv, StoredHonest
  <2>2. Paid(schedules[s].paidBy[i], s, i)
    BY <2>1 DEF Honest, AllPaid
  <2> QED
    BY <2>2 DEF IInv, TypeOK, Paid
<1> QED
  BY <1>1, Inductive, PTL

\* Stored transactions and events never claim a charge that did not happen.
THEOREM RecordsAreTrue == FaultySpec => []RecordsMatchCharges
  BY Inductive, PTL DEF IInv

-----------------------------------------------------------------------------
(***************************************************************************)
(* Serial payments implement IdealRepayment (its safety part: liveness     *)
(* stays with TLC).  Serial calls always hold the document that is stored. *)
(***************************************************************************)
Known == \A s \in Schedules : schedules[s] # NoSchedule => s \in created

Alone == \A t1, t2 \in InFlight : target[t1] = target[t2] => t1 = t2

Fresh == \A t \in Txns : pc[t] \in {"charging", "charged"} =>
            schedules[target[t]] # NoSchedule /\ copy[t] = schedules[target[t]]

SerialInv == IInv /\ redisUp /\ Known /\ Alone /\ Fresh

LEMMA SerialInit == Init => SerialInv
<1> SUFFICES ASSUME Init PROVE SerialInv
  OBVIOUS
<1>1. IInv
  BY InitTypeOK DEF Init, IInv, StoredHonest, CallsHonest, ChargedCalls,
     RecordsMatchCharges
<1> QED
  BY <1>1 DEF Init, SerialInv, Known, Alone, Fresh, InFlight

LEMMA SerialStep == SerialInv /\ [SerialNext]_vars => SerialInv'
<1> SUFFICES ASSUME SerialInv, [SerialNext]_vars PROVE SerialInv'
  OBVIOUS
<1> USE DEF SerialInv, Known, Fresh
<1>1. IInv'
  BY NextTypeOK, StoredStep, CallsStep, ChargedStep, RecordsStep DEF SerialInv, IInv, SerialNext,
     FaultyNext
<1>2. redisUp'
  BY DEF SerialInv, SerialNext, Next, CallStep, createSchedule, BeginPayment,
         ChargeSucceeds, ChargeFails, ApplyPayment, EmitPaymentMade, SaveAutoDebit,
         LinkAutoDebit, createPaymentPlan, processEarlyPayment, vars
<1>3. Alone'
  <2>1. CASE SerialNext
    BY <2>1 DEF SerialNext, Alone
  <2>2. CASE UNCHANGED vars
    BY <2>2 DEF Alone, InFlight, vars
  <2> QED
    BY <2>1, <2>2
<1>4. ASSUME NEW s \in Schedules, createSchedule(s) PROVE Known' /\ Fresh'
  BY <1>4 DEF createSchedule, saveSchedule, Put, SerialInv, IInv, TypeOK, CallsHonest,
              callVars
<1>5. ASSUME NEW t \in Txns, NEW s \in Schedules, NEW i \in Installments,
             BeginPayment(t, s, i)
      PROVE  Known' /\ Fresh'
  BY <1>5 DEF BeginPayment, getSchedule, Get, SerialInv, IInv, TypeOK, CallsHonest
<1>6. ASSUME NEW t \in Txns, ApplyPayment(t) PROVE Known' /\ Fresh'
  <2>1. /\ schedules' = [schedules EXCEPT ![target[t]] = Serialised(copy'[t])]
        /\ target[t] \in Schedules /\ schedules[target[t]] # NoSchedule
    BY <1>6 DEF ApplyPayment, saveSchedule, Put, SerialInv, IInv, CallsHonest
  <2>2. Known'
    BY <1>6, <2>1 DEF ApplyPayment, SerialInv, IInv, TypeOK
  <2>3. ASSUME NEW x \in Txns, pc'[x] \in {"charging", "charged"}
        PROVE  schedules'[target'[x]] # NoSchedule /\ copy'[x] = schedules'[target'[x]]
    <3>1. x # t /\ pc[x] = pc'[x] /\ target'[x] = target[x] /\ copy'[x] = copy[x]
      BY <1>6, <2>3 DEF ApplyPayment, SerialInv, IInv, TypeOK
    <3>2. target[x] # target[t] /\ target[x] \in Schedules
      BY <1>6, <2>3, <3>1 DEF ApplyPayment, SerialInv, IInv, CallsHonest, Alone, InFlight
    <3> QED
      BY <2>1, <2>3, <3>1, <3>2 DEF SerialInv, IInv, TypeOK
  <2> QED
    BY <2>2, <2>3
<1>7. ASSUME NEW t \in Txns, ChargeSucceeds(t) \/ ChargeFails(t) \/ EmitPaymentMade(t)
      PROVE  Known' /\ Fresh'
  BY <1>7 DEF ChargeSucceeds, ChargeFails, EmitPaymentMade, SerialInv, IInv, TypeOK
<1>8. ASSUME UNCHANGED <<created, schedules, pc, target, copy>>
      PROVE  Known' /\ Fresh'
  BY <1>8
<1>9. \/ UNCHANGED <<created, schedules, pc, target, copy>>
      \/ \E s \in Schedules : createSchedule(s)
      \/ \E t \in Txns, s \in Schedules, i \in Installments : BeginPayment(t, s, i)
      \/ \E t \in Txns : CallStep(t)
  BY DEF SerialNext, Next, SaveAutoDebit, LinkAutoDebit, createPaymentPlan,
         processEarlyPayment, callVars, vars
<1>10. Known' /\ Fresh'
  BY <1>4, <1>5, <1>6, <1>7, <1>8, <1>9 DEF CallStep
<1> QED
  BY <1>1, <1>2, <1>3, <1>10 DEF SerialInv

\* Taking money is the abstract Charge.
LEMMA ChargeRefines ==
    ASSUME SerialInv, NEW t \in Txns, ChargeSucceeds(t)
    PROVE  Ideal!Charge(target[t], item[t])
<1> USE DEF SerialInv, IInv, TypeOK, ChargeSucceeds
<1>1. target[t] \in Schedules /\ item[t] \in Installments
  BY DEF CallsHonest
<1>2. \A x \in Txns : \A s, i : Paid(x, s, i)' <=>
         Paid(x, s, i) \/ (x = t /\ s = target[t] /\ i = item[t])
  BY DEF Paid
<1>3. ChargedItems' = [ChargedItems EXCEPT ![target[t]] = @ \union {item[t]}]
  <2>1. ASSUME NEW s \in Schedules
        PROVE  ChargedItems'[s] = IF s = target[t] THEN ChargedItems[s] \union {item[t]}
                                                   ELSE ChargedItems[s]
    BY <1>1, <1>2 DEF ChargedItems
  <2> QED
    BY <2>1, <1>1 DEF ChargedItems
<1>4. UNCHANGED <<SettledItems, ClosedSchedules>>
  BY DEF SettledItems, ClosedSchedules
<1> QED
  BY <1>3, <1>4 DEF Ideal!Charge

\* Saving the marked schedule is the abstract Settle: the copy is the stored
\* document, so nothing but the one mark changes.
LEMMA ApplyRefines ==
    ASSUME SerialInv, NEW t \in Txns, ApplyPayment(t)
    PROVE  Ideal!Settle(target[t], item[t])
<1> USE DEF SerialInv, IInv, TypeOK
<1>1. PICK d, s, i : d = WithPayment(copy[t], item[t], t) /\ s = target[t] /\ i = item[t]
  OBVIOUS
<1>2. /\ s \in Schedules /\ i \in Installments /\ copy[t] \in Schedule
      /\ schedules[s] # NoSchedule /\ copy[t] = schedules[s]
      /\ Honest(copy[t], s) /\ Paid(t, s, i)
  BY <1>1 DEF ApplyPayment, CallsHonest, ChargedCalls, Fresh, Paid
<1>3. /\ d \in Schedule
      /\ d.paidBy = [copy[t].paidBy EXCEPT ![i] = t]
      /\ Honest(d, s)
  BY <1>1, <1>2, WithPaymentDoc, ApplyHonest
<1>4. d.status = IF AllPaid(d.paidBy) THEN "completed" ELSE copy[t].status
  BY <1>1, <1>2 DEF WithPayment, Schedule
<1>5. /\ schedules' = [schedules EXCEPT ![s] = Serialised(d)]
      /\ Serialised(d) \in Schedule
      /\ Serialised(d).paidBy = d.paidBy /\ Serialised(d).status = d.status
  BY <1>1, <1>3 DEF ApplyPayment, saveSchedule, Put, Serialised, Schedule
<1>6. Serialised(d) # NoSchedule
  BY <1>5, SentinelAssumption
<1>7. \A x \in Schedules, j \in Installments :
         (schedules'[x] # NoSchedule /\ schedules'[x].paidBy[j] # NoTxn) <=>
            \/ schedules[x] # NoSchedule /\ schedules[x].paidBy[j] # NoTxn
            \/ x = s /\ j = i
  <2>1. d.paidBy[i] = t /\ t # NoTxn
    BY <1>2, <1>3, SentinelAssumption DEF Schedule
  <2>2. \A j \in Installments : j # i => d.paidBy[j] = schedules[s].paidBy[j]
    BY <1>2, <1>3 DEF Schedule
  <2> QED
    BY <1>2, <1>5, <1>6, <2>1, <2>2
<1>8. SettledItems' = [SettledItems EXCEPT ![s] = @ \union {i}]
  <2>1. ASSUME NEW x \in Schedules
        PROVE  SettledItems'[x] = IF x = s THEN SettledItems[x] \union {i}
                                           ELSE SettledItems[x]
    BY <1>2, <1>7 DEF SettledItems
  <2> QED
    BY <2>1, <1>2 DEF SettledItems
<1>9. (SettledItems'[s] = Installments) <=> AllPaid(d.paidBy)
  BY <1>2, <1>5, <1>6 DEF SettledItems, AllPaid
<1>10. d.status = "completed" <=> AllPaid(d.paidBy)
  BY <1>3, <1>4 DEF Honest
<1>11. \A x \in Schedules : x \in ClosedSchedules' <=>
          x \in ClosedSchedules \/ (x = s /\ AllPaid(d.paidBy))
  <2>1. s \in ClosedSchedules => AllPaid(d.paidBy)
    BY <1>2, <1>4, <1>10 DEF ClosedSchedules
  <2>2. s \in ClosedSchedules' <=> AllPaid(d.paidBy)
    BY <1>2, <1>5, <1>6, <1>10 DEF ClosedSchedules
  <2>3. \A x \in Schedules : x # s => schedules'[x] = schedules[x]
    BY <1>2, <1>5
  <2> QED
    BY <2>1, <2>2, <2>3 DEF ClosedSchedules
<1>12. ClosedSchedules' = ClosedSchedules \union {x \in {s} : SettledItems'[s] = Installments}
  BY <1>2, <1>9, <1>11 DEF ClosedSchedules
<1>13. i \in ChargedItems[s]
  BY <1>2 DEF ChargedItems
<1>14. UNCHANGED ChargedItems
  <2>1. \A x \in Txns : \A y, j : Paid(x, y, j)' <=> Paid(x, y, j)
    BY DEF ApplyPayment, Paid
  <2> QED
    BY <2>1 DEF ChargedItems
<1> QED
  BY <1>1, <1>8, <1>12, <1>13, <1>14 DEF Ideal!Settle

\* No other step is seen by the borrower.
LEMMA OthersStutter ==
    ASSUME SerialInv, [SerialNext]_vars,
           ~ \E t \in Txns : ChargeSucceeds(t) \/ ApplyPayment(t)
    PROVE  UNCHANGED <<ChargedItems, SettledItems, ClosedSchedules>>
<1> USE DEF SerialInv, IInv, TypeOK
<1>1. UNCHANGED ChargedItems
  <2>1. \A x \in Txns : \A y, j : Paid(x, y, j)' <=> Paid(x, y, j)
    BY DEF SerialNext, Next, CallStep, createSchedule, BeginPayment, ChargeFails,
           EmitPaymentMade, SaveAutoDebit, LinkAutoDebit, createPaymentPlan,
           processEarlyPayment, callVars, vars, Paid, ChargedCalls
  <2> QED
    BY <2>1 DEF ChargedItems
<1>2. ASSUME NEW s \in Schedules, createSchedule(s)
      PROVE  UNCHANGED <<SettledItems, ClosedSchedules>>
  <2>1. PICK d : d = Serialised([status  |-> "active",
                                 paidBy  |-> [i \in Installments |-> NoTxn],
                                 endDate |-> "Date"])
    OBVIOUS
  <2>2. d.status # "completed" /\ \A i \in Installments : d.paidBy[i] = NoTxn
    BY <2>1 DEF Serialised
  <2>3. schedules[s] = NoSchedule /\ schedules' = [schedules EXCEPT ![s] = d]
    BY <1>2, <2>1 DEF createSchedule, saveSchedule, Put, Known
  <2> QED
    BY <2>2, <2>3 DEF SettledItems, ClosedSchedules
<1>3. ASSUME UNCHANGED schedules
      PROVE  UNCHANGED <<SettledItems, ClosedSchedules>>
  BY <1>3 DEF SettledItems, ClosedSchedules
<1>4. UNCHANGED schedules \/ \E s \in Schedules : createSchedule(s)
  BY DEF SerialNext, Next, CallStep, BeginPayment, ChargeFails, EmitPaymentMade,
         SaveAutoDebit, LinkAutoDebit, createPaymentPlan, processEarlyPayment, vars
<1> QED
  BY <1>1, <1>2, <1>3, <1>4

\* With serial payments the engine implements IdealRepayment's steps: a mark or
\* a completion is never undone and every mark settles money that was taken.
THEOREM SerialRefinesIdeal == SerialSpec => Ideal!Init /\ [][Ideal!Next]_Ideal!vars
<1>1. Init => Ideal!Init
  BY DEF Init, Ideal!Init, ChargedItems, SettledItems, ClosedSchedules, Paid
<1>2. SerialInv /\ [SerialNext]_vars => [Ideal!Next]_Ideal!vars
  <2> SUFFICES ASSUME SerialInv, [SerialNext]_vars PROVE [Ideal!Next]_Ideal!vars
    OBVIOUS
  <2>1. ASSUME NEW t \in Txns, ChargeSucceeds(t) PROVE Ideal!Next
    <3>1. target[t] \in Schedules /\ item[t] \in Installments
      BY <2>1 DEF SerialInv, IInv, CallsHonest, ChargeSucceeds
    <3> QED
      BY <2>1, <3>1, ChargeRefines DEF Ideal!Next
  <2>2. ASSUME NEW t \in Txns, ApplyPayment(t) PROVE Ideal!Next
    <3>1. target[t] \in Schedules /\ item[t] \in Installments
      BY <2>2 DEF SerialInv, IInv, CallsHonest, ApplyPayment
    <3> QED
      BY <2>2, <3>1, ApplyRefines DEF Ideal!Next
  <2>3. CASE ~ \E t \in Txns : ChargeSucceeds(t) \/ ApplyPayment(t)
    BY <2>3, OthersStutter DEF Ideal!vars
  <2> QED
    BY <2>1, <2>2, <2>3
<1> QED
  BY <1>1, <1>2, SerialInit, SerialStep, PTL DEF SerialSpec

-----------------------------------------------------------------------------
\* A setup that is linked, or still to be linked, has been stored for its
\* schedule, and a drawn id is never stored again.
SetupsStored ==
    /\ \A s \in Schedules : autoDebitOf[s] # NoAutoDebit =>
          autoDebitOf[s] \in drawn /\ autoDebits[autoDebitOf[s]] = s
    /\ \A a \in AutoDebits : linking[a] # NoSchedule =>
          a \in drawn /\ autoDebits[a] = linking[a]

LEMMA SetupsStep == SerialInv /\ SetupsStored /\ [SerialNext]_vars => SetupsStored'
<1> SUFFICES ASSUME SerialInv, SetupsStored, [SerialNext]_vars PROVE SetupsStored'
  OBVIOUS
<1> USE DEF SerialInv, IInv, TypeOK, SetupsStored
<1>1. ASSUME NEW a \in AutoDebits, NEW s \in Schedules, SaveAutoDebit(a, s)
      PROVE  SetupsStored'
  <2>1. /\ a \notin drawn /\ drawn' = drawn \union {a}
        /\ autoDebits' = [autoDebits EXCEPT ![a] = s]
        /\ linking' = [linking EXCEPT ![a] = s]
        /\ autoDebitOf' = autoDebitOf
    BY <1>1 DEF SaveAutoDebit, Put
  <2> QED
    BY <2>1
<1>2. ASSUME NEW a \in AutoDebits, LinkAutoDebit(a)
      PROVE  SetupsStored'
  <2>1. /\ linking[a] # NoSchedule /\ linking[a] \in Schedules
        /\ drawn' = drawn /\ autoDebits' = autoDebits
        /\ linking' = [linking EXCEPT ![a] = NoSchedule]
        /\ autoDebitOf' = [autoDebitOf EXCEPT ![linking[a]] = a]
    BY <1>2 DEF LinkAutoDebit, Put
  <2> QED
    BY <2>1
<1>3. CASE UNCHANGED autoVars
  BY <1>3 DEF autoVars
<1>4. \/ UNCHANGED autoVars
      \/ \E a \in AutoDebits, s \in Schedules : SaveAutoDebit(a, s)
      \/ \E a \in AutoDebits : LinkAutoDebit(a)
  BY DEF SerialNext, Next, CallStep, createSchedule, BeginPayment, ChargeSucceeds,
         ChargeFails, ApplyPayment, EmitPaymentMade, createPaymentPlan,
         processEarlyPayment, vars, autoVars
<1> QED
  BY <1>1, <1>2, <1>3, <1>4

\* While Redis answers, and whichever of several setups wrote it last, an auto
\* debit pointer names a setup that is stored for that very schedule.
THEOREM PointersNameSetups == SerialSpec => []PointerNamesItsSetup
<1>1. Init => SetupsStored
  BY DEF Init, SetupsStored
<1>2. SetupsStored => PointerNamesItsSetup
  BY DEF SetupsStored, PointerNamesItsSetup
<1> QED
  BY <1>1, <1>2, SerialInit, SerialStep, SetupsStep, PTL DEF SerialSpec
=============================================================================
