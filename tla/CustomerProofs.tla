---------------------------- MODULE CustomerProofs -----------------------------
(***************************************************************************)
(* The services a customer deals with, for any clients, documents and      *)
(* bounds: each service's invariant is kept by its own steps and left      *)
(* alone by the others', and together they give what CustomerServices      *)
(* promises.                                                               *)
(***************************************************************************)
EXTENDS CustomerServices, Sums, SequenceTheorems

LEMMA Marks ==
    /\ Resting.pc = "resting" /\ Unused.status = "unused" /\ Expired.status = "expired"
    /\ Unused # Expired
  BY DEF Resting, Unused, Expired

-----------------------------------------------------------------------------
\* Collections.

Reasons == {"payment_received", "no_contact", "referral"}
CollectingCalls ==
    {Resting} \union [pc : {"list", "file"}, kind : Kinds, case : Cases]
    \union [pc : {"complete"}, action : Actions, case : Cases, outcome : Outcomes]
    \union [pc : {"read"}, why : Reasons, case : Cases]
    \union [pc : {"save"}, why : Reasons, case : Cases, copy : Case]
Standings ==
    [status : {"unused", "early_delinquency", "delinquent", "default", "resolved"}, level : Levels]

\* What is known of a case that requests never held at once: its document, and the one
\* copy of it, are what every update together made of it.
Reliable(c) ==
    c \notin overlapped =>
        /\ Filed(c) => Standing(cases[c]) = expected[c]
        /\ \A k \in Clients : Holding(k, c) => Standing(collecting[k].copy) = expected[c]
        /\ \A k, j \in Clients : Holding(k, c) /\ Holding(j, c) => k = j

CollectionsInv ==
    /\ CollectionsTypeOK
    /\ collecting \in [Clients -> CollectingCalls] /\ expected \in [Cases -> Standings]
    /\ \A k \in Clients : \A c \in Cases : Holding(k, c) => cases[c] # Unused
    /\ \A c \in Cases : Reliable(c)

\* The fields of the calls at each step.
LEMMA CollectingFields ==
    ASSUME NEW call \in CollectingCalls
    PROVE  /\ call.pc \in {"resting", "list", "file", "complete", "read", "save"}
           /\ call.pc \in {"list", "file"} => call.kind \in Kinds /\ call.case \in Cases
                                              /\ [call EXCEPT !.pc = "list"] \in CollectingCalls
                                              /\ [call EXCEPT !.pc = "list"].pc = "list"
           /\ call.pc = "complete" => /\ call.action \in Actions /\ call.case \in Cases
                                      /\ call.outcome \in Outcomes
           /\ call.pc \in {"read", "save"} => call.why \in Reasons /\ call.case \in Cases
           /\ call.pc = "save" => call.copy \in Case
<1>1. call = Resting => call.pc = "resting"
  BY Marks
<1>2. CASE call = Resting
  BY <1>1, <1>2
<1>3. CASE call # Resting
  BY <1>3 DEF CollectingCalls
<1> QED
  BY <1>2, <1>3

LEMMA CollectingCallsAre ==
    /\ Resting \in CollectingCalls
    /\ \A kind \in Kinds, c \in Cases :
          /\ [pc |-> "list", kind |-> kind, case |-> c] \in CollectingCalls
          /\ [pc |-> "file", kind |-> kind, case |-> c] \in CollectingCalls
    /\ \A a \in Actions, c \in Cases, outcome \in Outcomes :
          [pc |-> "complete", action |-> a, case |-> c, outcome |-> outcome] \in CollectingCalls
    /\ \A why \in Reasons, c \in Cases : [pc |-> "read", why |-> why, case |-> c] \in CollectingCalls
    /\ \A why \in Reasons, c \in Cases, copy \in Case :
          [pc |-> "save", why |-> why, case |-> c, copy |-> copy] \in CollectingCalls
  BY DEF CollectingCalls

\* A step that changes no case, and after which its call holds none.
LEMMA CollectingGoesOn ==
    ASSUME CollectionsInv, NEW k \in Clients, NEW call \in CollectingCalls, GoOn(k, call),
           call.pc # "save", UNCHANGED <<cases, expected, overlapped>>,
           actions' \in [Actions -> Action \union {Unused, Expired}],
           filed' \subseteq Kinds \X Cases, listed' \subseteq Kinds \X Cases
    PROVE  CollectionsInv'
<1>1. /\ collecting' \in [Clients -> CollectingCalls]
      /\ \A j \in Clients, c \in Cases : Holding(j, c)' => Holding(j, c) /\ collecting'[j] = collecting[j]
  BY DEF CollectionsInv, GoOn, Holding, Doing
<1>2. CollectionsTypeOK'
  BY DEF CollectionsInv, CollectionsTypeOK
<1>3. \A c \in Cases : Reliable(c)'
  BY <1>1 DEF CollectionsInv, Reliable, Filed
<1> QED
  BY <1>1, <1>2, <1>3 DEF CollectionsInv

LEMMA LateFees ==
    ASSUME NEW overdue \in Nat, NEW days \in Nat
    PROVE  calculateLateFees(overdue, days) \in Nat
<1>1. (days + 29) \div 30 \in Nat
  OBVIOUS
<1>2. PICK months \in Nat : months = (days + 29) \div 30
  BY <1>1
<1>3. overdue * 25 * months \in Nat
  OBVIOUS
<1>4. PICK fee \in Nat : fee = overdue * 25 * months
  BY <1>3
<1>5. fee \div 1000 \in Nat
  OBVIOUS
<1> QED
  BY <1>2, <1>4, <1>5 DEF calculateLateFees

LEMMA OpenedIsACase ==
    ASSUME NEW d \in Delinquencies
    PROVE  Opened(d) \in Case /\ Standing(Opened(d)) \in Standings /\ Opened(d).status # "unused"
<1>1. d.days \in Nat /\ d.outstanding \in Nat /\ d.overdue \in Nat /\ 1 \in Levels
  BY CollectionsAssumption DEF Levels
<1>2. calculateLateFees(d.overdue, d.days) \in Nat
  BY <1>1, LateFees
<1>3. PICK fees \in Nat : fees = calculateLateFees(d.overdue, d.days)
  BY <1>2
<1>4. PICK severity \in {"low", "medium", "high", "critical"} : severity = calculateSeverity(d.days, d.overdue)
  BY DEF calculateSeverity
<1>5. PICK priority \in {"low", "medium", "high", "urgent"} : priority = calculatePriority(severity, d.outstanding)
  BY DEF calculatePriority
<1>6. PICK status \in {"early_delinquency", "delinquent"} :
         status = IF d.days <= 30 THEN "early_delinquency" ELSE "delinquent"
  OBVIOUS
<1>7. Opened(d) = [status |-> status, severity |-> severity, priority |-> priority,
                   totalOwed |-> d.outstanding + fees, escalationLevel |-> 1]
  BY <1>3, <1>4, <1>5, <1>6 DEF Opened
<1>8. d.outstanding + fees \in Nat
  BY <1>1
<1> QED
  BY <1>1, <1>7, <1>8 DEF Case, Standing, Standings

\* A case with an effect is still a case, and stands as promised.
LEMMA EffectIsPromised ==
    ASSUME NEW why \in Reasons, NEW case \in Case, Effect(why, case).escalationLevel \in Levels
    PROVE  /\ Effect(why, case) \in Case
           /\ Standing(Effect(why, case)) = Promised(why, Standing(case))
<1>1. PICK level : level = case.escalationLevel
  OBVIOUS
<1>2. CASE why = "payment_received"
  <2>1. Effect(why, case) = [case EXCEPT !.status = "resolved"]
    BY <1>2 DEF Effect
  <2> QED
    BY <1>2, <2>1 DEF Case, Standing, Promised
<1>3. CASE why = "no_contact"
  <2>1. Effect(why, case) = [case EXCEPT !.escalationLevel = @ + 1]
    BY <1>3 DEF Effect
  <2>2. PICK l \in Levels : l = case.escalationLevel + 1
    BY <2>1 DEF Case
  <2>3. Effect(why, case) = [case EXCEPT !.escalationLevel = l]
    BY <2>1, <2>2
  <2> QED
    BY <1>3, <2>2, <2>3 DEF Case, Standing, Promised
<1>4. CASE why = "referral"
  <2>1. Effect(why, case) = [case EXCEPT !.status = "default", !.escalationLevel = LegalLevel]
    BY <1>4 DEF Effect
  <2>2. LegalLevel \in Levels
    BY CollectionsAssumption DEF Levels, LegalLevel
  <2> QED
    BY <1>4, <2>1, <2>2 DEF Case, Standing, Promised
<1> QED
  BY <1>2, <1>3, <1>4 DEF Reasons

LEMMA CollectionsInitially == CollectionsInit => CollectionsInv
<1> SUFFICES ASSUME CollectionsInit PROVE CollectionsInv
  OBVIOUS
<1>1. CollectionsTypeOK
  BY DEF CollectionsInit, CollectionsTypeOK
<1>2. collecting \in [Clients -> CollectingCalls] /\ \A k \in Clients : collecting[k].pc = "resting"
  BY CollectingCallsAre, Marks DEF CollectionsInit
<1>3. expected \in [Cases -> Standings]
  <2>1. 1 \in Levels
    BY CollectionsAssumption DEF Levels
  <2> QED
    BY <2>1 DEF CollectionsInit, Standings
<1>4. \A c \in Cases : ~Filed(c)
  BY DEF CollectionsInit, Filed, OnRecord
<1> QED
  BY <1>1, <1>2, <1>3, <1>4 DEF CollectionsInv, Reliable, Holding, Doing

LEMMA OpeningKeeps ==
    ASSUME CollectionsInv, NEW k \in Clients, NEW o \in Cases, NEW d \in Delinquencies,
           createDelinquencyCase(k, o, d)
    PROVE  CollectionsInv'
<1>1. Opened(d) \in Case /\ Standing(Opened(d)) \in Standings
  BY OpenedIsACase
<1>2. PICK new \in Case : new = Opened(d)
  BY <1>1
<1>3. /\ cases' = [cases EXCEPT ![o] = new] /\ expected' = [expected EXCEPT ![o] = Standing(new)]
      /\ UNCHANGED <<actions, filed, listed, collecting, overlapped>> /\ cases[o].status = "unused"
  BY <1>2 DEF createDelinquencyCase
<1>4. new \notin {Unused, Expired}
  BY Marks DEF Case
<1>5. cases[o] = Unused
  <2>1. cases[o] \in Case \union {Unused, Expired}
    BY DEF CollectionsInv, CollectionsTypeOK
  <2>2. \A c \in Case : c.status # "unused"
    BY DEF Case
  <2> QED
    BY <1>3, <2>1, <2>2, Marks
<1>6. CollectionsTypeOK'
  BY <1>3 DEF CollectionsInv, CollectionsTypeOK
<1>7. expected' \in [Cases -> Standings]
  BY <1>1, <1>2, <1>3 DEF CollectionsInv
<1>8. \A j \in Clients, c \in Cases : (Holding(j, c)' <=> Holding(j, c)) /\ (Holding(j, c) => c # o)
  BY <1>3, <1>5 DEF CollectionsInv, Holding, Doing
<1>9. cases'[o] = new /\ expected'[o] = Standing(new)
      /\ \A c \in Cases \ {o} : cases'[c] = cases[c] /\ expected'[c] = expected[c]
  BY <1>3 DEF CollectionsInv, CollectionsTypeOK
<1>10. \A c \in Cases : Reliable(c)'
  BY <1>3, <1>8, <1>9 DEF CollectionsInv, Reliable, Filed
<1> QED
  BY <1>3, <1>6, <1>7, <1>8, <1>9, <1>10 DEF CollectionsInv

LEMMA ReadingKeeps ==
    ASSUME CollectionsInv, NEW k \in Clients, getCase(k)
    PROVE  CollectionsInv'
<1>1. PICK call \in CollectingCalls : call = collecting[k]
  BY DEF CollectionsInv
<1>2. call.pc = "read" /\ call.why \in Reasons /\ call.case \in Cases
  BY <1>1, CollectingFields DEF getCase, Doing
<1>3. CASE ~Filed(call.case)
  <2>1. GoOn(k, Resting) /\ UNCHANGED <<cases, actions, filed, listed, expected, overlapped>>
    BY <1>1, <1>3 DEF getCase
  <2> QED
    BY <2>1, CollectingGoesOn, CollectingCallsAre, Marks DEF CollectionsInv, CollectionsTypeOK
<1>4. CASE Filed(call.case)
  <2>1. cases[call.case] \in Case /\ cases[call.case] # Unused
    BY <1>2, <1>4 DEF CollectionsInv, CollectionsTypeOK, Filed, OnRecord
  <2>2. PICK n : n = [pc |-> "save", why |-> call.why, case |-> call.case, copy |-> cases[call.case]]
    OBVIOUS
  <2>3. n \in CollectingCalls
    BY <1>2, <2>1, <2>2, CollectingCallsAre
  <2>4. /\ collecting' = [collecting EXCEPT ![k] = n] /\ UNCHANGED <<cases, actions, filed, listed, expected>>
        /\ overlapped' = IF \E j \in Clients : Holding(j, call.case)
                         THEN overlapped \union {call.case} ELSE overlapped
    BY <1>1, <1>4, <2>2 DEF getCase, GoOn
  <2>5. collecting'[k] = n /\ \A j \in Clients \ {k} : collecting'[j] = collecting[j]
    BY <2>4 DEF CollectionsInv
  <2>6. n.pc = "save" /\ n.case = call.case /\ n.copy = cases[call.case]
    BY <2>2
  <2>7. \A c \in Cases : (Holding(k, c)' <=> c = call.case) /\ ~Holding(k, c)
                         /\ \A j \in Clients \ {k} : Holding(j, c)' <=> Holding(j, c)
    BY <1>1, <1>2, <2>5, <2>6 DEF Holding, Doing
  <2>8. \A c \in Cases : Reliable(c)'
    BY <1>2, <1>4, <2>4, <2>5, <2>6, <2>7 DEF CollectionsInv, Reliable, Filed
  <2>9. CollectionsTypeOK'
    BY <1>2, <2>4 DEF CollectionsInv, CollectionsTypeOK
  <2>10. \A j \in Clients, c \in Cases : Holding(j, c)' => cases'[c] # Unused
    BY <2>1, <2>4, <2>7 DEF CollectionsInv
  <2>11. collecting' \in [Clients -> CollectingCalls]
    BY <2>3, <2>4 DEF CollectionsInv
  <2> QED
    BY <2>4, <2>8, <2>9, <2>10, <2>11 DEF CollectionsInv
<1> QED
  BY <1>3, <1>4

LEMMA SavingKeeps ==
    ASSUME CollectionsInv, NEW k \in Clients, saveCase(k)
    PROVE  CollectionsInv'
<1>1. PICK call \in CollectingCalls : call = collecting[k]
  BY DEF CollectionsInv
<1>2. call.pc = "save" /\ call.why \in Reasons /\ call.case \in Cases /\ call.copy \in Case
  BY <1>1, CollectingFields DEF saveCase, Doing
<1>3. PICK o \in Cases, why \in Reasons, copy \in Case : o = call.case /\ why = call.why /\ copy = call.copy
  BY <1>2
<1>4. /\ Effect(why, copy).escalationLevel \in Levels /\ Promised(why, expected[o]).level \in Levels
      /\ cases' = [cases EXCEPT ![o] = Effect(why, copy)]
      /\ expected' = [expected EXCEPT ![o] = Promised(why, expected[o])]
      /\ collecting' = [collecting EXCEPT ![k] = Resting]
      /\ UNCHANGED <<actions, filed, listed, overlapped>>
  BY <1>1, <1>3 DEF saveCase, GoOn
<1>5. Effect(why, copy) \in Case /\ Standing(Effect(why, copy)) = Promised(why, Standing(copy))
  BY <1>4, EffectIsPromised
<1>6. PICK new \in Case : new = Effect(why, copy)
  BY <1>5
<1>7. new \notin {Unused, Expired}
  BY Marks DEF Case
<1>8. /\ cases'[o] = new /\ expected'[o] = Promised(why, expected[o])
      /\ \A c \in Cases \ {o} : cases'[c] = cases[c] /\ expected'[c] = expected[c]
  BY <1>4, <1>6 DEF CollectionsInv, CollectionsTypeOK
<1>9. \A c \in Cases : ~Holding(k, c)' /\ (Holding(k, c) <=> c = o)
                       /\ \A j \in Clients \ {k} : (Holding(j, c)' <=> Holding(j, c)) /\ collecting'[j] = collecting[j]
  BY <1>1, <1>2, <1>3, <1>4, Marks DEF CollectionsInv, Holding, Doing
<1>10. Promised(why, expected[o]) \in Standings
  <2>1. PICK was \in Standings : was = expected[o]
    BY DEF CollectionsInv
  <2>2. PICK level \in Levels : level = Promised(why, was).level
    BY <1>4, <2>1
  <2>3. PICK status : status = Promised(why, was).status
    OBVIOUS
  <2>4. Promised(why, was) = [status |-> status, level |-> level]
    BY <2>2, <2>3 DEF Promised
  <2>5. status \in {"unused", "early_delinquency", "delinquent", "default", "resolved"}
    BY <2>3 DEF Promised, Standings
  <2> QED
    BY <2>1, <2>4, <2>5 DEF Standings
<1>11. ASSUME NEW c \in Cases PROVE Reliable(c)'
  <2>1. CASE c = o
    <3>1. o \notin overlapped => Standing(copy) = expected[o] /\ \A j \in Clients \ {k} : ~Holding(j, o)
      BY <1>1, <1>3, <1>9 DEF CollectionsInv, Reliable
    <3> QED
      BY <1>4, <1>5, <1>6, <1>8, <1>9, <2>1, <3>1 DEF Reliable
  <2>2. CASE c # o
    BY <1>4, <1>8, <1>9, <2>2 DEF CollectionsInv, Reliable, Filed
  <2> QED
    BY <2>1, <2>2
<1>12. CollectionsTypeOK'
  BY <1>4, <1>6 DEF CollectionsInv, CollectionsTypeOK
<1>13. collecting' \in [Clients -> CollectingCalls] /\ expected' \in [Cases -> Standings]
  BY <1>4, <1>10, CollectingCallsAre DEF CollectionsInv
<1>14. \A j \in Clients, c \in Cases : Holding(j, c)' => cases'[c] # Unused
  BY <1>7, <1>8, <1>9 DEF CollectionsInv
<1> QED
  BY <1>11, <1>12, <1>13, <1>14 DEF CollectionsInv

LEMMA CaseExpiryKeeps == ASSUME CollectionsInv, DocumentExpires PROVE CollectionsInv'
<1>1. /\ actions' \in [Actions -> Action \union {Unused, Expired}]
      /\ UNCHANGED <<filed, listed, collecting, expected, overlapped>>
  BY DEF DocumentExpires, CollectionsInv, CollectionsTypeOK
<1>2. cases' = cases \/ \E o \in Cases : Filed(o) /\ cases' = [cases EXCEPT ![o] = Expired]
  BY DEF DocumentExpires
<1>3. cases' \in [Cases -> Case \union {Unused, Expired}]
      /\ \A c \in Cases : cases'[c] = cases[c] \/ cases'[c] = Expired
  BY <1>2 DEF CollectionsInv, CollectionsTypeOK
<1>4. CollectionsTypeOK'
  BY <1>1, <1>3 DEF CollectionsInv, CollectionsTypeOK
<1>5. \A j \in Clients, c \in Cases : Holding(j, c)' <=> Holding(j, c)
  BY <1>1 DEF Holding, Doing
<1>6. \A c \in Cases : Reliable(c)'
  BY <1>1, <1>3, <1>5 DEF CollectionsInv, Reliable, Filed, OnRecord
<1> QED
  BY <1>1, <1>3, <1>4, <1>5, <1>6, Marks DEF CollectionsInv

LEMMA CollectionsKept == CollectionsInv /\ [CollectionsNext]_CollectionsVars => CollectionsInv'
<1> SUFFICES ASSUME CollectionsInv, [CollectionsNext]_CollectionsVars PROVE CollectionsInv'
  OBVIOUS
<1>0. CollectionsTypeOK
  BY DEF CollectionsInv
<1>1. CASE UNCHANGED CollectionsVars
  BY <1>1 DEF CollectionsVars, CollectionsInv, CollectionsTypeOK, Reliable, Holding, Doing, Filed
<1>2. CASE DocumentExpires
  BY <1>2, CaseExpiryKeeps
<1>3. ASSUME NEW k \in Clients, RequestCase(k) PROVE CollectionsInv'
  BY <1>3, OpeningKeeps DEF RequestCase
<1>4. ASSUME NEW k \in Clients, RequestAction(k) PROVE CollectionsInv'
  <2>1. PICK c \in Cases, a \in Actions : createCollectionAction(k, c, a)
    BY <1>4 DEF RequestAction
  <2>2. PICK n : n = [pc |-> "list", kind |-> "action", case |-> c]
    OBVIOUS
  <2>3. n \in CollectingCalls /\ n.pc # "save"
    BY <2>2, CollectingCallsAre DEF Kinds
  <2>4. actions' \in [Actions -> Action \union {Unused, Expired}]
    BY <1>0, <2>1 DEF createCollectionAction, CollectionsTypeOK, Action
  <2> QED
    BY <1>0, <2>1, <2>2, <2>3, <2>4, CollectingGoesOn DEF createCollectionAction, CollectionsTypeOK
<1>5. ASSUME NEW k \in Clients, RequestCompletion(k) PROVE CollectionsInv'
  <2>1. PICK a \in Actions, outcome \in Outcomes : completeCollectionAction(k, a, outcome)
    BY <1>5 DEF RequestCompletion
  <2>2. actions[a].case \in Cases
    <3>1. actions[a] \in Action \union {Unused, Expired} /\ actions[a].status \in {"pending", "completed"}
      BY <1>0, <2>1 DEF completeCollectionAction, CollectionsTypeOK
    <3>2. actions[a] \in Action
      BY <3>1, Marks
    <3> QED
      BY <3>2 DEF Action
  <2>3. PICK n : n = [pc |-> "complete", action |-> a, case |-> actions[a].case, outcome |-> outcome]
    OBVIOUS
  <2>4. n \in CollectingCalls /\ n.pc # "save"
    BY <2>2, <2>3, CollectingCallsAre
  <2> QED
    BY <1>0, <2>1, <2>3, <2>4, CollectingGoesOn DEF completeCollectionAction, CollectionsTypeOK
<1>6. ASSUME NEW k \in Clients, RequestPlan(k) PROVE CollectionsInv'
  <2>1. PICK c \in Cases : createHardshipPlan(k, c)
    BY <1>6 DEF RequestPlan
  <2>2. PICK n : n = [pc |-> "file", kind |-> "plan", case |-> c]
    OBVIOUS
  <2>3. n \in CollectingCalls /\ n.pc # "save"
    BY <2>2, CollectingCallsAre DEF Kinds
  <2> QED
    BY <1>0, <2>1, <2>2, <2>3, CollectingGoesOn DEF createHardshipPlan, CollectionsTypeOK
<1>7. ASSUME NEW k \in Clients, RequestPromise(k) PROVE CollectionsInv'
  <2>1. PICK c \in Cases : recordPaymentPromise(k, c)
    BY <1>7 DEF RequestPromise
  <2>2. PICK n : n = [pc |-> "list", kind |-> "promise", case |-> c]
    OBVIOUS
  <2>3. n \in CollectingCalls /\ n.pc # "save" /\ <<"promise", c>> \in Kinds \X Cases
    BY <2>2, CollectingCallsAre DEF Kinds
  <2> QED
    BY <1>0, <2>1, <2>2, <2>3, CollectingGoesOn DEF recordPaymentPromise, CollectionsTypeOK
<1>8. ASSUME NEW k \in Clients, RequestDispute(k) PROVE CollectionsInv'
  <2>1. PICK c \in Cases : createDisputeCase(k, c)
    BY <1>8 DEF RequestDispute
  <2>2. <<"dispute", c>> \in Kinds \X Cases
    BY DEF Kinds
  <2>3. filed' \subseteq Kinds \X Cases /\ UNCHANGED <<cases, actions, listed, collecting, expected, overlapped>>
    BY <1>0, <2>1, <2>2 DEF createDisputeCase, CollectionsTypeOK
  <2> QED
    BY <2>3 DEF CollectionsInv, CollectionsTypeOK, Reliable, Holding, Doing, Filed
<1>9. ASSUME NEW k \in Clients, RequestReferral(k) PROVE CollectionsInv'
  <2>1. PICK c \in Cases : createLegalReferral(k, c)
    BY <1>9 DEF RequestReferral
  <2>2. PICK n : n = [pc |-> "read", why |-> "referral", case |-> c]
    OBVIOUS
  <2>3. n \in CollectingCalls /\ n.pc # "save" /\ <<"referral", c>> \in Kinds \X Cases
    BY <2>2, CollectingCallsAre DEF Kinds, Reasons
  <2> QED
    BY <1>0, <2>1, <2>2, <2>3, CollectingGoesOn DEF createLegalReferral, CollectionsTypeOK
<1>10. ASSUME NEW k \in Clients, FilePlan(k) PROVE CollectionsInv'
  <2>1. PICK call \in CollectingCalls : call = collecting[k]
    BY DEF CollectionsInv
  <2>2. PICK n : n = [call EXCEPT !.pc = "list"]
    OBVIOUS
  <2>3. n \in CollectingCalls /\ n.pc # "save" /\ <<"plan", call.case>> \in Kinds \X Cases
    BY <1>10, <2>1, <2>2, CollectingFields DEF FilePlan, Doing, Kinds
  <2> QED
    BY <1>0, <1>10, <2>1, <2>2, <2>3, CollectingGoesOn DEF FilePlan, CollectionsTypeOK
<1>11. ASSUME NEW k \in Clients, AddToCase(k) PROVE CollectionsInv'
  <2>1. PICK call \in CollectingCalls : call = collecting[k]
    BY DEF CollectionsInv
  <2>2. <<call.kind, call.case>> \in Kinds \X Cases
    BY <1>11, <2>1, CollectingFields DEF AddToCase, Doing
  <2> QED
    BY <1>0, <1>11, <2>1, <2>2, CollectingGoesOn, CollectingCallsAre, Marks DEF AddToCase, CollectionsTypeOK
<1>12. ASSUME NEW k \in Clients, processActionOutcome(k) PROVE CollectionsInv'
  <2>1. PICK call \in CollectingCalls : call = collecting[k]
    BY DEF CollectionsInv
  <2>2. call.action \in Actions /\ call.case \in Cases /\ call.outcome \in Outcomes
    BY <1>12, <2>1, CollectingFields DEF processActionOutcome, Doing
  <2>3. PICK n : n = IF call.outcome = "other" THEN Resting
                     ELSE [pc |-> "read", why |-> call.outcome, case |-> call.case]
    OBVIOUS
  <2>4. n \in CollectingCalls /\ n.pc # "save"
    BY <2>2, <2>3, CollectingCallsAre, Marks DEF Outcomes, Reasons
  <2>5. [status |-> "completed", case |-> call.case, outcome |-> call.outcome] \in Action
    BY <2>2 DEF Action
  <2>6. actions' \in [Actions -> Action \union {Unused, Expired}]
    BY <1>0, <1>12, <2>1, <2>5 DEF processActionOutcome, CollectionsTypeOK
  <2> QED
    BY <1>0, <1>12, <2>1, <2>3, <2>4, <2>6, CollectingGoesOn DEF processActionOutcome, CollectionsTypeOK
<1>13. ASSUME NEW k \in Clients, getCase(k) PROVE CollectionsInv'
  BY <1>13, ReadingKeeps
<1>14. ASSUME NEW k \in Clients, saveCase(k) PROVE CollectionsInv'
  BY <1>14, SavingKeeps
<1> QED
  BY <1>1, <1>2, <1>3, <1>4, <1>5, <1>6, <1>7, <1>8, <1>9, <1>10, <1>11, <1>12, <1>13, <1>14
  DEF CollectionsNext

-----------------------------------------------------------------------------
\* Notifications.

ProviderStatuses == {"delivered", "bounced", "complained", "failed", "sent", "processing", "pending"}
DeliveringCalls ==
    {Resting} \union [pc : {"call", "save"}, msg : Messages, copy : Message]
    \union [pc : {"save"}, msg : Messages, heard : ProviderStatuses, copy : Message]
Told(call) == "heard" \in DOMAIN call
After(heard, status) ==
    CASE heard = "delivered" -> "delivered" [] heard \in {"failed", "bounced"} -> "failed" [] OTHER -> status

\* A delivery saves the message as processing before anything else, and can count a failure.
CopyOK(call) ==
    call.pc \in {"call", "save"} /\ ~Told(call) =>
        call.copy.status = "processing" /\ call.copy.retryCount < MaxCalls

\* What is known of a message that requests never held at once: what it was last found to be,
\* what the one copy of it says, and that it is with the provider at most once.
Straight(m) ==
    m \notin doubled =>
        /\ messages[m] \in Message => messages[m].status = news[m]
        /\ \A k, j \in Clients : InHand(k, m) /\ InHand(j, m) => k = j
        /\ \A k \in Clients : InHand(k, m) /\ Told(delivering[k]) =>
               delivering[k].copy.status = After(delivering[k].heard, news[m])
        /\ handedOver[m] \in {0, 1}
        /\ handedOver[m] = 1 =>
              /\ messages[m] \in Message => ~Eligible(messages[m].status)
              /\ \A k \in Clients : InHand(k, m) => /\ Told(delivering[k])
                                                    /\ ~Eligible(delivering[k].copy.status)

DeliveryInv ==
    /\ DeliveryTypeOK
    /\ delivering \in [Clients -> DeliveringCalls] /\ handedOver \in [Messages -> Nat]
    /\ news \in [Messages -> {"pending", "processing", "sent", "failed", "delivered"}]
    /\ \A k \in Clients : CopyOK(delivering[k])
    /\ \A k \in Clients : \A m \in Messages : InHand(k, m) => messages[m] # Unused
    /\ \A m \in Messages : messages[m] = Unused => news[m] = "pending" /\ handedOver[m] = 0
    /\ \A m \in Messages : Straight(m)

LEMMA DeliveringFields ==
    ASSUME NEW call \in DeliveringCalls
    PROVE  /\ call.pc \in {"resting", "call", "save"}
           /\ call.pc \in {"call", "save"} => call.msg \in Messages /\ call.copy \in Message
           /\ call.pc = "call" => ~Told(call)
           /\ call.pc = "save" /\ Told(call) => call.heard \in ProviderStatuses
<1>1. CASE call = Resting
  BY <1>1, Marks
<1>2. CASE call \in [pc : {"call", "save"}, msg : Messages, copy : Message]
  BY <1>2 DEF Told
<1>3. CASE call \in [pc : {"save"}, msg : Messages, heard : ProviderStatuses, copy : Message]
  BY <1>3 DEF Told
<1> QED
  BY <1>1, <1>2, <1>3 DEF DeliveringCalls

LEMMA DeliveringCallsAre ==
    /\ Resting \in DeliveringCalls
    /\ \A m \in Messages, copy \in Message :
          LET call == [pc |-> "call", msg |-> m, copy |-> copy]
          IN call \in DeliveringCalls /\ ~Told(call)
    /\ \A m \in Messages, copy \in Message, heard \in ProviderStatuses :
          LET call == [pc |-> "save", msg |-> m, heard |-> heard, copy |-> copy]
          IN call \in DeliveringCalls /\ Told(call)
  BY DEF DeliveringCalls, Told

\* A call that goes on from the lookup of its provider to the provider.
LEMMA CallGoesOn ==
    ASSUME NEW call \in DeliveringCalls, call.pc = "call"
    PROVE  LET n == [call EXCEPT !.pc = "save"]
           IN  n \in DeliveringCalls /\ n.pc = "save" /\ n.msg = call.msg /\ n.copy = call.copy /\ ~Told(n)
<1>1. ~Told(call)
  BY DeliveringFields
<1>2. call \in [pc : {"call", "save"}, msg : Messages, copy : Message]
  BY <1>1, Marks DEF DeliveringCalls, Told
<1>3. PICK n : n = [call EXCEPT !.pc = "save"]
  OBVIOUS
<1>4. n \in [pc : {"call", "save"}, msg : Messages, copy : Message]
  BY <1>2, <1>3
<1>5. n.pc = "save" /\ n.msg = call.msg /\ n.copy = call.copy
  BY <1>2, <1>3
<1>6. n \in DeliveringCalls /\ ~Told(n)
  BY <1>4 DEF DeliveringCalls, Told
<1> QED
  BY <1>3, <1>5, <1>6

LEMMA MessagesAre ==
    /\ Unused \notin Message /\ Expired \notin Message
    /\ \A copy \in Message : /\ copy.status \in {"pending", "processing", "sent", "failed", "delivered"}
                             /\ copy.retryCount \in 0 .. MaxCalls
    /\ \A copy \in Message, status \in {"pending", "processing", "sent", "failed", "delivered"} :
          /\ [copy EXCEPT !.status = status] \in Message
          /\ [copy EXCEPT !.status = status].status = status
          /\ [copy EXCEPT !.status = status].retryCount = copy.retryCount
  BY Marks DEF Message

LEMMA FailedMessages ==
    ASSUME NEW copy \in Message, copy.retryCount < MaxCalls
    PROVE  Failed(copy) \in Message /\ Failed(copy).status = "failed"
<1>1. PICK count \in 0 .. MaxCalls : count = copy.retryCount + 1
  BY DeliveryAssumption DEF Message
<1>2. Failed(copy) = [copy EXCEPT !.status = "failed", !.retryCount = count]
  BY <1>1 DEF Failed
<1> QED
  BY <1>2 DEF Message

LEMMA DeliveryInitially == DeliveryInit => DeliveryInv
  BY DeliveringCallsAre, Marks, MessagesAre
  DEF DeliveryInit, DeliveryInv, DeliveryTypeOK, CopyOK, Straight, InHand

\* A step that leaves the requests alone, and at most begins or drops a message.
LEMMA MessageSteps ==
    ASSUME DeliveryInv, DeliveryTypeOK', UNCHANGED <<delivering, handedOver, news, doubled>>,
           \A m \in Messages : \/ messages'[m] = messages[m]
                               \/ messages'[m] = Expired
                               \/ /\ messages[m] = Unused
                                  /\ messages'[m] \in Message /\ messages'[m].status = "pending"
    PROVE  DeliveryInv'
<1>1. \A k \in Clients, m \in Messages : InHand(k, m)' <=> InHand(k, m)
  BY DEF InHand
<1>2. \A m \in Messages : messages[m] = Unused => \A k \in Clients : ~InHand(k, m)
  BY DEF DeliveryInv
<1>3. ASSUME NEW m \in Messages PROVE Straight(m)'
  <2>1. CASE messages'[m] = messages[m]
    BY <1>1, <2>1 DEF DeliveryInv, Straight
  <2>2. CASE messages'[m] = Expired
    BY <1>1, <2>2, MessagesAre DEF DeliveryInv, Straight
  <2>3. CASE messages[m] = Unused /\ messages'[m] \in Message /\ messages'[m].status = "pending"
    BY <1>1, <1>2, <2>3 DEF DeliveryInv, Straight
  <2> QED
    BY <2>1, <2>2, <2>3
<1>4. \A k \in Clients : CopyOK(delivering[k])'
  BY DEF DeliveryInv, CopyOK
<1>5. \A m \in Messages : messages'[m] = Unused => messages[m] = Unused
  BY Marks, MessagesAre
<1>6. \A k \in Clients, m \in Messages : InHand(k, m)' => messages'[m] # Unused
  BY <1>1, <1>5 DEF DeliveryInv
<1> QED
  BY <1>3, <1>4, <1>5, <1>6 DEF DeliveryInv

LEMMA NewMessageKeeps ==
    ASSUME DeliveryInv, NEW o \in Messages, NEW r \in Recipients, NewMessage(o, r),
           UNCHANGED <<template, retries, delivering, handedOver, news, doubled>>
    PROVE  DeliveryInv'
<1>0. [status |-> "pending", retryCount |-> 0, to |-> r] \in Message
  <2>1. 0 \in 0 .. MaxCalls
    BY DeliveryAssumption
  <2> QED
    BY <2>1 DEF Message
<1>1. PICK new \in Message : new = [status |-> "pending", retryCount |-> 0, to |-> r]
  BY <1>0
<1>2. messages[o] = Unused /\ messages' = [messages EXCEPT ![o] = new] /\ queue' = queue \union {o}
  BY <1>1 DEF NewMessage
<1>3. messages'[o] = new /\ \A m \in Messages \ {o} : messages'[m] = messages[m]
  BY <1>2 DEF DeliveryInv, DeliveryTypeOK
<1>4. DeliveryTypeOK'
  BY <1>2 DEF DeliveryInv, DeliveryTypeOK
<1>5. new.status = "pending"
  BY <1>1
<1> QED
  BY <1>2, <1>3, <1>4, <1>5, MessageSteps

\* A request takes up a message: a delivery, or what a provider says of one.
LEMMA TakingUpKeeps ==
    ASSUME DeliveryInv, NEW k \in Clients, delivering[k] = Resting, NEW o \in Messages,
           messages[o] \in Message, NEW n \in DeliveringCalls, n.pc \in {"call", "save"}, n.msg = o,
           delivering' = [delivering EXCEPT ![k] = n], Overlap(k, o), CopyOK(n),
           UNCHANGED <<template, messages, queue, retries, handedOver, news>>,
           Told(n) => n.copy.status = After(n.heard, messages[o].status),
           ~Told(n) => Eligible(messages[o].status)
    PROVE  DeliveryInv'
<1>1. delivering'[k] = n /\ \A j \in Clients \ {k} : delivering'[j] = delivering[j]
  BY DEF DeliveryInv
<1>2. \A m \in Messages : ~InHand(k, m) /\ (InHand(k, m)' <=> m = o)
                          /\ \A j \in Clients \ {k} : InHand(j, m)' <=> InHand(j, m)
  BY <1>1, Marks DEF InHand
<1>3. doubled \subseteq doubled' /\ (o \notin doubled' => \A j \in Clients \ {k} : ~InHand(j, o))
  BY DEF Overlap
<1>4. ASSUME NEW m \in Messages PROVE Straight(m)'
  <2>1. CASE m = o
    <3>1. SUFFICES ASSUME o \notin doubled' PROVE Straight(o)'
      BY <2>1 DEF Straight
    <3>2. messages[o].status = news[o] /\ handedOver[o] \in {0, 1}
          /\ (handedOver[o] = 1 => ~Eligible(messages[o].status))
      BY <1>3, <3>1 DEF DeliveryInv, Straight
    <3>3. handedOver[o] = 1 => Told(n) /\ ~Eligible(n.copy.status)
      BY <3>2 DEF After, Eligible
    <3> QED
      BY <1>1, <1>2, <1>3, <3>1, <3>2, <3>3 DEF Straight
  <2>2. CASE m # o
    BY <1>1, <1>2, <1>3, <2>2 DEF DeliveryInv, Straight
  <2> QED
    BY <2>1, <2>2
<1>5. \A j \in Clients : CopyOK(delivering[j])'
  BY <1>1 DEF DeliveryInv, CopyOK
<1>6. DeliveryTypeOK' /\ delivering' \in [Clients -> DeliveringCalls]
  BY DEF DeliveryInv, DeliveryTypeOK
<1>7. \A j \in Clients, m \in Messages : InHand(j, m)' => messages'[m] # Unused
  BY <1>2, MessagesAre DEF DeliveryInv
<1> QED
  BY <1>4, <1>5, <1>6, <1>7 DEF DeliveryInv

\* A request saves the message it holds, and says what came of it.
LEMMA SavingMessageKeeps ==
    ASSUME DeliveryInv, NEW k \in Clients, NEW o \in Messages, InHand(k, o), NEW copy \in Message,
           messages' = [messages EXCEPT ![o] = copy], NEW n \in DeliveringCalls,
           delivering' = [delivering EXCEPT ![k] = n], CopyOK(n),
           n.pc \in {"call", "save"} => n.msg = o /\ ~Told(n),
           NEW word \in {"pending", "processing", "sent", "failed", "delivered"},
           news' = [news EXCEPT ![o] = word], NEW count \in Nat,
           handedOver' = [handedOver EXCEPT ![o] = count],
           o \notin doubled =>
               /\ word = copy.status /\ count \in {0, 1}
               /\ count = 1 => ~Eligible(copy.status) /\ n.pc = "resting",
           UNCHANGED <<template, queue, doubled>>, retries' \subseteq Messages
    PROVE  DeliveryInv'
<1>1. delivering'[k] = n /\ \A j \in Clients \ {k} : delivering'[j] = delivering[j]
  BY DEF DeliveryInv
<1>2. /\ messages'[o] = copy /\ news'[o] = word /\ handedOver'[o] = count
      /\ \A m \in Messages \ {o} : /\ messages'[m] = messages[m] /\ news'[m] = news[m]
                                   /\ handedOver'[m] = handedOver[m]
  BY DEF DeliveryInv, DeliveryTypeOK
<1>3. /\ n.pc \in {"resting", "call", "save"}
      /\ \A m \in Messages : (InHand(k, m)' => m = o /\ ~Told(n) /\ n.pc # "resting")
                             /\ \A j \in Clients \ {k} : InHand(j, m)' <=> InHand(j, m)
  BY <1>1, DeliveringFields DEF InHand
<1>4. ASSUME NEW m \in Messages PROVE Straight(m)'
  <2>1. CASE m = o
    <3>1. SUFFICES ASSUME o \notin doubled PROVE Straight(o)'
      BY <2>1 DEF Straight
    <3>2. \A j \in Clients \ {k} : ~InHand(j, o)
      BY <3>1 DEF DeliveryInv, Straight
    <3>3. \A j \in Clients : InHand(j, o)' => j = k
      BY <3>2, <1>3
    <3> QED
      BY <1>1, <1>2, <1>3, <3>1, <3>3 DEF Straight
  <2>2. CASE m # o
    <3>1. \A j \in Clients : InHand(j, m)' => j # k /\ InHand(j, m)
      BY <1>3, <2>2
    <3> QED
      BY <1>1, <1>2, <3>1, <2>2 DEF DeliveryInv, Straight
  <2> QED
    BY <2>1, <2>2
<1>5. \A j \in Clients : CopyOK(delivering[j])'
  BY <1>1 DEF DeliveryInv, CopyOK
<1>6. DeliveryTypeOK' /\ delivering' \in [Clients -> DeliveringCalls]
      /\ news' \in [Messages -> {"pending", "processing", "sent", "failed", "delivered"}]
      /\ handedOver' \in [Messages -> Nat]
  BY DEF DeliveryInv, DeliveryTypeOK
<1>7. ASSUME NEW j \in Clients, NEW m \in Messages, InHand(j, m)' PROVE messages'[m] # Unused
  <2>1. CASE m = o
    BY <1>2, <2>1, MessagesAre
  <2>2. CASE m # o
    BY <1>2, <1>3, <1>7, <2>2 DEF DeliveryInv
  <2> QED
    BY <2>1, <2>2
<1>8. \A m \in Messages : messages'[m] = Unused => news'[m] = "pending" /\ handedOver'[m] = 0
  BY <1>2, MessagesAre DEF DeliveryInv
<1> QED
  BY <1>4, <1>5, <1>6, <1>7, <1>8 DEF DeliveryInv

LEMMA SaveProcessingKeeps ==
    ASSUME DeliveryInv, NEW k \in Clients, SaveProcessing(k)
    PROVE  DeliveryInv'
<1>1. PICK call \in DeliveringCalls : call = delivering[k]
  BY DEF DeliveryInv
<1>2. /\ call.pc = "call" /\ ~Told(call) /\ call.msg \in Messages /\ call.copy \in Message
      /\ call.copy.status = "processing" /\ CopyOK(call) /\ InHand(k, call.msg)
  BY <1>1, DeliveringFields DEF SaveProcessing, DeliveryInv, CopyOK, InHand
<1>3. PICK n \in DeliveringCalls : /\ n = IF getProvider(template) THEN [call EXCEPT !.pc = "save"] ELSE Resting
                                   /\ n.pc \in {"call", "save"} => n.msg = call.msg /\ ~Told(n)
                                   /\ CopyOK(n)
  <2>1. CASE getProvider(template)
    BY <1>2, <2>1, CallGoesOn DEF CopyOK
  <2>2. CASE ~getProvider(template)
    BY <2>2, DeliveringCallsAre, Marks DEF CopyOK
  <2> QED
    BY <2>1, <2>2
<1>4. PICK o \in Messages, copy \in Message : o = call.msg /\ copy = call.copy
  BY <1>2
<1>5. PICK count \in Nat : count = handedOver[o]
  BY DEF DeliveryInv
<1>6. PICK word \in {"pending", "processing", "sent", "failed", "delivered"} : word = "processing"
  OBVIOUS
<1>7. o \notin doubled =>
          /\ word = copy.status /\ count \in {0, 1}
          /\ count = 1 => ~Eligible(copy.status) /\ n.pc = "resting"
  BY <1>1, <1>2, <1>4, <1>5, <1>6 DEF DeliveryInv, Straight
<1>8. /\ messages' = [messages EXCEPT ![o] = copy]
      /\ news' = [news EXCEPT ![o] = word]
      /\ delivering' = [delivering EXCEPT ![k] = n]
      /\ handedOver' = [handedOver EXCEPT ![o] = count]
      /\ UNCHANGED <<template, queue, doubled>> /\ retries' \subseteq Messages
  BY <1>1, <1>3, <1>4, <1>5, <1>6 DEF SaveProcessing, Deliver, DeliveryInv, DeliveryTypeOK
<1>9. InHand(k, o) /\ (n.pc \in {"call", "save"} => n.msg = o /\ ~Told(n)) /\ CopyOK(n)
  BY <1>2, <1>3, <1>4
<1> QED
  BY <1>7, <1>8, <1>9, SavingMessageKeeps

LEMMA SendViaProviderKeeps ==
    ASSUME DeliveryInv, NEW k \in Clients, sendViaProvider(k)
    PROVE  DeliveryInv'
<1>1. PICK call \in DeliveringCalls : call = delivering[k]
  BY DEF DeliveryInv
<1>2. /\ call.pc = "save" /\ ~Told(call) /\ call.msg \in Messages /\ call.copy \in Message
      /\ call.copy.retryCount < MaxCalls /\ InHand(k, call.msg)
  BY <1>1, DeliveringFields DEF sendViaProvider, DeliveryInv, CopyOK, InHand, Told
<1>3. PICK o \in Messages : o = call.msg
  BY <1>2
<1>4. handedOver[o] \in Nat /\ (o \notin doubled => handedOver[o] = 0) /\ InHand(k, o)
  BY <1>1, <1>2, <1>3 DEF DeliveryInv, Straight
<1>5. /\ delivering' = [delivering EXCEPT ![k] = Resting]
      /\ UNCHANGED <<template, queue, doubled>> /\ retries' \subseteq Messages
  BY <1>1, <1>2 DEF sendViaProvider, Deliver, DeliveryInv, DeliveryTypeOK
<1>6. PICK n \in DeliveringCalls : n = Resting /\ CopyOK(n) /\ n.pc = "resting"
  BY DeliveringCallsAre, Marks DEF CopyOK
<1>7. ASSUME NEW copy \in Message,
             NEW word \in {"pending", "processing", "sent", "failed", "delivered"}, NEW count \in Nat,
             copy.status = word, ~Eligible(word), o \notin doubled => count \in {0, 1},
             messages' = [messages EXCEPT ![o] = copy], news' = [news EXCEPT ![o] = word],
             handedOver' = [handedOver EXCEPT ![o] = count]
      PROVE  DeliveryInv'
  BY <1>4, <1>5, <1>6, <1>7, SavingMessageKeeps
<1>8. PICK sent \in Message : sent = [call.copy EXCEPT !.status = "sent"] /\ sent.status = "sent"
  BY <1>2, MessagesAre
<1>9. PICK failed \in Message : failed = Failed(call.copy) /\ failed.status = "failed"
  BY <1>2, FailedMessages
<1>10. CASE /\ messages' = [messages EXCEPT ![o] = sent]
            /\ handedOver' = [handedOver EXCEPT ![o] = handedOver[o] + 1]
            /\ news' = [news EXCEPT ![o] = "sent"]
  <2>1. PICK count \in Nat : count = handedOver[o] + 1
    BY <1>4
  <2>2. o \notin doubled => count \in {0, 1}
    BY <1>4, <2>1
  <2> QED
    BY <1>7, <1>8, <1>10, <2>1, <2>2 DEF Eligible
<1>11. CASE /\ messages' = [messages EXCEPT ![o] = failed] /\ UNCHANGED handedOver
            /\ news' = [news EXCEPT ![o] = "failed"]
  <2>1. PICK count \in Nat : count = handedOver[o]
    BY <1>4
  <2>2. handedOver' = [handedOver EXCEPT ![o] = count]
    BY <1>11, <2>1 DEF DeliveryInv
  <2> QED
    BY <1>4, <1>7, <1>9, <1>11, <2>1, <2>2 DEF Eligible
<1> QED
  BY <1>1, <1>3, <1>8, <1>9, <1>10, <1>11 DEF sendViaProvider

LEMMA SaveHeardKeeps ==
    ASSUME DeliveryInv, NEW k \in Clients, SaveHeard(k)
    PROVE  DeliveryInv'
<1>1. PICK call \in DeliveringCalls : call = delivering[k]
  BY DEF DeliveryInv
<1>2. /\ call.pc = "save" /\ Told(call) /\ call.msg \in Messages /\ call.copy \in Message
      /\ call.heard \in ProviderStatuses /\ InHand(k, call.msg)
  BY <1>1, DeliveringFields DEF SaveHeard, InHand, Told
<1>3. PICK o \in Messages : o = call.msg
  BY <1>2
<1>4. PICK copy \in Message : copy = call.copy
  BY <1>2
<1>5. PICK count \in Nat : count = handedOver[o]
  BY DEF DeliveryInv
<1>6. PICK word \in {"pending", "processing", "sent", "failed", "delivered"} :
          word = After(call.heard, news[o])
  BY <1>2 DEF After, DeliveryInv
<1>7. o \notin doubled =>
          /\ word = copy.status /\ count \in {0, 1}
          /\ count = 1 => ~Eligible(copy.status)
  BY <1>1, <1>2, <1>3, <1>4, <1>5, <1>6 DEF DeliveryInv, Straight
<1>8. PICK n \in DeliveringCalls : n = Resting /\ CopyOK(n) /\ n.pc = "resting"
  BY DeliveringCallsAre, Marks DEF CopyOK
<1>9. /\ messages' = [messages EXCEPT ![o] = copy]
      /\ news' = [news EXCEPT ![o] = word]
      /\ delivering' = [delivering EXCEPT ![k] = n]
      /\ handedOver' = [handedOver EXCEPT ![o] = count]
      /\ UNCHANGED <<template, queue, doubled>> /\ retries' \subseteq Messages
  BY <1>1, <1>2, <1>3, <1>4, <1>5, <1>6, <1>8 DEF SaveHeard, Deliver, After, DeliveryInv, DeliveryTypeOK
<1>10. InHand(k, o) /\ n.pc \notin {"call", "save"}
  BY <1>2, <1>3, <1>8
<1> QED
  BY <1>7, <1>8, <1>9, <1>10, SavingMessageKeeps

LEMMA DeliveryKept == DeliveryInv /\ [DeliveryNext]_DeliveryVars => DeliveryInv'
<1> SUFFICES ASSUME DeliveryInv, [DeliveryNext]_DeliveryVars PROVE DeliveryInv'
  OBVIOUS
<1>1. CASE UNCHANGED DeliveryVars
  BY <1>1 DEF DeliveryVars, DeliveryInv, DeliveryTypeOK, CopyOK, Straight, InHand
<1>2. CASE createTemplate \/ sendBulkNotifications
  BY <1>2, MessageSteps DEF createTemplate, sendBulkNotifications, DeliveryInv, DeliveryTypeOK
<1>3. ASSUME NEW r \in Recipients, NEW m \in Messages, sendNotification(m, r) PROVE DeliveryInv'
  BY <1>3, NewMessageKeeps DEF sendNotification
<1>4. ASSUME NEW r \in Recipients, BulkSends(r) PROVE DeliveryInv'
  <2>1. UNCHANGED <<template, retries, delivering, handedOver, news, doubled>>
    BY <1>4 DEF BulkSends
  <2>2. CASE \E m \in Messages : NewMessage(m, r)
    BY <2>1, <2>2, NewMessageKeeps
  <2>3. CASE UNCHANGED <<messages, queue>>
    BY <2>1, <2>3, MessageSteps DEF DeliveryInv, DeliveryTypeOK
  <2> QED
    BY <1>4, <2>2, <2>3 DEF BulkSends
<1>5. ASSUME NEW m \in Messages, RetryExpires(m) \/ MessageExpires(m) PROVE DeliveryInv'
  <2>1. DeliveryTypeOK'
    BY <1>5 DEF RetryExpires, MessageExpires, DeliveryInv, DeliveryTypeOK
  <2> QED
    BY <1>5, <2>1, MessageSteps DEF RetryExpires, MessageExpires, DeliveryInv, DeliveryTypeOK
<1>6. ASSUME NEW k \in Clients, NEW m \in Messages, delivering[k] = Resting, processDelivery(k, m)
      PROVE  DeliveryInv'
  <2>1. PICK copy \in Message : copy = [messages[m] EXCEPT !.status = "processing"]
            /\ copy.status = "processing" /\ copy.retryCount < MaxCalls
    BY <1>6, MessagesAre DEF processDelivery
  <2>2. PICK n \in DeliveringCalls : n = [pc |-> "call", msg |-> m, copy |-> copy] /\ ~Told(n)
    BY DeliveringCallsAre
  <2>3. CopyOK(n) /\ n.pc = "call" /\ n.msg = m
    BY <2>1, <2>2 DEF CopyOK
  <2> QED
    BY <1>6, <2>1, <2>2, <2>3, TakingUpKeeps DEF processDelivery, Deliver
<1>7. ASSUME NEW k \in Clients, NEW m \in Messages, delivering[k] = Resting,
             NEW status \in {"delivered", "bounced", "opened"}, handleDeliveryWebhook(k, m, status)
      PROVE  DeliveryInv'
  <2>1. PICK heard \in ProviderStatuses : heard = mapProviderStatus(status)
    BY DEF mapProviderStatus, ProviderStatuses
  <2>2. PICK was \in Message : was = messages[m]
    BY <1>7 DEF handleDeliveryWebhook
  <2>3. After(heard, was.status) \in {"pending", "processing", "sent", "failed", "delivered"}
    BY MessagesAre DEF After
  <2>4. PICK found \in {"pending", "processing", "sent", "failed", "delivered"} : found = After(heard, was.status)
    BY <2>3
  <2>9. [was EXCEPT !.status = found] \in Message /\ [was EXCEPT !.status = found].status = found
    BY DEF Message
  <2>10. PICK copy \in Message : copy = [was EXCEPT !.status = found] /\ copy.status = found
    BY <2>9
  <2>5. PICK n \in DeliveringCalls : n = [pc |-> "save", msg |-> m, heard |-> heard, copy |-> copy] /\ Told(n)
    BY DeliveringCallsAre
  <2>6. CopyOK(n) /\ n.pc = "save" /\ n.msg = m /\ n.copy = copy /\ n.heard = heard
    BY <2>5 DEF CopyOK
  <2>7. delivering' = [delivering EXCEPT ![k] = n]
    BY <1>7, <2>1, <2>2, <2>4, <2>5, <2>10 DEF handleDeliveryWebhook, Deliver, After
  <2> QED
    BY <1>7, <2>2, <2>4, <2>5, <2>6, <2>7, <2>10, TakingUpKeeps DEF handleDeliveryWebhook
<1> QED
  BY <1>1, <1>2, <1>3, <1>4, <1>5, <1>6, <1>7, SaveProcessingKeeps, SendViaProviderKeeps, SaveHeardKeeps
  DEF DeliveryNext

LEMMA DeliveryShows == DeliveryInv => HandedOverOnce /\ NewsLostOnlyByOverlap
<1> SUFFICES ASSUME DeliveryInv PROVE HandedOverOnce /\ NewsLostOnlyByOverlap
  OBVIOUS
<1>1. ASSUME NEW m \in Messages, handedOver[m] > 1 PROVE m \in doubled
  BY <1>1 DEF DeliveryInv, Straight
<1> QED
  BY <1>1 DEF HandedOverOnce, NewsLostOnlyByOverlap, DeliveryInv, Straight
-----------------------------------------------------------------------------
\* Onboarding: what an application states.

\* The part of a document the properties tell apart: its flags, its bank account, its papers.
Papers == [number : Numbers, verified : BOOLEAN]
FactNames == Numbers \union {"personal", "business", "addresses", "checked", "reviewed",
                             "bank", "verified", "identified"}
Statuses == {"draft", "submitted", "under_review", "approved", "rejected"}

FlagsOf(app) == {f \in {"personal", "business", "addresses", "checked", "reviewed"} : app[f]}
BankOf(app) == IF app.bank = "none" THEN {} ELSE {"bank", app.bank} \ {"pending"}
NumbersOf(papers) == {papers[i].number : i \in 1 .. Len(papers)}
IdentityOf(papers) == IF \E i \in 1 .. Len(papers) : papers[i].verified THEN {"identified"} ELSE {}

LEMMA FactsAre ==
    \A app : Facts(app) = FlagsOf(app) \union BankOf(app) \union NumbersOf(app.identity)
                          \union IdentityOf(app.identity)
  BY DEF Facts, FlagsOf, BankOf, NumbersOf, IdentityOf

LEMMA FlagsAre ==
    ASSUME NEW app \in Application
    PROVE  FlagsOf(app) = (IF app.personal THEN {"personal"} ELSE {})
                          \union (IF app.business THEN {"business"} ELSE {})
                          \union (IF app.addresses THEN {"addresses"} ELSE {})
                          \union (IF app.checked THEN {"checked"} ELSE {})
                          \union (IF app.reviewed THEN {"reviewed"} ELSE {})
  BY DEF FlagsOf

\* A copy with a flag set, and otherwise the flags it was read with.
LEMMA SettingAFlag ==
    ASSUME NEW app \in Application, NEW copy \in Application,
           copy.bank = app.bank, copy.identity = app.identity,
           NEW fact \in {"personal", "business", "addresses", "checked", "reviewed"}, copy[fact] = TRUE,
           \A f \in {"personal", "business", "addresses", "checked", "reviewed"} \ {fact} : copy[f] = app[f]
    PROVE  Facts(copy) = Facts(app) \union {fact}
<1>1. FlagsOf(copy) = FlagsOf(app) \union {fact}
  BY DEF FlagsOf
<1>2. BankOf(copy) = BankOf(app)
  BY DEF BankOf
<1> QED
  BY <1>1, <1>2, FactsAre

LEMMA SameFlags ==
    ASSUME NEW app \in Application, NEW copy \in Application,
           copy.personal = app.personal, copy.business = app.business, copy.addresses = app.addresses,
           copy.checked = app.checked, copy.reviewed = app.reviewed
    PROVE  FlagsOf(copy) = FlagsOf(app)
<1>1. \A f \in {"personal", "business", "addresses", "checked", "reviewed"} : copy[f] = app[f]
  OBVIOUS
<1> QED
  BY <1>1 DEF FlagsOf

LEMMA OpeningABank ==
    ASSUME NEW app \in Application
    PROVE  LET copy == [app EXCEPT !.bank = IF @ = "none" THEN "pending" ELSE @]
           IN  /\ copy \in Application /\ Facts(copy) = Facts(app) \union {"bank"}
               /\ copy.status = app.status /\ copy.identity = app.identity
<1>1. PICK copy : copy = [app EXCEPT !.bank = IF @ = "none" THEN "pending" ELSE @]
  OBVIOUS
<1>2. copy \in Application
  BY <1>1 DEF Application
<1>3. /\ copy.personal = app.personal /\ copy.business = app.business /\ copy.addresses = app.addresses
      /\ copy.checked = app.checked /\ copy.reviewed = app.reviewed /\ copy.identity = app.identity
      /\ copy.bank = IF app.bank = "none" THEN "pending" ELSE app.bank
      /\ copy.status = app.status
  BY <1>1 DEF Application
<1>4. FlagsOf(copy) = FlagsOf(app)
  BY <1>2, <1>3, SameFlags
<1>5. BankOf(copy) = BankOf(app) \union {"bank"}
  BY <1>3 DEF BankOf, Application
<1>6. Facts(copy) = Facts(app) \union {"bank"}
  BY <1>3, <1>4, <1>5, FactsAre
<1> QED
  BY <1>1, <1>2, <1>3, <1>6

LEMMA VerifyingABank ==
    ASSUME NEW app \in Application, app.bank # "none"
    PROVE  LET copy == [app EXCEPT !.bank = "verified"]
           IN  /\ copy \in Application /\ Facts(copy) = Facts(app) \union {"verified"}
               /\ copy.status = app.status /\ copy.identity = app.identity
<1>1. PICK copy : copy = [app EXCEPT !.bank = "verified"]
  OBVIOUS
<1>2. copy \in Application
  BY <1>1 DEF Application
<1>3. /\ copy.personal = app.personal /\ copy.business = app.business /\ copy.addresses = app.addresses
      /\ copy.checked = app.checked /\ copy.reviewed = app.reviewed /\ copy.identity = app.identity
      /\ copy.bank = "verified" /\ copy.status = app.status
  BY <1>1 DEF Application
<1>4. FlagsOf(copy) = FlagsOf(app)
  BY <1>2, <1>3, SameFlags
<1>5. BankOf(copy) = BankOf(app) \union {"verified"}
  BY <1>3 DEF BankOf, Application
<1>6. Facts(copy) = Facts(app) \union {"verified"}
  BY <1>3, <1>4, <1>5, FactsAre
<1> QED
  BY <1>1, <1>2, <1>3, <1>6

LEMMA AddingAPaper ==
    ASSUME NEW app \in Application, NEW number \in Numbers
    PROVE  LET paper == [number |-> number, verified |-> FALSE]
               copy == [app EXCEPT !.identity = Append(@, paper)]
           IN  /\ copy \in Application /\ Facts(copy) = Facts(app) \union {number}
               /\ copy.status = app.status /\ copy.identity # <<>>
               /\ app.identity # <<>> => copy.identity[1] = app.identity[1]
<1>1. PICK paper \in Papers : paper = [number |-> number, verified |-> FALSE]
  BY DEF Papers
<1>2. PICK papers \in Seq(Papers) : papers = app.identity
  BY DEF Application, Papers
<1>3. PICK more \in Seq(Papers) : more = Append(papers, paper)
  BY <1>2, AppendProperties
<1>4. PICK copy : copy = [app EXCEPT !.identity = more]
  OBVIOUS
<1>5. copy = [app EXCEPT !.identity = Append(@, paper)]
  BY <1>2, <1>3, <1>4 DEF Application
<1>6. copy \in Application
  BY <1>4 DEF Application, Papers
<1>7. /\ copy.personal = app.personal /\ copy.business = app.business /\ copy.addresses = app.addresses
      /\ copy.checked = app.checked /\ copy.reviewed = app.reviewed /\ copy.identity = more
      /\ copy.bank = app.bank /\ copy.status = app.status
  BY <1>4 DEF Application
<1>8. FlagsOf(copy) = FlagsOf(app)
  BY <1>6, <1>7, SameFlags
<1>9. BankOf(copy) = BankOf(app)
  BY <1>7 DEF BankOf
<1>10. Len(papers) \in Nat /\ Len(more) = Len(papers) + 1 /\ more[Len(papers) + 1] = paper
       /\ \A i \in 1 .. Len(papers) : more[i] = papers[i]
  BY <1>2, <1>3, AppendProperties, LenProperties
<1>11. NumbersOf(more) = NumbersOf(papers) \union {number}
  BY <1>1, <1>10 DEF NumbersOf
<1>12. IdentityOf(more) = IdentityOf(papers)
  BY <1>1, <1>10 DEF IdentityOf
<1>13. Facts(copy) = Facts(app) \union {number}
  BY <1>2, <1>7, <1>8, <1>9, <1>11, <1>12, FactsAre
<1>14. more # <<>> /\ (papers # <<>> => more[1] = papers[1])
  BY <1>2, <1>3, <1>10, EmptySeq, LenProperties
<1> QED
  BY <1>1, <1>2, <1>5, <1>6, <1>7, <1>13, <1>14

LEMMA VerifyingAPaper ==
    ASSUME NEW app \in Application, NEW number \in Numbers,
           \E i \in 1 .. Len(app.identity) : app.identity[i].number = number
    PROVE  LET copy == WithVerified(app, number)
           IN  /\ copy \in Application /\ Facts(copy) = Facts(app) \union {"identified"}
               /\ copy.status = app.status /\ copy.identity # <<>> /\ app.identity # <<>>
               /\ app.identity[1].verified => copy.identity[1].verified
               /\ copy = [app EXCEPT !.identity = copy.identity]
<1>1. PICK papers \in Seq(Papers) : papers = app.identity
  BY DEF Application, Papers
<1>2. Len(papers) \in Nat /\ papers \in [1 .. Len(papers) -> Papers]
  BY <1>1, LenProperties
<1>3. PICK found : found = {i \in 1 .. Len(papers) : papers[i].number = number}
  OBVIOUS
<1>4. found \subseteq Nat /\ found # {} /\ found \subseteq 1 .. Len(papers)
  BY <1>1, <1>2, <1>3
<1>5. PICK first : first = CHOOSE i \in found : \A j \in found : i <= j
  OBVIOUS
<1>6. first \in found
  BY <1>4, <1>5, LeastOf
<1>7. first \in 1 .. Len(papers) /\ papers[first].number = number
  BY <1>3, <1>6
<1>8. PICK paper \in Papers : paper = [papers[first] EXCEPT !.verified = TRUE]
                              /\ paper.number = number /\ paper.verified
  <2>1. PICK was \in Papers : was = papers[first] /\ was.number = number
    BY <1>2, <1>7
  <2>2. [was EXCEPT !.verified = TRUE] \in Papers
    BY DEF Papers
  <2>3. [was EXCEPT !.verified = TRUE].number = number /\ [was EXCEPT !.verified = TRUE].verified
    BY <2>1 DEF Papers
  <2> QED
    BY <2>1, <2>2, <2>3
<1>9. PICK more \in Seq(Papers) : /\ more = [papers EXCEPT ![first] = paper] /\ Len(more) = Len(papers)
                                  /\ more[first] = paper
                                  /\ \A i \in 1 .. Len(papers) : i # first => more[i] = papers[i]
  <2>1. PICK more : more = [papers EXCEPT ![first] = paper]
    OBVIOUS
  <2>2. more \in Seq(Papers) /\ Len(more) = Len(papers)
    BY <1>7, <2>1, ExceptSeq
  <2>3. \A j \in 1 .. Len(papers) : more[j] = IF j = first THEN paper ELSE papers[j]
    BY <1>7, <2>1, ExceptSeq
  <2> QED
    BY <1>7, <2>1, <2>2, <2>3
<1>10. PICK copy : copy = [app EXCEPT !.identity = more]
  OBVIOUS
<1>11. copy = WithVerified(app, number)
  <2>1. WithVerified(app, number) = [app EXCEPT !.identity[first].verified = TRUE]
    BY <1>1, <1>3, <1>5 DEF WithVerified
  <2>2. [app EXCEPT !.identity[first].verified = TRUE]
        = [app EXCEPT !.identity = [app.identity EXCEPT ![first] = [app.identity[first] EXCEPT !.verified = TRUE]]]
    BY <1>1, <1>7 DEF Application
  <2> QED
    BY <1>1, <1>8, <1>9, <1>10, <2>1, <2>2
<1>12. copy \in Application
  BY <1>10 DEF Application, Papers
<1>13. /\ copy.personal = app.personal /\ copy.business = app.business /\ copy.addresses = app.addresses
      /\ copy.checked = app.checked /\ copy.reviewed = app.reviewed /\ copy.identity = more
      /\ copy.bank = app.bank /\ copy.status = app.status
  BY <1>10 DEF Application
<1>14. FlagsOf(copy) = FlagsOf(app)
  BY <1>12, <1>13, SameFlags
<1>15. BankOf(copy) = BankOf(app)
  BY <1>13 DEF BankOf
<1>16. \A i \in 1 .. Len(papers) : more[i].number = papers[i].number
  BY <1>7, <1>8, <1>9
<1>17. NumbersOf(more) = NumbersOf(papers)
  BY <1>9, <1>16 DEF NumbersOf
<1>18. IdentityOf(more) = {"identified"}
  BY <1>7, <1>8, <1>9 DEF IdentityOf
<1>19. IdentityOf(papers) \subseteq {"identified"}
  BY DEF IdentityOf
<1>20. Facts(copy) = Facts(app) \union {"identified"}
  BY <1>1, <1>13, <1>14, <1>15, <1>17, <1>18, <1>19, FactsAre
<1>21. more # <<>> /\ papers # <<>>
  BY <1>2, <1>7, <1>9, EmptySeq
<1>22. papers[1].verified => more[1].verified
  <2>1. CASE first = 1
    BY <1>8, <1>9, <2>1
  <2>2. CASE first # 1
    BY <1>2, <1>7, <1>9, <2>2
  <2> QED
    BY <2>1, <2>2
<1> QED
  BY <1>1, <1>10, <1>11, <1>12, <1>13, <1>20, <1>21, <1>22

\* The copies an edit makes keep what an approval without a reviewer rests on.
Earned(app) ==
    app.status = "approved" /\ ~app.reviewed =>
        /\ Complete(app) /\ app.checked /\ app.identity[1].verified
        /\ app.type = "individual" /\ app.level = "tier_1"

LEMMA FirstSteps ==
    \A app \in Application : app.step = "personal_info" => NextStep(app) = "identity_verification"
<1> SUFFICES ASSUME NEW app \in Application, app.step = "personal_info"
             PROVE  NextStep(app) = "identity_verification"
  OBVIOUS
<1>1. PICK steps : steps = Workflow(app.type, app.level).steps
  OBVIOUS
<1>2. /\ Len(steps) \in Nat /\ Len(steps) > 2 /\ steps[1] = "personal_info" /\ steps[2] = "identity_verification"
      /\ \A i \in 2 .. Len(steps) : steps[i] # "personal_info"
  <2>1. CASE app.type = "individual" /\ app.level = "tier_1"
    BY <1>1, <2>1 DEF Workflow
  <2>2. CASE ~(app.type = "individual" /\ app.level = "tier_1")
    <3>1. steps = DefaultWorkflow(app.type)
      BY <1>1, <2>2 DEF Workflow
    <3>2. CASE app.type = "business"
      BY <3>1, <3>2 DEF DefaultWorkflow
    <3>3. CASE app.type # "business"
      BY <3>1, <3>3 DEF DefaultWorkflow
    <3> QED
      BY <3>2, <3>3
  <2> QED
    BY <2>1, <2>2
<1>3. {i \in 1 .. Len(steps) - 1 : steps[i] = "personal_info"} = {1}
  BY <1>2
<1>4. (CHOOSE i \in {1} : TRUE) = 1
  OBVIOUS
<1> QED
  BY <1>1, <1>2, <1>3, <1>4 DEF NextStep

LEMMA NewApplications ==
    ASSUME NEW type \in {"individual", "business"}, NEW level \in {"tier_1", "tier_2", "tier_3"}
    PROVE  LET new == NewApplication(type, level)
           IN  new \in Application /\ Facts(new) = {} /\ new.status = "draft"
<1>1. PICK new : new = NewApplication(type, level)
  OBVIOUS
<1>2. Workflow(type, level).steps[1] = "personal_info"
  BY DEF Workflow, DefaultWorkflow
<1>3. new = [type |-> type, level |-> level, status |-> "draft", step |-> "personal_info",
     personal |-> FALSE, business |-> FALSE, addresses |-> FALSE, identity |-> <<>>,
     bank |-> "none", checked |-> FALSE, reviewed |-> FALSE]
  BY <1>1, <1>2 DEF NewApplication
<1>4. new \in Application
  BY <1>3 DEF Application
<1>5. FlagsOf(new) = {} /\ BankOf(new) = {} /\ new.identity = <<>>
  BY <1>3 DEF FlagsOf, BankOf
<1>6. NumbersOf(<<>>) = {} /\ IdentityOf(<<>>) = {}
  BY DEF NumbersOf, IdentityOf
<1>7. Facts(new) = FlagsOf(new) \union BankOf(new) \union NumbersOf(<<>>) \union IdentityOf(<<>>)
  BY <1>5, FactsAre
<1>8. Facts(new) = {} /\ new.status = "draft"
  BY <1>3, <1>5, <1>6, <1>7
<1> QED
  BY <1>1, <1>4, <1>8

\* A copy made of an application states a fact more and says what it is now.
Edited(app, copy, change) ==
    /\ copy \in Application /\ Facts(copy) = Facts(app) \union change.fact
    /\ copy.status = IF change.status = "same" THEN app.status ELSE change.status
    /\ Earned(app) => Earned(copy)

LEMMA PersonalInfo ==
    ASSUME NEW app \in Application
    PROVE  Edited(app, [app EXCEPT !.personal = TRUE,
                                   !.step = IF @ = "personal_info" THEN NextStep(app) ELSE @], Fact("personal"))
<1>1. PICK step \in {"personal_info", "identity_verification", "compliance_checks", "review", "completed"} :
          step = IF app.step = "personal_info" THEN NextStep(app) ELSE app.step
  BY FirstSteps DEF Application
<1>2. PICK copy : copy = [app EXCEPT !.personal = TRUE, !.step = step]
  OBVIOUS
<1>3. copy = [app EXCEPT !.personal = TRUE, !.step = IF @ = "personal_info" THEN NextStep(app) ELSE @]
  BY <1>1, <1>2 DEF Application
<1>4. copy \in Application
  BY <1>2 DEF Application
<1>5. /\ copy.personal = TRUE /\ copy.business = app.business /\ copy.addresses = app.addresses
      /\ copy.checked = app.checked /\ copy.reviewed = app.reviewed /\ copy.identity = app.identity
      /\ copy.bank = app.bank /\ copy.status = app.status /\ copy.type = app.type /\ copy.level = app.level
  BY <1>2 DEF Application
<1>6. Facts(copy) = Facts(app) \union {"personal"}
  <2>1. copy["personal"] = TRUE
    BY <1>5
  <2>2. \A f \in {"personal", "business", "addresses", "checked", "reviewed"} \ {"personal"} : copy[f] = app[f]
    BY <1>5
  <2> QED
    BY <1>4, <1>5, <2>1, <2>2, SettingAFlag
<1> QED
  BY <1>3, <1>4, <1>5, <1>6 DEF Edited, Fact, Earned, Complete

LEMMA BusinessInfo ==
    ASSUME NEW app \in Application
    PROVE  Edited(app, [app EXCEPT !.business = TRUE,
                                   !.step = IF @ = "business_info" THEN NextStep(app) ELSE @], Fact("business"))
<1>1. PICK copy : copy = [app EXCEPT !.business = TRUE]
  OBVIOUS
<1>2. app.step # "business_info"
  BY DEF Application
<1>3. copy = [app EXCEPT !.business = TRUE, !.step = IF @ = "business_info" THEN NextStep(app) ELSE @]
  BY <1>1, <1>2 DEF Application
<1>4. copy \in Application
  BY <1>1 DEF Application
<1>5. /\ copy.personal = app.personal /\ copy.business = TRUE /\ copy.addresses = app.addresses
      /\ copy.checked = app.checked /\ copy.reviewed = app.reviewed /\ copy.identity = app.identity
      /\ copy.bank = app.bank /\ copy.status = app.status /\ copy.type = app.type /\ copy.level = app.level
  BY <1>1 DEF Application
<1>6. Facts(copy) = Facts(app) \union {"business"}
  <2>1. copy["business"] = TRUE
    BY <1>5
  <2>2. \A f \in {"personal", "business", "addresses", "checked", "reviewed"} \ {"business"} : copy[f] = app[f]
    BY <1>5
  <2> QED
    BY <1>4, <1>5, <2>1, <2>2, SettingAFlag
<1> QED
  BY <1>3, <1>4, <1>5, <1>6 DEF Edited, Fact, Earned, Complete

LEMMA Addresses ==
    ASSUME NEW app \in Application
    PROVE  Edited(app, [app EXCEPT !.addresses = TRUE], Fact("addresses"))
<1>1. PICK copy : copy = [app EXCEPT !.addresses = TRUE]
  OBVIOUS
<1>2. copy \in Application
  BY <1>1 DEF Application
<1>3. /\ copy.personal = app.personal /\ copy.business = app.business /\ copy.addresses = TRUE
      /\ copy.checked = app.checked /\ copy.reviewed = app.reviewed /\ copy.identity = app.identity
      /\ copy.bank = app.bank /\ copy.status = app.status /\ copy.type = app.type /\ copy.level = app.level
  BY <1>1 DEF Application
<1>4. Facts(copy) = Facts(app) \union {"addresses"}
  <2>1. \A f \in {"personal", "business", "addresses", "checked", "reviewed"} \ {"addresses"} : copy[f] = app[f]
    BY <1>3
  <2> QED
    BY <1>2, <1>3, <2>1, SettingAFlag
<1> QED
  BY <1>1, <1>2, <1>3, <1>4 DEF Edited, Fact, Earned, Complete

LEMMA Approvals ==
    ASSUME NEW app \in Application
    PROVE  Edited(app, [app EXCEPT !.status = "approved", !.step = "completed", !.reviewed = TRUE],
                  Becomes("approved", {"reviewed"}))
<1>1. PICK copy : copy = [app EXCEPT !.status = "approved", !.step = "completed", !.reviewed = TRUE]
  OBVIOUS
<1>2. copy \in Application /\ copy.status = "approved" /\ copy.reviewed
  BY <1>1 DEF Application
<1>3. /\ copy.personal = app.personal /\ copy.business = app.business /\ copy.addresses = app.addresses
      /\ copy.checked = app.checked /\ copy.reviewed = TRUE /\ copy.identity = app.identity
      /\ copy.bank = app.bank
  BY <1>1 DEF Application
<1>4. Facts(copy) = Facts(app) \union {"reviewed"}
  BY <1>2, <1>3, SettingAFlag
<1> QED
  BY <1>1, <1>2, <1>4 DEF Edited, Becomes, Earned

LEMMA Rejections ==
    ASSUME NEW app \in Application
    PROVE  Edited(app, [app EXCEPT !.status = "rejected", !.reviewed = TRUE],
                  Becomes("rejected", {"reviewed"}))
<1>1. PICK copy : copy = [app EXCEPT !.status = "rejected", !.reviewed = TRUE]
  OBVIOUS
<1>2. copy \in Application /\ copy.status = "rejected" /\ copy.reviewed
  BY <1>1 DEF Application
<1>3. /\ copy.personal = app.personal /\ copy.business = app.business /\ copy.addresses = app.addresses
      /\ copy.checked = app.checked /\ copy.reviewed = TRUE /\ copy.identity = app.identity
      /\ copy.bank = app.bank
  BY <1>1 DEF Application
<1>4. Facts(copy) = Facts(app) \union {"reviewed"}
  BY <1>2, <1>3, SettingAFlag
<1> QED
  BY <1>1, <1>2, <1>4 DEF Edited, Becomes, Earned

LEMMA SubmittedCopies ==
    ASSUME NEW app \in Application, Complete(app)
    PROVE  LET copy == [app EXCEPT !.status = "submitted", !.step = "compliance_checks"]
           IN  Edited(app, copy, Becomes("submitted", {})) /\ Complete(copy)
<1>1. PICK copy : copy = [app EXCEPT !.status = "submitted", !.step = "compliance_checks"]
  OBVIOUS
<1>2. copy \in Application /\ copy.status = "submitted"
  BY <1>1 DEF Application
<1>3. /\ copy.personal = app.personal /\ copy.business = app.business /\ copy.addresses = app.addresses
      /\ copy.checked = app.checked /\ copy.reviewed = app.reviewed /\ copy.identity = app.identity
      /\ copy.bank = app.bank /\ copy.type = app.type
  BY <1>1 DEF Application
<1>4. FlagsOf(copy) = FlagsOf(app) /\ BankOf(copy) = BankOf(app)
  BY <1>2, <1>3, SameFlags DEF BankOf
<1>5. Facts(copy) = Facts(app)
  BY <1>3, <1>4, FactsAre
<1>6. Edited(app, copy, Becomes("submitted", {}))
  BY <1>2, <1>5 DEF Edited, Becomes, Earned
<1>7. Complete(copy)
  BY <1>3 DEF Complete
<1> QED
  BY <1>1, <1>6, <1>7

LEMMA AddedPapers ==
    ASSUME NEW app \in Application, NEW number \in Numbers
    PROVE  Edited(app, [app EXCEPT !.identity = Append(@, [number |-> number, verified |-> FALSE])], Fact(number))
<1>1. PICK papers : papers = Append(app.identity, [number |-> number, verified |-> FALSE])
  OBVIOUS
<1>2. PICK copy : copy = [app EXCEPT !.identity = papers]
  OBVIOUS
<1>3. copy = [app EXCEPT !.identity = Append(@, [number |-> number, verified |-> FALSE])]
  BY <1>1, <1>2 DEF Application
<1>4. /\ copy \in Application /\ Facts(copy) = Facts(app) \union {number}
      /\ copy.status = app.status /\ copy.identity # <<>>
      /\ app.identity # <<>> => copy.identity[1] = app.identity[1]
  BY <1>3, AddingAPaper
<1>5. /\ copy.personal = app.personal /\ copy.business = app.business /\ copy.addresses = app.addresses
      /\ copy.checked = app.checked /\ copy.reviewed = app.reviewed
      /\ copy.bank = app.bank /\ copy.type = app.type /\ copy.level = app.level
  BY <1>2 DEF Application
<1> QED
  BY <1>3, <1>4, <1>5 DEF Edited, Fact, Earned, Complete

LEMMA VerifiedPapers ==
    ASSUME NEW app \in Application, NEW number \in Numbers,
           \E i \in 1 .. Len(app.identity) : app.identity[i].number = number
    PROVE  Edited(app, WithVerified(app, number), Fact("identified"))
<1>1. PICK copy : copy = WithVerified(app, number)
  OBVIOUS
<1>2. /\ copy \in Application /\ Facts(copy) = Facts(app) \union {"identified"}
      /\ copy.status = app.status /\ copy.identity # <<>> /\ app.identity # <<>>
      /\ app.identity[1].verified => copy.identity[1].verified
      /\ copy = [app EXCEPT !.identity = copy.identity]
  BY <1>1, VerifyingAPaper
<1>3. /\ copy.personal = app.personal /\ copy.business = app.business /\ copy.addresses = app.addresses
      /\ copy.checked = app.checked /\ copy.reviewed = app.reviewed
      /\ copy.bank = app.bank /\ copy.type = app.type /\ copy.level = app.level
  BY <1>2 DEF Application
<1> QED
  BY <1>1, <1>2, <1>3 DEF Edited, Fact, Earned, Complete

LEMMA Banks ==
    ASSUME NEW app \in Application
    PROVE  /\ Edited(app, [app EXCEPT !.bank = IF @ = "none" THEN "pending" ELSE @], Fact("bank"))
           /\ app.bank # "none" => Edited(app, [app EXCEPT !.bank = "verified"], Fact("verified"))
<1>1. PICK copy : copy = [app EXCEPT !.bank = IF @ = "none" THEN "pending" ELSE @]
  OBVIOUS
<1>2. copy \in Application /\ Facts(copy) = Facts(app) \union {"bank"} /\ copy.status = app.status
      /\ copy.identity = app.identity
  BY <1>1, OpeningABank
<1>3. /\ copy.personal = app.personal /\ copy.business = app.business /\ copy.addresses = app.addresses
      /\ copy.checked = app.checked /\ copy.reviewed = app.reviewed
      /\ copy.bank # "none" /\ copy.type = app.type /\ copy.level = app.level
  BY <1>1 DEF Application
<1>4. Edited(app, copy, Fact("bank"))
  BY <1>2, <1>3 DEF Edited, Fact, Earned, Complete
<1>5. ASSUME app.bank # "none" PROVE Edited(app, [app EXCEPT !.bank = "verified"], Fact("verified"))
  <2>1. PICK seen : seen = [app EXCEPT !.bank = "verified"]
    OBVIOUS
  <2>2. seen \in Application /\ Facts(seen) = Facts(app) \union {"verified"} /\ seen.status = app.status
        /\ seen.identity = app.identity
    BY <1>5, <2>1, VerifyingABank
  <2>3. /\ seen.personal = app.personal /\ seen.business = app.business /\ seen.addresses = app.addresses
        /\ seen.checked = app.checked /\ seen.reviewed = app.reviewed
        /\ seen.bank # "none" /\ seen.type = app.type /\ seen.level = app.level
    BY <2>1 DEF Application
  <2> QED
    BY <2>1, <2>2, <2>3 DEF Edited, Fact, Earned, Complete
<1> QED
  BY <1>1, <1>4, <1>5

\* The compliance checks approve a complete application whose first paper is verified.
LEMMA Checks ==
    ASSUME NEW app \in Application, Complete(app)
    PROVE  LET checked == Checked(app) IN
           /\ checked \in Application /\ Facts(checked) = Facts(app) \union {"checked"}
           /\ checked.status \in {"approved", "under_review"} /\ Earned(checked)
<1>1. PICK reviewing : reviewing = [app EXCEPT !.checked = TRUE, !.status = "under_review", !.step = "review"]
  OBVIOUS
<1>2. reviewing \in Application /\ reviewing.status = "under_review"
  BY <1>1 DEF Application
<1>3. /\ reviewing.personal = app.personal /\ reviewing.business = app.business
      /\ reviewing.addresses = app.addresses /\ reviewing.checked = TRUE
      /\ reviewing.reviewed = app.reviewed /\ reviewing.identity = app.identity
      /\ reviewing.bank = app.bank /\ reviewing.type = app.type /\ reviewing.level = app.level
  BY <1>1 DEF Application
<1>4. Facts(reviewing) = Facts(app) \union {"checked"}
  <2>1. \A f \in {"personal", "business", "addresses", "checked", "reviewed"} \ {"checked"} :
            reviewing[f] = app[f]
    BY <1>3
  <2> QED
    BY <1>2, <1>3, <2>1, SettingAFlag
<1>5. CASE ~AutoApproves(reviewing)
  BY <1>1, <1>2, <1>4, <1>5 DEF Checked, Earned
<1>6. CASE AutoApproves(reviewing)
  <2>1. PICK approved : approved = [reviewing EXCEPT !.status = "approved", !.step = "completed"]
    OBVIOUS
  <2>2. approved \in Application /\ approved.status = "approved"
    BY <1>2, <2>1 DEF Application
  <2>3. /\ approved.personal = app.personal /\ approved.business = app.business
        /\ approved.addresses = app.addresses /\ approved.checked = TRUE
        /\ approved.reviewed = app.reviewed /\ approved.identity = app.identity
        /\ approved.bank = app.bank /\ approved.type = app.type /\ approved.level = app.level
    BY <1>2, <1>3, <2>1 DEF Application
  <2>4. Facts(approved) = Facts(app) \union {"checked"}
    <3>1. \A f \in {"personal", "business", "addresses", "checked", "reviewed"} \ {"checked"} :
              approved[f] = app[f]
      BY <2>3
    <3> QED
      BY <2>2, <2>3, <3>1, SettingAFlag
  <2>5. Workflow(app.type, app.level).autoApproval /\ app.identity[1].verified
    BY <1>3, <1>6 DEF AutoApproves
  <2>6. app.type = "individual" /\ app.level = "tier_1"
    BY <2>5 DEF Workflow
  <2>7. Earned(approved)
    BY <2>3, <2>5, <2>6 DEF Earned, Complete
  <2> QED
    BY <1>1, <1>6, <2>1, <2>2, <2>4, <2>7 DEF Checked
<1> QED
  BY <1>5, <1>6

Thens == {Resting} \union [pc : {"verifyIdentity"}, app : Applications, number : Numbers]
         \union [pc : {"verifyBank"}, app : Applications]
Changes == [fact : SUBSET FactNames, status : Statuses \union {"same"}]
ApplyingCalls ==
    Thens \union [pc : {"save"}, app : Applications, copy : Application, change : Changes,
                  then : Thens \union {[pc |-> "checks"]}]

\* What a copy that is to be saved makes of an application that requests never held at once.
Proposed(k, a) ==
    /\ Facts(applying[k].copy) = intended[a].facts \union applying[k].change.fact
    /\ applying[k].copy.status =
           IF applying[k].change.status = "same" THEN intended[a].status ELSE applying[k].change.status
Undisputed(a) ==
    a \notin contested =>
        /\ Known(a) => Facts(applications[a]) = intended[a].facts /\ applications[a].status = intended[a].status
        /\ \A k \in Clients : HasCopy(k, a) => Proposed(k, a)
        /\ \A k, j \in Clients : HasCopy(k, a) /\ HasCopy(j, a) => k = j

OnboardingInv ==
    /\ applications \in [Applications -> Application \union {Unused, Expired}]
    /\ contested \subseteq Applications
    /\ applying \in [Clients -> ApplyingCalls]
    /\ intended \in [Applications -> [facts : SUBSET FactNames, status : Statuses]]
    /\ \A a \in Applications : Known(a) => Earned(applications[a])
    /\ \A a \in Applications : applications[a] = Unused => intended[a] = Nothing
    /\ \A k \in Clients : applying[k].pc = "save" =>
           /\ Earned(applying[k].copy) /\ applications[applying[k].app] # Unused
           /\ applying[k].then.pc = "checks" => Complete(applying[k].copy)
    /\ \A a \in Applications : Undisputed(a)

LEMMA ApplyingFields ==
    ASSUME NEW call \in ApplyingCalls
    PROVE  /\ call.pc \in {"resting", "verifyIdentity", "verifyBank", "save"}
           /\ call.pc = "verifyIdentity" => call.app \in Applications /\ call.number \in Numbers
           /\ call.pc = "verifyBank" => call.app \in Applications
           /\ call.pc = "save" => /\ call.app \in Applications /\ call.copy \in Application
                                  /\ call.change.fact \in SUBSET FactNames
                                  /\ call.change.status \in Statuses \union {"same"}
                                  /\ call.then \in Thens \union {[pc |-> "checks"]}
<1>1. CASE call = Resting
  BY <1>1, Marks
<1>2. CASE call \in [pc : {"verifyIdentity"}, app : Applications, number : Numbers]
  BY <1>2
<1>3. CASE call \in [pc : {"verifyBank"}, app : Applications]
  BY <1>3
<1>4. CASE call \in [pc : {"save"}, app : Applications, copy : Application, change : Changes,
                     then : Thens \union {[pc |-> "checks"]}]
  BY <1>4 DEF Changes
<1> QED
  BY <1>1, <1>2, <1>3, <1>4 DEF ApplyingCalls, Thens

LEMMA ThensAre ==
    /\ Resting \in Thens
    /\ \A then \in Thens : then \in ApplyingCalls /\ then.pc # "save" /\ then.pc # "checks"
  BY Marks DEF ApplyingCalls, Thens

LEMMA OnboardingInitially == OnboardingInit => OnboardingInv
<1> SUFFICES ASSUME OnboardingInit PROVE OnboardingInv
  OBVIOUS
<1>1. applying \in [Clients -> ApplyingCalls] /\ \A k \in Clients : applying[k].pc = "resting"
  BY ThensAre, Marks DEF OnboardingInit
<1>2. \A a \in Applications : ~Known(a) /\ applications[a] = Unused
  BY DEF OnboardingInit, Known, OnRecord
<1>3. intended \in [Applications -> [facts : SUBSET FactNames, status : Statuses]]
  BY DEF OnboardingInit, Nothing, Statuses
<1> QED
  BY <1>1, <1>2, <1>3 DEF OnboardingInit, OnboardingInv, Undisputed, HasCopy, Applying

\* A request leaves its step, and none of the documents changes.
LEMMA MovingOnKeeps ==
    ASSUME OnboardingInv, NEW k \in Clients, NEW n \in ApplyingCalls, n.pc # "save",
           applying' = [applying EXCEPT ![k] = n], UNCHANGED <<applications, intended, contested>>
    PROVE  OnboardingInv'
<1>1. applying'[k] = n /\ \A j \in Clients \ {k} : applying'[j] = applying[j]
  BY DEF OnboardingInv
<1>2. \A j \in Clients : \A a \in Applications : HasCopy(j, a)' => HasCopy(j, a) /\ j # k
  BY <1>1 DEF HasCopy, Applying
<1>3. ASSUME NEW a \in Applications PROVE Undisputed(a)'
  BY <1>1, <1>2 DEF OnboardingInv, Undisputed, Known, Proposed
<1> QED
  BY <1>1, <1>3 DEF OnboardingInv, Known

\* A request takes up an application, with a change to it.
LEMMA EditsKeep ==
    ASSUME OnboardingInv, NEW k \in Clients, applying[k].pc # "save", NEW a \in Applications, Known(a),
           NEW copy \in Application, NEW change \in Changes, Edited(applications[a], copy, change),
           NEW then \in Thens \union {[pc |-> "checks"]}, then.pc = "checks" => Complete(copy),
           Edits(k, a, copy, change, then)
    PROVE  OnboardingInv'
<1>1. PICK n : n = [pc |-> "save", app |-> a, copy |-> copy, change |-> change, then |-> then]
  OBVIOUS
<1>2. /\ n \in ApplyingCalls /\ n.pc = "save" /\ n.app = a /\ n.copy = copy /\ n.change = change
      /\ n.then = then
  BY <1>1 DEF ApplyingCalls
<1>3. /\ applying' = [applying EXCEPT ![k] = n] /\ UNCHANGED <<applications, intended>>
      /\ contested' = IF \E j \in Clients : HasCopy(j, a) THEN contested \union {a} ELSE contested
  BY <1>1 DEF Edits, Continue
<1>4. applying'[k] = n /\ \A j \in Clients \ {k} : applying'[j] = applying[j]
  BY <1>3 DEF OnboardingInv
<1>5. \A b \in Applications : /\ HasCopy(k, b)' <=> b = a
                              /\ \A j \in Clients \ {k} : HasCopy(j, b)' <=> HasCopy(j, b)
  BY <1>2, <1>4 DEF HasCopy, Applying
<1>6. Earned(copy) /\ applications[a] \in Application /\ applications[a] # Unused
  BY DEF Edited, OnboardingInv, Known, OnRecord
<1>7. ASSUME NEW b \in Applications PROVE Undisputed(b)'
  <2>1. CASE b = a
    <3>1. SUFFICES ASSUME a \notin contested' PROVE Undisputed(a)'
      BY <2>1 DEF Undisputed
    <3>2. a \notin contested /\ \A j \in Clients : ~HasCopy(j, a)
      BY <1>3, <3>1
    <3>3. Facts(applications[a]) = intended[a].facts /\ applications[a].status = intended[a].status
      BY <3>2 DEF OnboardingInv, Undisputed
    <3>4. Proposed(k, a)'
      BY <1>2, <1>3, <1>4, <3>3 DEF Edited, Proposed
    <3>5. \A j \in Clients : HasCopy(j, a)' => j = k
      BY <1>5, <3>2
    <3> QED
      BY <1>3, <3>3, <3>4, <3>5 DEF Undisputed, Known
  <2>2. CASE b # a
    <3>1. SUFFICES ASSUME b \notin contested' PROVE Undisputed(b)'
      BY DEF Undisputed
    <3>2. b \notin contested
      BY <1>3, <3>1
    <3>3. \A j \in Clients : HasCopy(j, b)' => HasCopy(j, b) /\ j # k
      BY <1>5, <2>2
    <3> QED
      BY <1>3, <1>4, <3>2, <3>3 DEF OnboardingInv, Undisputed, Known, Proposed
  <2> QED
    BY <2>1, <2>2
<1>8. \A j \in Clients : applying'[j].pc = "save" =>
           /\ Earned(applying'[j].copy) /\ applications'[applying'[j].app] # Unused
           /\ applying'[j].then.pc = "checks" => Complete(applying'[j].copy)
  BY <1>2, <1>3, <1>4, <1>6 DEF OnboardingInv
<1>9. applying' \in [Clients -> ApplyingCalls] /\ contested' \subseteq Applications
  BY <1>2, <1>3 DEF OnboardingInv
<1> QED
  BY <1>3, <1>7, <1>8, <1>9 DEF OnboardingInv, Known

LEMMA CreatingKeeps ==
    ASSUME OnboardingInv, NEW k \in Clients, PostApplication(k)
    PROVE  OnboardingInv' /\ UNCHANGED UploadVars /\ UNCHANGED contested
<1>1. PICK a \in Applications, type \in ApplicantTypes, level \in KycLevels : createApplication(k, a, type, level)
  BY DEF PostApplication
<1>2. type \in {"individual", "business"} /\ level \in {"tier_1", "tier_2", "tier_3"}
  BY <1>1, OnboardingAssumption
<1>3. PICK new \in Application : /\ new = NewApplication(type, level)
                                /\ Facts(new) = {} /\ new.status = "draft"
  BY <1>2, NewApplications
<1>4. /\ applications[a] = Unused /\ applications' = [applications EXCEPT ![a] = new]
      /\ UNCHANGED <<applying, intended, contested>> /\ UNCHANGED UploadVars
  BY <1>1, <1>3 DEF createApplication
<1>5. applications'[a] = new /\ \A b \in Applications \ {a} : applications'[b] = applications[b]
  BY <1>4 DEF OnboardingInv
<1>6. Earned(new) /\ new # Unused
  BY <1>3, Marks DEF Earned
<1>7. \A j \in Clients : applying[j].pc = "save" => applying[j].app \in Applications /\ applying[j].app # a
  BY <1>4, ApplyingFields DEF OnboardingInv
<1>8. \A j \in Clients : ~HasCopy(j, a)
  BY <1>7 DEF HasCopy, Applying
<1>9. ASSUME NEW b \in Applications PROVE Undisputed(b)'
  <2>1. CASE b = a
    <3>1. intended[a].facts = {} /\ intended[a].status = "draft"
      BY <1>4 DEF OnboardingInv, Nothing
    <3>2. \A j \in Clients : ~HasCopy(j, a)'
      BY <1>4, <1>8 DEF HasCopy, Applying
    <3> QED
      BY <1>3, <1>4, <1>5, <2>1, <3>1, <3>2 DEF Undisputed
  <2>2. CASE b # a
    BY <1>4, <1>5, <2>2 DEF Undisputed, OnboardingInv, Known, HasCopy, Applying, Proposed
  <2> QED
    BY <2>1, <2>2
<1>10. applications' \in [Applications -> Application \union {Unused, Expired}]
  BY <1>4 DEF OnboardingInv
<1>11. \A b \in Applications : (Known(b) => Earned(applications[b]))'
  BY <1>5, <1>6 DEF OnboardingInv, Known
<1>12. \A b \in Applications : applications'[b] = Unused => intended'[b] = Nothing
  BY <1>4, <1>5, <1>6 DEF OnboardingInv
<1>13. \A j \in Clients : applying'[j].pc = "save" =>
           /\ Earned(applying'[j].copy) /\ applications'[applying'[j].app] # Unused
           /\ applying'[j].then.pc = "checks" => Complete(applying'[j].copy)
  BY <1>4, <1>5, <1>7 DEF OnboardingInv
<1> QED
  BY <1>4, <1>9, <1>10, <1>11, <1>12, <1>13 DEF OnboardingInv

LEMMA SavedStatements ==
    ASSUME NEW says, says \in [facts : SUBSET FactNames, status : Statuses],
           NEW change \in Changes
    PROVE  LET next == [facts |-> says.facts \union change.fact,
                        status |-> IF change.status = "same" THEN says.status ELSE change.status]
           IN  next \in [facts : SUBSET FactNames, status : Statuses]
  BY DEF Changes

LEMMA SaveApplicationKeeps ==
    ASSUME OnboardingInv, NEW k \in Clients, saveApplication(k)
    PROVE  OnboardingInv'
<1>1. PICK call \in ApplyingCalls : call = applying[k]
  BY DEF OnboardingInv
<1>2. /\ call.pc = "save" /\ call.app \in Applications /\ call.copy \in Application
      /\ call.then \in Thens \union {[pc |-> "checks"]}
      /\ Earned(call.copy) /\ applications[call.app] # Unused
      /\ call.then.pc = "checks" => Complete(call.copy)
  BY <1>1, ApplyingFields DEF saveApplication, Applying, OnboardingInv
<1>3. call \in [pc : {"save"}, app : Applications, copy : Application, change : Changes,
                then : Thens \union {[pc |-> "checks"]}]
  BY <1>2, ThensAre DEF ApplyingCalls
<1>4. PICK a \in Applications, copy \in Application : a = call.app /\ copy = call.copy
  BY <1>2
<1>5. PICK change \in Changes : change = call.change
  BY <1>3
<1>6. PICK n : n = IF call.then.pc # "checks" THEN call.then
                   ELSE [call EXCEPT !.copy = Checked(copy), !.then = Done,
                                     !.change = Becomes(Checked(copy).status, {"checked"})]
  OBVIOUS
<1>7. \/ n \in Thens
      \/ /\ call.then.pc = "checks" /\ n \in ApplyingCalls /\ n.pc = "save" /\ n.app = a
         /\ n.then = Resting /\ Earned(n.copy) /\ Facts(n.copy) = Facts(copy) \union {"checked"}
         /\ n.change = [fact |-> {"checked"}, status |-> n.copy.status] /\ n.copy.status # "same"
  <2>1. CASE call.then.pc # "checks"
    BY <1>2, <1>6, <2>1
  <2>2. CASE call.then.pc = "checks"
    <3>1. PICK checked \in Application : /\ checked = Checked(copy) /\ Facts(checked) = Facts(copy) \union {"checked"}
              /\ checked.status \in {"approved", "under_review"} /\ Earned(checked)
      BY <1>2, <1>4, <2>2, Checks
    <3>2. PICK became \in Changes : became = [fact |-> {"checked"}, status |-> checked.status]
      <4>1. [fact |-> {"checked"}, status |-> checked.status] \in Changes
        BY <3>1 DEF Changes, FactNames, Statuses
      <4> QED
        BY <4>1
    <3>3. n = [call EXCEPT !.copy = checked, !.then = Resting, !.change = became]
      BY <1>6, <2>2, <3>1, <3>2 DEF Becomes, Done
    <3>4. n \in [pc : {"save"}, app : Applications, copy : Application, change : Changes,
                 then : Thens \union {[pc |-> "checks"]}]
      BY <1>3, <3>3, ThensAre
    <3>5. n.pc = "save" /\ n.app = a /\ n.then = Resting /\ n.copy = checked /\ n.change = became
      BY <1>3, <1>4, <3>3
    <3> QED
      BY <2>2, <3>1, <3>2, <3>4, <3>5 DEF ApplyingCalls
  <2> QED
    BY <2>1, <2>2
<1>8. PICK says \in [facts : SUBSET FactNames, status : Statuses] :
          says = IF a \in contested THEN Nothing ELSE
                 [facts |-> intended[a].facts \union change.fact,
                  status |-> IF change.status = "same" THEN intended[a].status ELSE change.status]
  <2>1. CASE a \in contested
    BY <2>1 DEF Nothing, Statuses
  <2>2. CASE a \notin contested
    BY <2>2, SavedStatements DEF OnboardingInv
  <2> QED
    BY <2>1, <2>2
<1>9. /\ applications' = [applications EXCEPT ![a] = copy] /\ intended' = [intended EXCEPT ![a] = says]
      /\ applying' = [applying EXCEPT ![k] = n] /\ UNCHANGED contested
  BY <1>1, <1>4, <1>5, <1>6, <1>8 DEF saveApplication, Continue, OnboardingInv
<1>10. /\ applications'[a] = copy /\ intended'[a] = says /\ applying'[k] = n
       /\ \A b \in Applications \ {a} : applications'[b] = applications[b] /\ intended'[b] = intended[b]
       /\ \A j \in Clients \ {k} : applying'[j] = applying[j]
  BY <1>9 DEF OnboardingInv
<1>11. HasCopy(k, a) /\ Earned(copy) /\ copy # Unused
  BY <1>1, <1>2, <1>4, Marks DEF HasCopy, Applying, Application
<1>12. n \in ApplyingCalls /\ (n.pc = "save" => n.app = a /\ Earned(n.copy) /\ n.then.pc # "checks")
  BY <1>7, ThensAre, Marks
<1>13. \A b \in Applications : /\ HasCopy(k, b)' => b = a /\ n.pc = "save"
                               /\ \A j \in Clients \ {k} : HasCopy(j, b)' <=> HasCopy(j, b)
  BY <1>10, <1>12 DEF HasCopy, Applying
<1>14. ASSUME NEW b \in Applications PROVE Undisputed(b)'
  <2>1. SUFFICES ASSUME b \notin contested PROVE Undisputed(b)'
    BY <1>9 DEF Undisputed
  <2>2. CASE b = a
    <3>1. \A j \in Clients : HasCopy(j, a) => j = k
      BY <1>11, <2>1, <2>2 DEF OnboardingInv, Undisputed
    <3>2. Proposed(k, a)
      BY <1>11, <2>1, <2>2 DEF OnboardingInv, Undisputed
    <3>3. Facts(copy) = says.facts /\ copy.status = says.status
      BY <1>1, <1>4, <1>5, <1>8, <2>1, <2>2, <3>2 DEF Proposed
    <3>4. \A j \in Clients : HasCopy(j, a)' => j = k /\ n.pc = "save"
      BY <1>13, <3>1
    <3>5. n.pc = "save" => Proposed(k, a)'
      <4>1. SUFFICES ASSUME n.pc = "save" PROVE Proposed(k, a)'
        OBVIOUS
      <4>2. /\ Facts(n.copy) = Facts(copy) \union {"checked"}
            /\ n.change.fact = {"checked"} /\ n.change.status = n.copy.status /\ n.copy.status # "same"
        BY <1>7, <4>1, ThensAre
      <4> QED
        BY <1>10, <3>3, <4>2 DEF Proposed
    <3> QED
      BY <1>10, <2>2, <3>3, <3>4, <3>5 DEF Undisputed
  <2>3. CASE b # a
    <3>1. \A j \in Clients : HasCopy(j, b)' => j # k /\ HasCopy(j, b)
      BY <1>13, <2>3
    <3> QED
      BY <1>10, <2>1, <2>3, <3>1 DEF OnboardingInv, Undisputed, Known, Proposed
  <2> QED
    BY <2>2, <2>3
<1>15. \A j \in Clients : applying'[j].pc = "save" =>
           /\ Earned(applying'[j].copy) /\ applications'[applying'[j].app] # Unused
           /\ applying'[j].then.pc = "checks" => Complete(applying'[j].copy)
  <2>1. \A j \in Clients : applying[j].pc = "save" => applying[j].app \in Applications
    BY ApplyingFields DEF OnboardingInv
  <2> QED
    BY <1>10, <1>11, <1>12, <2>1 DEF OnboardingInv
<1>16. \A b \in Applications : (Known(b) => Earned(applications[b]))'
  BY <1>10, <1>11 DEF OnboardingInv, Known
<1>17. \A b \in Applications : applications'[b] = Unused => intended'[b] = Nothing
  BY <1>10, <1>11 DEF OnboardingInv
<1>18. /\ applications' \in [Applications -> Application \union {Unused, Expired}]
       /\ contested' \subseteq Applications /\ applying' \in [Clients -> ApplyingCalls]
       /\ intended' \in [Applications -> [facts : SUBSET FactNames, status : Statuses]]
  BY <1>9, <1>12 DEF OnboardingInv
<1> QED
  BY <1>14, <1>15, <1>16, <1>17, <1>18 DEF OnboardingInv

LEMMA ExpiringKeeps ==
    ASSUME OnboardingInv, NEW a \in Applications, ApplicationExpires(a)
    PROVE  OnboardingInv'
<1>1. /\ applications[a] # Unused /\ applications' = [applications EXCEPT ![a] = Expired]
      /\ UNCHANGED <<applying, intended, contested>>
  BY DEF ApplicationExpires, OnRecord
<1>2. applications'[a] = Expired /\ \A b \in Applications \ {a} : applications'[b] = applications[b]
  BY <1>1 DEF OnboardingInv
<1>3. \A b \in Applications : Known(b)' => Known(b) /\ applications'[b] = applications[b]
  BY <1>2 DEF Known, OnRecord
<1>4. \A b \in Applications : Undisputed(b)'
  BY <1>1, <1>3 DEF OnboardingInv, Undisputed, HasCopy, Applying, Proposed
<1>5. \A b \in Applications : applications'[b] = Unused => applications[b] = Unused
  BY <1>2, Marks
<1>6. \A j \in Clients : applying'[j].pc = "save" =>
           /\ Earned(applying'[j].copy) /\ applications'[applying'[j].app] # Unused
           /\ applying'[j].then.pc = "checks" => Complete(applying'[j].copy)
  BY <1>1, <1>5, ApplyingFields DEF OnboardingInv
<1>7. applications' \in [Applications -> Application \union {Unused, Expired}]
  BY <1>1 DEF OnboardingInv
<1> QED
  BY <1>1, <1>3, <1>4, <1>5, <1>6, <1>7 DEF OnboardingInv

LEMMA ChangesAre ==
    /\ \A fact \in FactNames : Fact(fact) \in Changes
    /\ Becomes("approved", {"reviewed"}) \in Changes /\ Becomes("rejected", {"reviewed"}) \in Changes
    /\ Becomes("submitted", {}) \in Changes
  BY DEF Fact, Becomes, Changes, FactNames, Statuses

LEMMA CallsAfter ==
    /\ Done \in Thens /\ Done.pc # "checks"
    /\ \A a \in Applications, number \in Numbers : [pc |-> "verifyIdentity", app |-> a, number |-> number] \in Thens
    /\ \A a \in Applications : [pc |-> "verifyBank", app |-> a] \in Thens
  BY Marks DEF Thens, Done

\* What clients ask for, and what the providers' answers lead to, are edits.
LEMMA AskedEditsKeep ==
    ASSUME OnboardingInv, NEW k \in Clients, applying[k].pc # "save", NEW a \in Applications, Known(a),
           \/ updatePersonalInfo(k, a) \/ updateBusinessInfo(k, a) \/ addAddress(k, a)
           \/ \E number \in Numbers : addIdentityDocument(k, a, number)
           \/ addBankAccount(k, a) \/ submitApplication(k, a)
           \/ approveApplication(k, a) \/ rejectApplication(k, a)
    PROVE  OnboardingInv'
<1>1. PICK app \in Application : app = applications[a]
  BY DEF OnboardingInv, Known, OnRecord
<1>2. ASSUME NEW copy, NEW change \in Changes, Edited(app, copy, change),
             NEW then \in Thens, Edits(k, a, copy, change, then)
      PROVE  OnboardingInv'
  <2>1. then.pc # "checks"
    BY <1>2, ThensAre
  <2>2. copy \in Application
    BY <1>2 DEF Edited
  <2> QED
    BY <1>1, <1>2, <2>1, <2>2, EditsKeep
<1>3. CASE updatePersonalInfo(k, a)
  <2>1. PICK copy : copy = [app EXCEPT !.personal = TRUE,
                                       !.step = IF @ = "personal_info" THEN NextStep(app) ELSE @]
    OBVIOUS
  <2>2. Edited(app, copy, Fact("personal")) /\ Fact("personal") \in Changes
    BY <2>1, PersonalInfo, ChangesAre DEF FactNames
  <2>3. Edits(k, a, copy, Fact("personal"), Done)
    BY <1>1, <1>3, <2>1 DEF updatePersonalInfo
  <2> QED
    BY <1>2, <2>2, <2>3, CallsAfter
<1>4. CASE updateBusinessInfo(k, a)
  <2>1. PICK copy : copy = [app EXCEPT !.business = TRUE,
                                       !.step = IF @ = "business_info" THEN NextStep(app) ELSE @]
    OBVIOUS
  <2>2. Edited(app, copy, Fact("business")) /\ Fact("business") \in Changes
    BY <2>1, BusinessInfo, ChangesAre DEF FactNames
  <2>3. Edits(k, a, copy, Fact("business"), Done)
    BY <1>1, <1>4, <2>1 DEF updateBusinessInfo
  <2> QED
    BY <1>2, <2>2, <2>3, CallsAfter
<1>5. CASE addAddress(k, a)
  <2>1. PICK copy : copy = [app EXCEPT !.addresses = TRUE]
    OBVIOUS
  <2>2. Edited(app, copy, Fact("addresses")) /\ Fact("addresses") \in Changes
    BY <2>1, Addresses, ChangesAre DEF FactNames
  <2>3. Edits(k, a, copy, Fact("addresses"), Done)
    BY <1>1, <1>5, <2>1 DEF addAddress
  <2> QED
    BY <1>2, <2>2, <2>3, CallsAfter
<1>6. ASSUME NEW number \in Numbers, addIdentityDocument(k, a, number) PROVE OnboardingInv'
  <2>1. PICK copy : copy = [app EXCEPT !.identity = Append(@, [number |-> number, verified |-> FALSE])]
    OBVIOUS
  <2>2. Edited(app, copy, Fact(number)) /\ Fact(number) \in Changes
    BY <2>1, AddedPapers, ChangesAre DEF FactNames
  <2>3. PICK then \in Thens : then = [pc |-> "verifyIdentity", app |-> a, number |-> number]
    BY CallsAfter
  <2>4. Edits(k, a, copy, Fact(number), then)
    BY <1>1, <1>6, <2>1, <2>3 DEF addIdentityDocument
  <2> QED
    BY <1>2, <2>2, <2>4
<1>7. CASE addBankAccount(k, a)
  <2>1. PICK copy : copy = [app EXCEPT !.bank = IF @ = "none" THEN "pending" ELSE @]
    OBVIOUS
  <2>2. Edited(app, copy, Fact("bank")) /\ Fact("bank") \in Changes
    BY <2>1, Banks, ChangesAre DEF FactNames
  <2>3. PICK then \in Thens : then = [pc |-> "verifyBank", app |-> a]
    BY CallsAfter
  <2>4. Edits(k, a, copy, Fact("bank"), then)
    BY <1>1, <1>7, <2>1, <2>3 DEF addBankAccount
  <2> QED
    BY <1>2, <2>2, <2>4
<1>8. CASE submitApplication(k, a)
  <2>1. PICK copy : copy = [app EXCEPT !.status = "submitted", !.step = "compliance_checks"]
    OBVIOUS
  <2>2. Edits(k, a, copy, Becomes("submitted", {}), [pc |-> "checks"]) /\ Complete(app)
    BY <1>1, <1>8, <2>1 DEF submitApplication
  <2>3. Edited(app, copy, Becomes("submitted", {})) /\ Complete(copy)
    BY <2>1, <2>2, SubmittedCopies
  <2>4. PICK change \in Changes : change = Becomes("submitted", {})
    BY ChangesAre
  <2>5. PICK then \in Thens \union {[pc |-> "checks"]} : then = [pc |-> "checks"]
    OBVIOUS
  <2>6. copy \in Application
    BY <2>3 DEF Edited
  <2> QED
    BY <1>1, <2>2, <2>3, <2>4, <2>5, <2>6, EditsKeep
<1>9. CASE approveApplication(k, a)
  <2>1. PICK copy : copy = [app EXCEPT !.status = "approved", !.step = "completed", !.reviewed = TRUE]
    OBVIOUS
  <2>2. PICK change \in Changes : change = Becomes("approved", {"reviewed"})
    BY ChangesAre
  <2>3. Edited(app, copy, change) /\ Edits(k, a, copy, change, Done)
    BY <1>1, <1>9, <2>1, <2>2, Approvals DEF approveApplication
  <2> QED
    BY <1>2, <2>3, CallsAfter
<1>10. CASE rejectApplication(k, a)
  <2>1. PICK copy : copy = [app EXCEPT !.status = "rejected", !.reviewed = TRUE]
    OBVIOUS
  <2>2. PICK change \in Changes : change = Becomes("rejected", {"reviewed"})
    BY ChangesAre
  <2>3. Edited(app, copy, change) /\ Edits(k, a, copy, change, Done)
    BY <1>1, <1>10, <2>1, <2>2, Rejections DEF rejectApplication
  <2> QED
    BY <1>2, <2>3, CallsAfter
<1> QED
  BY <1>3, <1>4, <1>5, <1>6, <1>7, <1>8, <1>9, <1>10

LEMMA VerifyingKeeps ==
    ASSUME OnboardingInv, NEW k \in Clients, verifyIdentityDocument(k) \/ verifyBankAccount(k)
    PROVE  OnboardingInv'
<1>1. PICK call \in ApplyingCalls : call = applying[k]
  BY DEF OnboardingInv
<1>2. /\ call.app \in Applications /\ call.pc # "save"
      /\ call.pc = "verifyIdentity" => call.number \in Numbers
  BY <1>1, ApplyingFields DEF verifyIdentityDocument, verifyBankAccount, Applying
<1>3. PICK a, app : a = call.app /\ a \in Applications /\ app = applications[a]
  BY <1>2
<1>4. CASE Continue(k, Done) /\ UNCHANGED <<applications, intended, contested, UploadVars>>
  BY <1>4, CallsAfter, ThensAre, MovingOnKeeps DEF Continue
<1>5. CASE ~(Continue(k, Done) /\ UNCHANGED <<applications, intended, contested, UploadVars>>)
  <2>1. Known(a) /\ app \in Application
    BY <1>1, <1>3, <1>5 DEF verifyIdentityDocument, verifyBankAccount, Known, OnboardingInv, OnRecord
  <2>2. CASE verifyIdentityDocument(k)
    <3>1. PICK number \in Numbers : number = call.number
      BY <1>1, <1>2, <2>2 DEF verifyIdentityDocument, Applying
    <3>2. PICK copy : copy = WithVerified(app, number)
      OBVIOUS
    <3>3. /\ \E i \in 1 .. Len(app.identity) : app.identity[i].number = number
          /\ Edits(k, a, copy, Fact("identified"), Done)
      BY <1>1, <1>3, <1>5, <2>2, <3>1, <3>2 DEF verifyIdentityDocument
    <3>4. Edited(app, copy, Fact("identified"))
      BY <2>1, <3>2, <3>3, VerifiedPapers
    <3>5. PICK change \in Changes : change = Fact("identified")
      BY ChangesAre DEF FactNames
    <3>6. copy \in Application
      BY <3>4 DEF Edited
    <3> QED
      BY <1>1, <1>2, <1>3, <2>1, <3>3, <3>4, <3>5, <3>6, CallsAfter, EditsKeep
  <2>3. CASE verifyBankAccount(k)
    <3>1. PICK copy : copy = [app EXCEPT !.bank = "verified"]
      OBVIOUS
    <3>2. app.bank # "none" /\ Edits(k, a, copy, Fact("verified"), Done)
      BY <1>1, <1>3, <1>5, <2>3, <3>1 DEF verifyBankAccount
    <3>3. Edited(app, copy, Fact("verified"))
      BY <2>1, <3>1, <3>2, Banks
    <3>4. PICK change \in Changes : change = Fact("verified")
      BY ChangesAre DEF FactNames
    <3>5. copy \in Application
      BY <3>3 DEF Edited
    <3> QED
      BY <1>1, <1>2, <1>3, <2>1, <3>2, <3>3, <3>4, <3>5, CallsAfter, EditsKeep
  <2> QED
    BY <2>2, <2>3
<1> QED
  BY <1>4, <1>5

LEMMA OnboardingKept == OnboardingInv /\ [OnboardingNext]_OnboardingVars => OnboardingInv'
<1> SUFFICES ASSUME OnboardingInv, [OnboardingNext]_OnboardingVars PROVE OnboardingInv'
  OBVIOUS
<1>1. CASE UNCHANGED OnboardingVars
  BY <1>1 DEF OnboardingVars, OnboardingInv, Undisputed, HasCopy, Applying, Known, Proposed
<1>2. ASSUME NEW a \in Applications, ApplicationExpires(a) PROVE OnboardingInv'
  BY <1>2, ExpiringKeeps
<1>3. ASSUME NEW k \in Clients, saveApplication(k) \/ verifyIdentityDocument(k) \/ verifyBankAccount(k)
      PROVE  OnboardingInv'
  BY <1>3, SaveApplicationKeeps, VerifyingKeeps
<1>4. ASSUME NEW k \in Clients, applying[k] = Resting,
             \/ PostApplication(k) \/ PutPersonalInfo(k) \/ PutBusinessInfo(k) \/ PostAddress(k)
             \/ PostIdentityDocument(k) \/ PostBankAccount(k) \/ PostSubmission(k)
             \/ PostApproval(k) \/ PostRejection(k)
      PROVE  OnboardingInv'
  <2>1. applying[k].pc # "save"
    BY <1>4, Marks
  <2>2. CASE PostApplication(k)
    BY <2>2, CreatingKeeps
  <2>3. CASE ~PostApplication(k)
    <3>1. PICK a \in Applications :
              /\ Known(a)
              /\ \/ updatePersonalInfo(k, a) \/ updateBusinessInfo(k, a) \/ addAddress(k, a)
                 \/ \E number \in Numbers : addIdentityDocument(k, a, number)
                 \/ addBankAccount(k, a) \/ submitApplication(k, a)
                 \/ approveApplication(k, a) \/ rejectApplication(k, a)
      BY <1>4, <2>3
      DEF PutPersonalInfo, PutBusinessInfo, PostAddress, PostIdentityDocument, PostBankAccount,
          PostSubmission, PostApproval, PostRejection
    <3> QED
      BY <2>1, <3>1, AskedEditsKeep
  <2> QED
    BY <2>2, <2>3
<1> QED
  BY <1>1, <1>2, <1>3, <1>4 DEF OnboardingNext

\* What uploads do to the applications and the edits: they create applications, and may
\* find that two of them held a list.
LEMMA UploadsLeaveApplications ==
    ASSUME OnboardingInv, UNCHANGED <<applications, applying, intended>>,
           contested \subseteq contested', contested' \subseteq Applications
    PROVE  OnboardingInv'
<1>1. \A a \in Applications : Undisputed(a)'
  BY DEF OnboardingInv, Undisputed, HasCopy, Applying, Known, Proposed
<1> QED
  BY <1>1 DEF OnboardingInv, Known

LEMMA OnboardingShows == OnboardingInv => ApplicationLostOnlyByOverlap /\ AutoApprovalIsEarned
<1> SUFFICES ASSUME OnboardingInv PROVE ApplicationLostOnlyByOverlap /\ AutoApprovalIsEarned
  OBVIOUS
<1>1. ASSUME NEW a \in Applications \ contested, Known(a)
      PROVE  [facts |-> Facts(applications[a]), status |-> applications[a].status] = intended[a]
  <2>1. Facts(applications[a]) = intended[a].facts /\ applications[a].status = intended[a].status
    BY <1>1 DEF OnboardingInv, Undisputed
  <2> QED
    BY <2>1 DEF OnboardingInv
<1> QED
  BY <1>1 DEF ApplicationLostOnlyByOverlap, AutoApprovalIsEarned, OnboardingInv, Earned, Known

-----------------------------------------------------------------------------
\* Uploaded files.

FileRecord == [status : {"uploaded", "processing", "processed"}, app : Applications]
UploadingCalls ==
    {Resting} \union [pc : {"readList"}, app : Applications, doc : Uploads, image : BOOLEAN]
    \union [pc : {"saveList"}, app : Applications, doc : Uploads, image : BOOLEAN, list : SUBSET Uploads]
    \union [pc : {"ocr"}, doc : Uploads]
Listing(k) == uploading[k].pc \in {"readList", "saveList"}

\* A list names files on record, and so does every copy of it; the copy of a list that
\* uploads never held at once is the list.
UploadsInv ==
    /\ documents \in [Uploads -> FileRecord \union {Unused}]
    /\ documentList \in [Applications -> SUBSET Uploads] /\ contested \subseteq Applications
    /\ uploading \in [Clients -> UploadingCalls]
    /\ \A k \in Clients : uploading[k].pc # "resting" => documents[uploading[k].doc] # Unused
    /\ \A k \in Clients : Listing(k) => documents[uploading[k].doc].app = uploading[k].app
    /\ \A a \in Applications : \A d \in documentList[a] : documents[d] # Unused
    /\ \A k \in Clients : uploading[k].pc = "saveList" => \A d \in uploading[k].list : documents[d] # Unused
    /\ \A a \in Applications \ contested :
           /\ \A k \in Clients : HasList(k, a) => uploading[k].list = documentList[a]
           /\ \A k, j \in Clients : HasList(k, a) /\ HasList(j, a) => k = j
    /\ \A d \in Uploads : documents[d] # Unused =>
           \/ documents[d].app \in contested \/ d \in documentList[documents[d].app]
           \/ \E k \in Clients : Listing(k) /\ uploading[k].doc = d

LEMMA UploadingFields ==
    ASSUME NEW call \in UploadingCalls
    PROVE  /\ call.pc \in {"resting", "readList", "saveList", "ocr"}
           /\ call.pc # "resting" => call.doc \in Uploads
           /\ call.pc \in {"readList", "saveList"} => call.app \in Applications /\ call.image \in BOOLEAN
           /\ call.pc = "saveList" => call.list \in SUBSET Uploads
<1>1. CASE call = Resting
  BY <1>1, Marks
<1>2. CASE call \in [pc : {"readList"}, app : Applications, doc : Uploads, image : BOOLEAN]
  BY <1>2
<1>3. CASE call \in [pc : {"saveList"}, app : Applications, doc : Uploads, image : BOOLEAN, list : SUBSET Uploads]
  BY <1>3
<1>4. CASE call \in [pc : {"ocr"}, doc : Uploads]
  BY <1>4
<1> QED
  BY <1>1, <1>2, <1>3, <1>4 DEF UploadingCalls

LEMMA FilesAre == Unused \notin FileRecord /\ Unused # Expired /\ Expired \notin FileRecord
  BY Marks DEF FileRecord

LEMMA UploadsInitially == OnboardingInit => UploadsInv
<1> SUFFICES ASSUME OnboardingInit PROVE UploadsInv
  OBVIOUS
<1>1. uploading \in [Clients -> UploadingCalls] /\ \A k \in Clients : uploading[k].pc = "resting"
  BY Marks DEF OnboardingInit, UploadingCalls
<1> QED
  BY <1>1 DEF OnboardingInit, UploadsInv, HasList, Listing

\* What edits do to uploads: they may find that two requests held an application.
LEMMA EditsLeaveUploads ==
    ASSUME UploadsInv, UNCHANGED UploadVars, contested \subseteq contested', contested' \subseteq Applications
    PROVE  UploadsInv'
  BY DEF UploadsInv, UploadVars, HasList, Listing

LEMMA UploadDocumentKeeps ==
    ASSUME UploadsInv, NEW k \in Clients, uploading[k] = Resting, NEW a \in Applications, NEW d \in Uploads,
           NEW image \in BOOLEAN, uploadDocument(k, a, d, image)
    PROVE  UploadsInv'
<1>1. PICK file \in FileRecord : file = [status |-> "uploaded", app |-> a] /\ file.app = a
  <2>1. [status |-> "uploaded", app |-> a] \in FileRecord
    BY DEF FileRecord
  <2> QED
    BY <2>1
<1>2. PICK n \in UploadingCalls : /\ n = [pc |-> "readList", app |-> a, doc |-> d, image |-> image]
                                  /\ n.pc = "readList" /\ n.app = a /\ n.doc = d
  <2>1. [pc |-> "readList", app |-> a, doc |-> d, image |-> image] \in UploadingCalls
    BY DEF UploadingCalls
  <2> QED
    BY <2>1
<1>3. /\ documents[d] = Unused /\ documents' = [documents EXCEPT ![d] = file]
      /\ uploading' = [uploading EXCEPT ![k] = n] /\ UNCHANGED <<documentList, contested>>
  BY <1>1, <1>2 DEF uploadDocument, UploadStep
<1>4. /\ documents'[d] = file /\ \A e \in Uploads \ {d} : documents'[e] = documents[e]
      /\ uploading'[k] = n /\ \A j \in Clients \ {k} : uploading'[j] = uploading[j]
  BY <1>3 DEF UploadsInv
<1>5. \A e \in Uploads : documents[e] # Unused => documents'[e] = documents[e]
  BY <1>3, <1>4
<1>6. file # Unused
  BY <1>1, FilesAre
<1>7. \A j \in Clients : /\ uploading[j].pc # "resting" => uploading[j].doc \in Uploads
                         /\ uploading[j].pc = "saveList" => uploading[j].list \subseteq Uploads
  BY UploadingFields DEF UploadsInv
<1>8. documents' \in [Uploads -> FileRecord \union {Unused}] /\ uploading' \in [Clients -> UploadingCalls]
  BY <1>3 DEF UploadsInv
<1>9. \A j \in Clients : uploading'[j].pc # "resting" => documents'[uploading'[j].doc] # Unused
  BY <1>2, <1>4, <1>5, <1>6, <1>7 DEF UploadsInv
<1>10. \A j \in Clients : Listing(j)' => documents'[uploading'[j].doc].app = uploading'[j].app
  BY <1>1, <1>2, <1>4, <1>5, <1>7 DEF UploadsInv, Listing
<1>11. \A b \in Applications : \A e \in documentList'[b] : documents'[e] # Unused
  BY <1>3, <1>5 DEF UploadsInv
<1>12. \A j \in Clients : uploading'[j].pc = "saveList" => \A e \in uploading'[j].list : documents'[e] # Unused
  BY <1>2, <1>4, <1>5, <1>7 DEF UploadsInv
<1>13. \A b \in Applications, j \in Clients : HasList(j, b)' => HasList(j, b) /\ j # k
  BY <1>2, <1>4 DEF HasList
<1>14. \A b \in Applications \ contested' :
           /\ \A j \in Clients : HasList(j, b)' => uploading'[j].list = documentList'[b]
           /\ \A i, j \in Clients : HasList(i, b)' /\ HasList(j, b)' => i = j
  BY <1>3, <1>4, <1>13 DEF UploadsInv
<1>15. ASSUME NEW e \in Uploads, documents'[e] # Unused
       PROVE  \/ documents'[e].app \in contested' \/ e \in documentList'[documents'[e].app]
              \/ \E j \in Clients : Listing(j)' /\ uploading'[j].doc = e
  <2>1. CASE e = d
    BY <1>2, <1>4, <2>1 DEF Listing
  <2>2. CASE e # d
    <3>1. documents'[e] = documents[e] /\ documents[e] # Unused
      BY <1>4, <1>15, <2>2
    <3>2. ASSUME NEW j \in Clients, Listing(j), uploading[j].doc = e
          PROVE  Listing(j)' /\ uploading'[j].doc = e
      BY <1>4, <3>2, Marks DEF Listing
    <3> QED
      BY <1>3, <3>1, <3>2 DEF UploadsInv
  <2> QED
    BY <2>1, <2>2
<1> QED
  BY <1>3, <1>8, <1>9, <1>10, <1>11, <1>12, <1>14, <1>15 DEF UploadsInv

LEMMA ReadListKeeps ==
    ASSUME UploadsInv, NEW k \in Clients, readDocumentList(k)
    PROVE  UploadsInv'
<1>1. PICK call \in UploadingCalls : call = uploading[k]
  BY DEF UploadsInv
<1>2. call.pc = "readList" /\ call.app \in Applications /\ call.doc \in Uploads /\ call.image \in BOOLEAN
  BY <1>1, UploadingFields DEF readDocumentList
<1>3. PICK a \in Applications, image \in BOOLEAN : a = call.app /\ image = call.image
  BY <1>2
<1>4. PICK d \in Uploads : d = call.doc
  BY <1>2
<1>5. PICK seen \in SUBSET Uploads : seen = documentList[a]
  BY DEF UploadsInv
<1>6. PICK n \in UploadingCalls :
          /\ n = [pc |-> "saveList", app |-> a, doc |-> d, image |-> image, list |-> seen]
          /\ n.pc = "saveList" /\ n.app = a /\ n.doc = d /\ n.list = seen
  <2>1. [pc |-> "saveList", app |-> a, doc |-> d, image |-> image, list |-> seen] \in UploadingCalls
    BY DEF UploadingCalls
  <2> QED
    BY <2>1
<1>7. /\ uploading' = [uploading EXCEPT ![k] = n] /\ UNCHANGED <<documents, documentList>>
      /\ contested' = IF \E j \in Clients : HasList(j, a) THEN contested \union {a} ELSE contested
  BY <1>1, <1>3, <1>4, <1>5, <1>6 DEF readDocumentList, UploadStep
<1>8. uploading'[k] = n /\ \A j \in Clients \ {k} : uploading'[j] = uploading[j]
  BY <1>7 DEF UploadsInv
<1>9. uploading' \in [Clients -> UploadingCalls] /\ contested' \subseteq Applications /\ contested \subseteq contested'
  BY <1>7 DEF UploadsInv
<1>10. documents[d] # Unused /\ documents[d].app = a
  BY <1>1, <1>2, <1>3, <1>4 DEF UploadsInv, Listing
<1>11. \A j \in Clients : /\ uploading'[j].pc # "resting" => documents'[uploading'[j].doc] # Unused
                          /\ Listing(j)' => documents'[uploading'[j].doc].app = uploading'[j].app
  BY <1>6, <1>7, <1>8, <1>10 DEF UploadsInv, Listing
<1>12. \A j \in Clients : uploading'[j].pc = "saveList" => \A e \in uploading'[j].list : documents'[e] # Unused
  BY <1>5, <1>6, <1>7, <1>8 DEF UploadsInv
<1>13. \A b \in Applications, j \in Clients :
           /\ HasList(k, b)' <=> b = a
           /\ j # k => (HasList(j, b)' <=> HasList(j, b))
  BY <1>6, <1>8 DEF HasList
<1>14. ASSUME NEW b \in Applications \ contested'
       PROVE  /\ \A j \in Clients : HasList(j, b)' => uploading'[j].list = documentList'[b]
              /\ \A i, j \in Clients : HasList(i, b)' /\ HasList(j, b)' => i = j
  <2>1. b \notin contested
    BY <1>9
  <2>2. CASE b = a
    <3>1. \A j \in Clients : ~HasList(j, a)
      BY <1>7, <2>2
    <3>2. \A j \in Clients : HasList(j, a)' => j = k
      BY <1>13, <3>1
    <3> QED
      BY <1>5, <1>6, <1>7, <1>8, <2>2, <3>2
  <2>3. CASE b # a
    <3>1. \A j \in Clients : HasList(j, b)' => HasList(j, b) /\ j # k
      BY <1>13, <2>3
    <3> QED
      BY <1>7, <1>8, <2>1, <3>1 DEF UploadsInv
  <2> QED
    BY <2>2, <2>3
<1>15. ASSUME NEW e \in Uploads, documents'[e] # Unused
       PROVE  \/ documents'[e].app \in contested' \/ e \in documentList'[documents'[e].app]
              \/ \E j \in Clients : Listing(j)' /\ uploading'[j].doc = e
  <2>1. \A j \in Clients : Listing(j) => Listing(j)' /\ uploading'[j].doc = uploading[j].doc
    BY <1>1, <1>4, <1>6, <1>8 DEF Listing
  <2> QED
    BY <1>7, <1>9, <1>15, <2>1 DEF UploadsInv
<1> QED
  BY <1>7, <1>9, <1>11, <1>12, <1>14, <1>15 DEF UploadsInv

LEMMA SaveListKeeps ==
    ASSUME UploadsInv, NEW k \in Clients, saveDocumentList(k)
    PROVE  UploadsInv'
<1>1. PICK call \in UploadingCalls : call = uploading[k]
  BY DEF UploadsInv
<1>2. /\ call.pc = "saveList" /\ call.app \in Applications /\ call.doc \in Uploads
      /\ call.list \in SUBSET Uploads
  BY <1>1, UploadingFields DEF saveDocumentList
<1>3. PICK a \in Applications : a = call.app
  BY <1>2
<1>4. PICK d \in Uploads : d = call.doc
  BY <1>2
<1>5. PICK list \in SUBSET Uploads : list = call.list \union {d}
  BY <1>2
<1>6. PICK n \in UploadingCalls : /\ n = IF call.image THEN [pc |-> "ocr", doc |-> d] ELSE Done
                                  /\ n.pc \in {"ocr", "resting"} /\ (n.pc = "ocr" => n.doc = d)
  <2>1. CASE call.image
    <3>1. [pc |-> "ocr", doc |-> d] \in UploadingCalls
      BY DEF UploadingCalls
    <3> QED
      BY <2>1, <3>1
  <2>2. CASE ~call.image
    BY <2>2, Marks DEF UploadingCalls, Done
  <2> QED
    BY <2>1, <2>2
<1>7. /\ uploading' = [uploading EXCEPT ![k] = n] /\ UNCHANGED <<documents, contested>>
      /\ documentList' = [documentList EXCEPT ![a] = list]
  BY <1>1, <1>3, <1>4, <1>5, <1>6 DEF saveDocumentList, UploadStep
<1>8. /\ uploading'[k] = n /\ \A j \in Clients \ {k} : uploading'[j] = uploading[j]
      /\ documentList'[a] = list /\ \A b \in Applications \ {a} : documentList'[b] = documentList[b]
  BY <1>7 DEF UploadsInv
<1>9. /\ uploading' \in [Clients -> UploadingCalls]
      /\ documentList' \in [Applications -> SUBSET Uploads]
  BY <1>7 DEF UploadsInv
<1>10. documents[d] # Unused /\ documents[d].app = a /\ \A e \in list : documents[e] # Unused
  BY <1>1, <1>2, <1>3, <1>4, <1>5 DEF UploadsInv, Listing
<1>11. \A j \in Clients : /\ uploading'[j].pc # "resting" => documents'[uploading'[j].doc] # Unused
                          /\ Listing(j)' => documents'[uploading'[j].doc].app = uploading'[j].app
  BY <1>6, <1>7, <1>8, <1>10 DEF UploadsInv, Listing
<1>12. \A j \in Clients : uploading'[j].pc = "saveList" => \A e \in uploading'[j].list : documents'[e] # Unused
  BY <1>6, <1>7, <1>8 DEF UploadsInv
<1>13. \A b \in Applications : \A e \in documentList'[b] : documents'[e] # Unused
  BY <1>7, <1>8, <1>10 DEF UploadsInv
<1>14. HasList(k, a) /\ \A b \in Applications, j \in Clients : HasList(j, b)' => HasList(j, b) /\ j # k
  BY <1>1, <1>2, <1>3, <1>6, <1>8 DEF HasList
<1>15. ASSUME NEW b \in Applications \ contested'
       PROVE  /\ \A j \in Clients : HasList(j, b)' => uploading'[j].list = documentList'[b]
              /\ \A i, j \in Clients : HasList(i, b)' /\ HasList(j, b)' => i = j
  <2>1. b \notin contested
    BY <1>7
  <2>2. CASE b = a
    <3>1. \A j \in Clients : ~HasList(j, a)'
      BY <1>14, <2>1, <2>2 DEF UploadsInv
    <3> QED
      BY <2>2, <3>1
  <2>3. CASE b # a
    BY <1>8, <1>14, <2>1, <2>3 DEF UploadsInv
  <2> QED
    BY <2>2, <2>3
<1>16. a \notin contested => documentList[a] \subseteq list
  BY <1>1, <1>2, <1>5, <1>14 DEF UploadsInv
<1>17. ASSUME NEW e \in Uploads, documents'[e] # Unused
       PROVE  \/ documents'[e].app \in contested' \/ e \in documentList'[documents'[e].app]
              \/ \E j \in Clients : Listing(j)' /\ uploading'[j].doc = e
  <2>1. documents[e].app \in Applications
    BY <1>7, <1>17 DEF UploadsInv, FileRecord
  <2>2. CASE e = d
    BY <1>5, <1>7, <1>8, <1>10, <2>2
  <2>3. CASE e # d /\ e \in documentList[documents[e].app]
    BY <1>7, <1>8, <1>16, <2>1, <2>3
  <2>4. ASSUME NEW j \in Clients, Listing(j), uploading[j].doc = e, e # d
        PROVE  Listing(j)' /\ uploading'[j].doc = e
    BY <1>1, <1>4, <1>8, <2>4 DEF Listing
  <2> QED
    BY <1>7, <1>17, <2>2, <2>3, <2>4 DEF UploadsInv
<1> QED
  BY <1>7, <1>9, <1>11, <1>12, <1>13, <1>15, <1>17 DEF UploadsInv

LEMMA OcrKeeps ==
    ASSUME UploadsInv, NEW k \in Clients, processDocumentOcr(k)
    PROVE  UploadsInv'
<1>1. PICK call \in UploadingCalls : call = uploading[k]
  BY DEF UploadsInv
<1>2. call.pc = "ocr" /\ call.doc \in Uploads /\ documents[call.doc] # Unused
  BY <1>1, UploadingFields DEF processDocumentOcr, UploadsInv
<1>3. PICK d \in Uploads : d = call.doc
  BY <1>2
<1>4. PICK file \in FileRecord : file = documents[d]
  BY <1>2, <1>3 DEF UploadsInv
<1>5. PICK next \in FileRecord : /\ next = [file EXCEPT !.status = IF @ = "uploaded" THEN "processing" ELSE "processed"]
                                 /\ next.app = file.app
  <2>1. PICK status \in {"processing", "processed"} :
            status = IF file.status = "uploaded" THEN "processing" ELSE "processed"
    OBVIOUS
  <2>2. [file EXCEPT !.status = status] \in FileRecord /\ [file EXCEPT !.status = status].app = file.app
    BY DEF FileRecord
  <2>3. [file EXCEPT !.status = status] = [file EXCEPT !.status = IF @ = "uploaded" THEN "processing" ELSE "processed"]
    BY <2>1 DEF FileRecord
  <2> QED
    BY <2>2, <2>3
<1>6. documents' = [documents EXCEPT ![d] = next]
  BY <1>1, <1>3, <1>4, <1>5 DEF processDocumentOcr, UploadsInv
<1>7. PICK n \in UploadingCalls : /\ uploading' = [uploading EXCEPT ![k] = n]
                                  /\ n.pc \in {"ocr", "resting"} /\ (n.pc = "ocr" => n.doc = d)
  <2>1. Done \in UploadingCalls /\ Done.pc = "resting"
    BY Marks DEF Done, UploadingCalls
  <2> QED
    BY <1>1, <1>2, <1>3, <2>1 DEF processDocumentOcr, UploadStep
<1>8. /\ uploading'[k] = n /\ \A j \in Clients \ {k} : uploading'[j] = uploading[j]
      /\ documents'[d] = next /\ \A e \in Uploads \ {d} : documents'[e] = documents[e]
  BY <1>6, <1>7 DEF UploadsInv
<1>9. \A e \in Uploads : /\ documents'[e] = Unused <=> documents[e] = Unused
                         /\ documents[e] # Unused => documents'[e].app = documents[e].app
  BY <1>4, <1>5, <1>8, FilesAre
<1>10. UNCHANGED <<documentList, contested>>
  BY DEF processDocumentOcr
<1>11. \A j \in Clients : /\ uploading[j].pc # "resting" => uploading[j].doc \in Uploads
                          /\ uploading[j].pc = "saveList" => uploading[j].list \subseteq Uploads
  BY UploadingFields DEF UploadsInv
<1>12. \A j \in Clients : (Listing(j)' <=> Listing(j)) /\ (Listing(j) => uploading'[j] = uploading[j])
  BY <1>1, <1>2, <1>7, <1>8 DEF Listing
<1>13. ASSUME NEW j \in Clients
       PROVE  /\ uploading'[j].pc # "resting" => documents'[uploading'[j].doc] # Unused
              /\ Listing(j)' => documents'[uploading'[j].doc].app = uploading'[j].app
  <2>1. CASE j = k
    BY <1>2, <1>3, <1>7, <1>8, <1>9, <1>12, <2>1 DEF Listing
  <2>2. CASE j # k
    BY <1>8, <1>9, <1>11, <1>12, <2>2, UploadingFields DEF UploadsInv, Listing
  <2> QED
    BY <2>1, <2>2
<1>14. ASSUME NEW j \in Clients, uploading'[j].pc = "saveList", NEW e \in uploading'[j].list
       PROVE  documents'[e] # Unused
  <2>1. uploading'[j] = uploading[j]
    BY <1>7, <1>8, <1>14
  <2>2. uploading[j].pc = "saveList" /\ e \in uploading[j].list
    BY <1>14, <2>1
  <2>3. e \in Uploads
    BY <1>11, <2>2
  <2>4. documents[e] # Unused
    BY <2>2 DEF UploadsInv
  <2> QED
    BY <1>9, <2>3, <2>4
<1>15. \A b \in Applications : \A e \in documentList'[b] : documents'[e] # Unused
  BY <1>9, <1>10 DEF UploadsInv
<1>16. \A b \in Applications, j \in Clients :
           (HasList(j, b)' <=> HasList(j, b)) /\ (HasList(j, b) => uploading'[j] = uploading[j])
  BY <1>12, <1>1, <1>2, <1>7, <1>8 DEF HasList
<1>17. \A e \in Uploads : documents'[e] # Unused =>
           \/ documents'[e].app \in contested' \/ e \in documentList'[documents'[e].app]
           \/ \E j \in Clients : Listing(j)' /\ uploading'[j].doc = e
  BY <1>9, <1>10, <1>12 DEF UploadsInv
<1>18. /\ documents' \in [Uploads -> FileRecord \union {Unused}] /\ uploading' \in [Clients -> UploadingCalls]
  BY <1>6, <1>7 DEF UploadsInv
<1>19. \A b \in Applications \ contested' :
           /\ \A j \in Clients : HasList(j, b)' => uploading'[j].list = documentList'[b]
           /\ \A i, j \in Clients : HasList(i, b)' /\ HasList(j, b)' => i = j
  BY <1>10, <1>16 DEF UploadsInv
<1> QED
  BY <1>10, <1>13, <1>14, <1>15, <1>17, <1>18, <1>19 DEF UploadsInv

LEMMA UploadsShow == UploadsInv => UploadedIsListed
<1> SUFFICES ASSUME UploadsInv PROVE UploadedIsListed
  OBVIOUS
<1>1. \A d \in Uploads : OnRecord(documents[d]) <=> documents[d] # Unused
  BY FilesAre DEF UploadsInv, OnRecord
<1> QED
  BY <1>1 DEF UploadsInv, UploadedIsListed, Listing

LEMMA OnboardingTyped == OnboardingInv /\ UploadsInv => OnboardingTypeOK
<1> SUFFICES ASSUME OnboardingInv, UploadsInv PROVE OnboardingTypeOK
  OBVIOUS
<1>1. \A d \in Uploads : documents[d].status \in {"unused", "uploaded", "processing", "processed"}
  BY Marks DEF UploadsInv, FileRecord
<1> QED
  BY <1>1 DEF OnboardingInv, UploadsInv, OnboardingTypeOK, OnRecord

\* Both together, under either service's steps.
LEMMA EditsKeepBoth ==
    OnboardingInv /\ UploadsInv /\ OnboardingNext => OnboardingInv' /\ UploadsInv'
<1> SUFFICES ASSUME OnboardingInv, UploadsInv, OnboardingNext PROVE OnboardingInv' /\ UploadsInv'
  OBVIOUS
<1>1. OnboardingInv'
  BY OnboardingKept
<1>2. UNCHANGED UploadVars /\ contested \subseteq contested'
  BY DEF OnboardingNext, ApplicationExpires, PostApplication, PutPersonalInfo, PutBusinessInfo, PostAddress,
         PostIdentityDocument, PostBankAccount, PostSubmission, PostApproval, PostRejection, createApplication,
         updatePersonalInfo, updateBusinessInfo, addAddress, addIdentityDocument, addBankAccount,
         submitApplication, approveApplication, rejectApplication, saveApplication, verifyIdentityDocument,
         verifyBankAccount, Edits, UploadVars
<1>3. contested' \subseteq Applications
  BY <1>1 DEF OnboardingInv
<1> QED
  BY <1>1, <1>2, <1>3, EditsLeaveUploads

LEMMA UploadsKeepBoth ==
    OnboardingInv /\ UploadsInv /\ UploadsNext => OnboardingInv' /\ UploadsInv'
<1> SUFFICES ASSUME OnboardingInv, UploadsInv, NEW k \in Clients,
                    \/ PostApplication(k)
                    \/ uploading[k] = Resting /\ PostDocument(k)
                    \/ readDocumentList(k) \/ saveDocumentList(k) \/ processDocumentOcr(k)
             PROVE  OnboardingInv' /\ UploadsInv'
  BY DEF UploadsNext
<1>1. CASE PostApplication(k)
  <2>1. OnboardingInv' /\ UNCHANGED UploadVars /\ UNCHANGED contested
    BY <1>1, CreatingKeeps
  <2> QED
    BY <2>1, EditsLeaveUploads DEF UploadsInv
<1>2. CASE uploading[k] = Resting /\ PostDocument(k)
  <2>1. PICK a \in Applications, d \in Uploads, image \in BOOLEAN : uploadDocument(k, a, d, image)
    BY <1>2 DEF PostDocument
  <2>2. UploadsInv'
    BY <1>2, <2>1, UploadDocumentKeeps
  <2> QED
    BY <2>1, <2>2, UploadsLeaveApplications DEF uploadDocument, UploadStep, OnboardingInv
<1>3. CASE readDocumentList(k)
  <2>1. UploadsInv'
    BY <1>3, ReadListKeeps
  <2>2. contested \subseteq contested' /\ UNCHANGED <<applications, applying, intended>>
    BY <1>3 DEF readDocumentList, UploadStep
  <2> QED
    BY <2>1, <2>2, UploadsLeaveApplications DEF UploadsInv
<1>4. CASE saveDocumentList(k)
  <2>1. UploadsInv'
    BY <1>4, SaveListKeeps
  <2> QED
    BY <1>4, <2>1, UploadsLeaveApplications DEF saveDocumentList, UploadStep, OnboardingInv
<1>5. CASE processDocumentOcr(k)
  <2>1. UploadsInv'
    BY <1>5, OcrKeeps
  <2> QED
    BY <1>5, <2>1, UploadsLeaveApplications DEF processDocumentOcr, UploadStep, OnboardingInv
<1> QED
  BY <1>1, <1>2, <1>3, <1>4, <1>5

-----------------------------------------------------------------------------
\* Users, tokens and API keys.

Tokens == [user : Users, role : Roles, late : BOOLEAN]
ServingCalls ==
    {Resting} \union [pc : {"insertUser"}, signs : BOOLEAN, row : UserRow]
    \union [pc : {"signIn"}, user : Users, role : Roles, password : Nat]
    \union [pc : {"changePassword"}, user : Users, password : Nat] \union [pc : {"resetPassword"}, user : Users]
    \union [pc : {"setScore"}, user : Users, by : Users, about : SUBSET Users]
    \union [pc : {"answer"}, by : Users, about : SUBSET Users]
    \union [pc : {"setUser"}, user : Users, row : UserRow] \union [pc : {"deleteUser"}, user : Users]
    \union [pc : {"insertKey"}, row : KeyRow] \union [pc : {"setKey"}, key : Keys, isActive : BOOLEAN]
    \union [pc : {"deleteKey"}, key : Keys]
Changing(k, u) == serving[k].pc \in {"setUser", "deleteUser"} /\ serving[k].user = u

\* Whoever may still be logged in: welcome, by the password in force.
InForce(call) == Welcome(call.user) /\ passwords[call.user] = call.password

\* Whoever is logging in was known and is, unless barred meanwhile; whoever's row is being
\* changed has one, with the address the change was read with, or is gone.
UsersInv ==
    /\ userRows \in [Users -> UserRow \union {Unused, Gone}]
    /\ keyRows \in [Keys -> KeyRow \union {Unused}]
    /\ tokens \subseteq Tokens /\ serving \in [Clients -> ServingCalls]
    /\ \A k \in Clients : serving[k].pc = "signIn" => InForce(serving[k]) \/ serving[k].user \in barred
    /\ passwords \in [Users -> Nat]
    /\ \A k \in Clients, u \in Users : Changing(k, u) =>
           /\ userRows[u] # Unused
           /\ serving[k].pc = "setUser" /\ Registered(u) => userRows[u].email = serving[k].row.email
    /\ SessionsAreWelcome /\ UsersAreDistinct

LEMMA RowsAre ==
    /\ Unused \notin UserRow /\ Gone \notin UserRow /\ Gone # Unused /\ Unused \notin KeyRow /\ Expired \notin KeyRow
    /\ Unused # Expired
  BY Marks DEF UserRow, KeyRow, Gone, Unused, Expired

LEMMA ServingFields ==
    ASSUME NEW call \in ServingCalls
    PROVE  /\ call.pc = "insertUser" => call.row \in UserRow
           /\ call.pc = "signIn" => call.user \in Users /\ call.role \in Roles /\ call.password \in Nat
           /\ call.pc = "changePassword" => call.user \in Users /\ call.password \in Nat
           /\ call.pc = "resetPassword" => call.user \in Users
           /\ call.pc = "setScore" => call.user \in Users
           /\ call.pc = "setUser" => call.user \in Users /\ call.row \in UserRow
           /\ call.pc = "deleteUser" => call.user \in Users
           /\ call.pc = "insertKey" => call.row \in KeyRow
           /\ call.pc = "setKey" => call.key \in Keys /\ call.isActive \in BOOLEAN
           /\ call.pc = "deleteKey" => call.key \in Keys
<1>1. CASE call = Resting
  BY <1>1, Marks
<1>2. CASE call \in [pc : {"insertUser"}, signs : BOOLEAN, row : UserRow]
  BY <1>2
<1>3. CASE call \in [pc : {"signIn"}, user : Users, role : Roles, password : Nat]
  BY <1>3
<1>4. CASE call \in [pc : {"setUser"}, user : Users, row : UserRow]
  BY <1>4
<1>5. CASE call \in [pc : {"deleteUser"}, user : Users]
  BY <1>5
<1>6. CASE call \in [pc : {"insertKey"}, row : KeyRow]
  BY <1>6
<1>7. CASE call \in [pc : {"setKey"}, key : Keys, isActive : BOOLEAN]
  BY <1>7
<1>8. CASE call \in [pc : {"deleteKey"}, key : Keys]
  BY <1>8
<1>9. CASE call \in [pc : {"changePassword"}, user : Users, password : Nat] \union [pc : {"resetPassword"}, user : Users]
  BY <1>9
<1>10. CASE call \in [pc : {"setScore"}, user : Users, by : Users, about : SUBSET Users]
                     \union [pc : {"answer"}, by : Users, about : SUBSET Users]
  BY <1>10
<1> QED
  BY <1>1, <1>2, <1>3, <1>4, <1>5, <1>6, <1>7, <1>8, <1>9, <1>10 DEF ServingCalls

LEMMA UsersInitially == UsersInit => UsersInv
<1> SUFFICES ASSUME UsersInit PROVE UsersInv
  OBVIOUS
<1>1. [email |-> FoundersEmail, role |-> "admin", isActive |-> TRUE] \in UserRow
  BY UsersAssumption DEF UserRow
<1>2. userRows \in [Users -> UserRow \union {Unused, Gone}] /\ \A u \in Users : Registered(u) => u = Founder
  BY <1>1, RowsAre DEF UsersInit, Registered
<1>3. serving \in [Clients -> ServingCalls] /\ \A k \in Clients : serving[k].pc = "resting"
  BY Marks DEF UsersInit, ServingCalls
<1>4. \A i \in Keys : ~OnRecord(keyRows[i])
  BY DEF UsersInit, OnRecord
<1> QED
  BY <1>2, <1>3, <1>4 DEF UsersInit, UsersInv, SessionsAreWelcome, UsersAreDistinct, Changing

\* A call begins or ends and the rows stay as they are.
LEMMA ServingKeeps ==
    ASSUME UsersInv, NEW k \in Clients, NEW n \in ServingCalls, serving' = [serving EXCEPT ![k] = n],
           UNCHANGED <<userRows, keyRows, passwords, barred>>, tokens' \subseteq Tokens, SessionsAreWelcome',
           n.pc = "signIn" => InForce(n) \/ n.user \in barred,
           n.pc \in {"setUser", "deleteUser"} => userRows[n.user] # Unused,
           n.pc = "setUser" /\ Registered(n.user) => userRows[n.user].email = n.row.email
    PROVE  UsersInv'
<1>1. serving'[k] = n /\ \A j \in Clients \ {k} : serving'[j] = serving[j]
  BY DEF UsersInv
<1>2. \A u : (Welcome(u)' <=> Welcome(u)) /\ (Registered(u)' <=> Registered(u))
  BY DEF Welcome, Registered
<1>3. \A j \in Clients : serving'[j].pc = "signIn" => InForce(serving[j])' \/ serving'[j].user \in barred'
  BY <1>1, <1>2 DEF UsersInv, InForce
<1>4. \A j \in Clients, u \in Users : Changing(j, u)' =>
           /\ userRows'[u] # Unused
           /\ serving'[j].pc = "setUser" /\ Registered(u)' => userRows'[u].email = serving'[j].row.email
  BY <1>1, <1>2 DEF UsersInv, Changing
<1>5. UsersAreDistinct'
  BY <1>2 DEF UsersInv, UsersAreDistinct
<1> QED
  BY <1>3, <1>4, <1>5 DEF UsersInv

Shows(k, token) ==
    \/ getUsers(k, token) \/ getUser(k, token) \/ me(k, token) \/ getScore(k, token) \/ getReport(k, token)
    \/ getDashboard(k, token) \/ logout(k, token)

LEMMA Shown ==
    ASSUME NEW k \in Clients, NEW token \in Tokens, Shows(k, token)
    PROVE  \E about \in SUBSET Users :
              Show(k, token, about) /\ (IsStaff(token) \/ about \subseteq {token.user})
<1>1. token.user \in Users /\ (IsAdmin(token) => IsStaff(token))
  BY DEF Tokens, IsAdmin, IsStaff, StaffRoles
<1>2. CASE getUsers(k, token) \/ getDashboard(k, token)
  BY <1>1, <1>2 DEF getUsers, getDashboard
<1>3. CASE me(k, token) \/ getScore(k, token)
  BY <1>1, <1>3 DEF me, getScore
<1>4. CASE logout(k, token)
  BY <1>4 DEF logout
<1>5. CASE getUser(k, token) \/ getReport(k, token)
  <2>1. PICK u \in Users : Show(k, token, {u}) /\ (IsAdmin(token) \/ token.user = u)
    BY <1>5 DEF getUser, getReport, requireUserAccess
  <2> QED
    BY <1>1, <2>1
<1> QED
  BY <1>2, <1>3, <1>4, <1>5 DEF Shows

LEMMA ServedCallsKeep ==
    ASSUME UsersInv, NEW k \in Clients,
           \/ register(k) \/ login(k)
           \/ \E token \in tokens :
                 \/ createUser(k, token) \/ updateUser(k, token) \/ deleteUser(k, token)
                 \/ createApiKey(k, token) \/ updateApiKey(k, token) \/ deleteApiKey(k, token)
                 \/ changePassword(k, token) \/ updateUserPassword(k, token) \/ calculateScore(k, token)
                 \/ Shows(k, token)
    PROVE  UsersInv'
<1>1. ASSUME NEW n \in ServingCalls, Serve(k, n),
             n.pc = "signIn" => InForce(n),
             n.pc \in {"setUser", "deleteUser"} => userRows[n.user] # Unused,
           n.pc = "setUser" /\ Registered(n.user) => userRows[n.user].email = n.row.email
      PROVE  UsersInv'
  <2>1. tokens' \subseteq Tokens /\ SessionsAreWelcome'
    BY <1>1 DEF Serve, UsersInv, SessionsAreWelcome
  <2> QED
    BY <1>1, <2>1, ServingKeeps DEF Serve
<1>2. CASE register(k)
  <2>1. PICK e \in Emails : Serve(k, [pc |-> "insertUser", signs |-> TRUE,
                                      row |-> [email |-> e, role |-> "user", isActive |-> TRUE]])
    BY <1>2 DEF register
  <2>2. [email |-> e, role |-> "user", isActive |-> TRUE] \in UserRow
    BY UsersAssumption DEF UserRow
  <2>3. [pc |-> "insertUser", signs |-> TRUE, row |-> [email |-> e, role |-> "user", isActive |-> TRUE]]
            \in ServingCalls
    BY <2>2 DEF ServingCalls
  <2> QED
    BY <1>1, <2>1, <2>3
<1>3. CASE login(k)
  <2>1. PICK u \in Users : Welcome(u) /\ Serve(k, [pc |-> "signIn", user |-> u, role |-> userRows[u].role,
                                                   password |-> passwords[u]])
    BY <1>3 DEF login
  <2>2. PICK role \in Roles, password \in Nat : role = userRows[u].role /\ password = passwords[u]
    BY <2>1 DEF Welcome, Registered, UserRow, UsersInv
  <2>3. PICK n \in ServingCalls : n = [pc |-> "signIn", user |-> u, role |-> role, password |-> password]
    BY DEF ServingCalls
  <2>4. InForce(n) /\ Serve(k, n) /\ n.pc = "signIn"
    BY <2>1, <2>2, <2>3 DEF InForce
  <2> QED
    BY <1>1, <2>4
<1>4. ASSUME NEW token \in tokens, createUser(k, token) PROVE UsersInv'
  <2>1. PICK row \in UserRow : Serve(k, [pc |-> "insertUser", signs |-> FALSE, row |-> row])
    BY <1>4 DEF createUser
  <2>2. [pc |-> "insertUser", signs |-> FALSE, row |-> row] \in ServingCalls
    BY DEF ServingCalls
  <2> QED
    BY <1>1, <2>1, <2>2
<1>5. ASSUME NEW token \in tokens, updateUser(k, token) PROVE UsersInv'
  <2>2. PICK v \in Users : \E after \in UserRow :
            /\ Registered(v) /\ after.email = userRows[v].email
            /\ Serve(k, [pc |-> "setUser", user |-> v, row |-> after])
    BY <1>5 DEF updateUser
  <2>3. PICK after \in UserRow : /\ Registered(v) /\ after.email = userRows[v].email
                                 /\ Serve(k, [pc |-> "setUser", user |-> v, row |-> after])
    BY <2>2
  <2>4. [pc |-> "setUser", user |-> v, row |-> after] \in ServingCalls
    BY DEF ServingCalls
  <2>5. userRows[v] # Unused
    BY <2>3, RowsAre DEF Registered
  <2> QED
    BY <1>1, <2>3, <2>4, <2>5
<1>6. ASSUME NEW token \in tokens, deleteUser(k, token) PROVE UsersInv'
  <2>1. PICK u \in Users : userRows[u] # Unused /\ Serve(k, [pc |-> "deleteUser", user |-> u])
    BY <1>6, RowsAre DEF deleteUser, Registered
  <2>2. [pc |-> "deleteUser", user |-> u] \in ServingCalls
    BY DEF ServingCalls
  <2> QED
    BY <1>1, <2>1, <2>2
<1>7. ASSUME NEW token \in tokens, createApiKey(k, token) PROVE UsersInv'
  <2>1. token.user \in Users /\ Serve(k, [pc |-> "insertKey", row |-> [user |-> token.user, isActive |-> TRUE]])
    BY <1>7 DEF createApiKey, UsersInv, Tokens
  <2>2. [pc |-> "insertKey", row |-> [user |-> token.user, isActive |-> TRUE]] \in ServingCalls
    BY <2>1 DEF ServingCalls, KeyRow
  <2> QED
    BY <1>1, <2>1, <2>2
<1>8. ASSUME NEW token \in tokens, updateApiKey(k, token) PROVE UsersInv'
  <2>1. PICK i \in Keys : \E active \in BOOLEAN : Serve(k, [pc |-> "setKey", key |-> i, isActive |-> active])
    BY <1>8 DEF updateApiKey
  <2>2. PICK active \in BOOLEAN : Serve(k, [pc |-> "setKey", key |-> i, isActive |-> active])
    BY <2>1
  <2>3. [pc |-> "setKey", key |-> i, isActive |-> active] \in ServingCalls
    BY DEF ServingCalls
  <2> QED
    BY <1>1, <2>2, <2>3
<1>9. ASSUME NEW token \in tokens, deleteApiKey(k, token) PROVE UsersInv'
  <2>1. PICK i \in Keys : Serve(k, [pc |-> "deleteKey", key |-> i])
    BY <1>9 DEF deleteApiKey
  <2>2. [pc |-> "deleteKey", key |-> i] \in ServingCalls
    BY DEF ServingCalls
  <2> QED
    BY <1>1, <2>1, <2>2
<1>10. ASSUME NEW token \in tokens, changePassword(k, token) PROVE UsersInv'
  <2>1. PICK u \in Users, password \in Nat : u = token.user /\ password = passwords[u]
    BY DEF UsersInv, Tokens
  <2>2. PICK n \in ServingCalls : n = [pc |-> "changePassword", user |-> u, password |-> password]
    BY DEF ServingCalls
  <2>3. Serve(k, n) /\ n.pc = "changePassword"
    BY <1>10, <2>1, <2>2 DEF changePassword
  <2> QED
    BY <1>1, <2>3
<1>11. ASSUME NEW token \in tokens, updateUserPassword(k, token) PROVE UsersInv'
  <2>1. PICK u \in Users : Serve(k, [pc |-> "resetPassword", user |-> u])
    BY <1>11 DEF updateUserPassword
  <2>2. [pc |-> "resetPassword", user |-> u] \in ServingCalls
    BY DEF ServingCalls
  <2> QED
    BY <1>1, <2>1, <2>2
<1>12. ASSUME NEW token \in tokens, calculateScore(k, token) PROVE UsersInv'
  <2>1. PICK u \in Users, by \in Users :
            by = token.user /\ Serve(k, [pc |-> "setScore", user |-> u, by |-> by, about |-> {u}])
    BY <1>12 DEF calculateScore, UsersInv, Tokens
  <2>2. [pc |-> "setScore", user |-> u, by |-> by, about |-> {u}] \in ServingCalls
    BY DEF ServingCalls
  <2> QED
    BY <1>1, <2>1, <2>2
<1>13. ASSUME NEW token \in tokens, Shows(k, token) PROVE UsersInv'
  <2>1. token \in Tokens
    BY DEF UsersInv
  <2>2. PICK about \in SUBSET Users, by \in Users :
            by = token.user /\ Serve(k, [pc |-> "answer", by |-> by, about |-> about])
    BY <1>13, <2>1, Shown DEF Show, Tokens
  <2>3. [pc |-> "answer", by |-> by, about |-> about] \in ServingCalls
    BY DEF ServingCalls
  <2> QED
    BY <1>1, <2>2, <2>3
<1> QED
  BY <1>2, <1>3, <1>4, <1>5, <1>6, <1>7, <1>8, <1>9, <1>10, <1>11, <1>12, <1>13

LEMMA SigningKeeps ==
    ASSUME UsersInv, NEW user \in Users, NEW role \in Roles, NEW late \in BOOLEAN, late => user \in barred,
           Sign([user |-> user, role |-> role, late |-> late]), barred \subseteq barred'
    PROVE  tokens' \subseteq Tokens /\ SessionsAreWelcome'
<1>1. PICK token \in Tokens : token = [user |-> user, role |-> role, late |-> late]
  <2>1. [user |-> user, role |-> role, late |-> late] \in Tokens
    BY DEF Tokens
  <2> QED
    BY <2>1
<1>2. tokens' = tokens \union {token}
  BY <1>1 DEF Sign
<1>3. token.late => token.user \in barred
  BY <1>1
<1> QED
  BY <1>2, <1>3 DEF UsersInv, SessionsAreWelcome

LEMMA SamePeople ==
    ASSUME UsersInv, UNCHANGED <<userRows, keyRows, serving, passwords, barred>>, tokens' \subseteq Tokens,
           SessionsAreWelcome'
    PROVE  UsersInv'
<1>1. \A u : (Welcome(u)' <=> Welcome(u)) /\ (Registered(u)' <=> Registered(u))
  BY DEF Welcome, Registered
<1> QED
  BY <1>1 DEF UsersInv, UsersAreDistinct, Changing, InForce

LEMMA InsertUserKeeps ==
    ASSUME UsersInv, NEW k \in Clients, InsertUser(k)
    PROVE  UsersInv'
<1>1. PICK row \in UserRow : row = serving[k].row
  BY ServingFields DEF InsertUser, UsersInv
<1>2. Resting \in ServingCalls /\ Resting.pc = "resting"
  BY Marks DEF ServingCalls
<1>3. serving' = [serving EXCEPT ![k] = Resting] /\ UNCHANGED <<keyRows, passwords, barred>>
  BY DEF InsertUser, Written, UnchangedSecrets
<1>4. CASE UNCHANGED <<userRows, tokens>>
  BY <1>2, <1>3, <1>4, ServingKeeps DEF UsersInv, SessionsAreWelcome
<1>5. CASE ~UNCHANGED <<userRows, tokens>>
  <2>1. ~Taken(row.email) /\ NewUsers # {} /\ userRows' = [userRows EXCEPT ![NewUser] = row]
    BY <1>1, <1>5 DEF InsertUser
  <2>2. PICK w \in Users : w = NewUser /\ userRows[w] = Unused
    <3>1. NewUser \in NewUsers
      BY <2>1 DEF NewUser
    <3> QED
      BY <3>1 DEF NewUsers
  <2>3. userRows'[w] = row /\ \A u \in Users \ {w} : userRows'[u] = userRows[u]
    BY <2>1, <2>2 DEF UsersInv
  <2>4. tokens' \subseteq Tokens /\ SessionsAreWelcome'
    <3>1. CASE UNCHANGED tokens
      BY <1>3, <3>1 DEF UsersInv, SessionsAreWelcome
    <3>2. CASE Sign([user |-> w, role |-> "user", late |-> FALSE])
      BY <1>3, <3>2, UsersAssumption, SigningKeeps
    <3> QED
      BY <1>5, <2>1, <2>2, <3>1, <3>2 DEF InsertUser
  <2>5. serving'[k] = Resting /\ \A j \in Clients \ {k} : serving'[j] = serving[j]
    BY <1>3 DEF UsersInv
  <2>6. Registered(w)' /\ ~Registered(w) /\ ~Welcome(w)
    BY <2>2, <2>3, RowsAre DEF Registered, Welcome
  <2>7. \A u \in Users \ {w} : (Registered(u)' <=> Registered(u)) /\ (Welcome(u)' <=> Welcome(u))
    BY <2>3 DEF Registered, Welcome
  <2>8. \A j \in Clients : serving'[j].pc = "signIn" => InForce(serving[j])' \/ serving'[j].user \in barred'
    BY <1>2, <1>3, <2>5, <2>6, <2>7, ServingFields DEF UsersInv, InForce
  <2>9. \A j \in Clients, u \in Users : Changing(j, u)' =>
           /\ userRows'[u] # Unused
           /\ serving'[j].pc = "setUser" /\ Registered(u)' => userRows'[u].email = serving'[j].row.email
    BY <1>2, <2>2, <2>3, <2>5, <2>7 DEF UsersInv, Changing
  <2>10. \A u \in Users \ {w} : Registered(u) => userRows[u].email # row.email
    BY <2>1 DEF Taken
  <2>11. \A u, v \in Users : Registered(u)' /\ Registered(v)' /\ u # v => userRows'[u].email # userRows'[v].email
    BY <2>3, <2>7, <2>10 DEF UsersInv, UsersAreDistinct
  <2>12. \A i \in Keys : OnRecord(keyRows'[i]) => Registered(keyRows[i].user)'
    <3>1. \A i \in Keys : OnRecord(keyRows[i]) => keyRows[i].user \in Users
      BY DEF UsersInv, OnRecord, KeyRow
    <3> QED
      BY <1>3, <2>6, <2>7, <3>1 DEF UsersInv, UsersAreDistinct
  <2>13. userRows' \in [Users -> UserRow \union {Unused, Gone}] /\ serving' \in [Clients -> ServingCalls]
    BY <1>2, <1>3, <2>1 DEF UsersInv
  <2> QED
    BY <1>3, <2>4, <2>8, <2>9, <2>11, <2>12, <2>13 DEF UsersInv, UsersAreDistinct
<1> QED
  BY <1>4, <1>5

LEMMA SignInKeeps ==
    ASSUME UsersInv, NEW k \in Clients, SignIn(k)
    PROVE  UsersInv'
<1>1. PICK user \in Users : user = serving[k].user
  BY ServingFields DEF SignIn, UsersInv
<1>2. PICK role \in Roles : role = serving[k].role
  BY ServingFields DEF SignIn, UsersInv
<1>3. PICK late \in BOOLEAN : late = (~Welcome(user) \/ passwords[user] # serving[k].password)
  OBVIOUS
<1>4. Sign([user |-> user, role |-> role, late |-> late]) /\ UNCHANGED <<userRows, keyRows, passwords, barred>>
      /\ serving' = [serving EXCEPT ![k] = Resting]
  BY <1>1, <1>2, <1>3 DEF SignIn, Written, UnchangedUsers, UnchangedSecrets
<1>5. late => user \in barred
  BY <1>1, <1>3 DEF SignIn, UsersInv, InForce
<1>6. tokens' \subseteq Tokens /\ SessionsAreWelcome'
  BY <1>4, <1>5, SigningKeeps
<1>7. Resting \in ServingCalls /\ Resting.pc = "resting"
  BY Marks DEF ServingCalls
<1> QED
  BY <1>4, <1>6, <1>7, ServingKeeps

LEMMA RefreshKeeps ==
    ASSUME UsersInv, NEW token \in tokens, refresh(token)
    PROVE  UsersInv'
<1>1. PICK user \in Users, role \in Roles : user = token.user /\ role = token.role
  BY DEF UsersInv, Tokens
<1>2. PICK late \in BOOLEAN : late = FALSE
  OBVIOUS
<1>3. Sign([user |-> user, role |-> role, late |-> late]) /\ UNCHANGED <<userRows, keyRows, serving, passwords, barred>>
  BY <1>1, <1>2 DEF refresh, Signed, UnchangedUsers, UnchangedSecrets
<1>4. tokens' \subseteq Tokens /\ SessionsAreWelcome'
  BY <1>2, <1>3, SigningKeeps
<1> QED
  BY <1>3, <1>4, SamePeople

\* A user's row is changed or marked as deleted: the address stays, and whoever is logging in
\* and no longer welcome is barred.
LEMMA ChangingUsersKeeps ==
    ASSUME UsersInv, NEW k \in Clients, NEW w \in Users, NEW row \in UserRow \union {Gone},
           userRows[w] # Unused, row \in UserRow => Registered(w) /\ row.email = userRows[w].email,
           userRows' = [userRows EXCEPT ![w] = row], serving' = [serving EXCEPT ![k] = Resting],
           serving[k].pc # "signIn", barred \subseteq barred',
           LoggingIn(w) => w \in barred' \/ (row \in UserRow /\ row.isActive),
           row = Gone => \A i \in Keys : OnRecord(keyRows[i]) => keyRows[i].user # w,
           UNCHANGED <<tokens, keyRows, passwords>>
    PROVE  UsersInv'
<1>1. userRows'[w] = row /\ \A u \in Users \ {w} : userRows'[u] = userRows[u]
  BY DEF UsersInv
<1>2. serving'[k] = Resting /\ \A j \in Clients \ {k} : serving'[j] = serving[j]
  BY DEF UsersInv
<1>3. Registered(w)' <=> row \in UserRow
  BY <1>1 DEF Registered
<1>4. \A u \in Users \ {w} : (Registered(u)' <=> Registered(u)) /\ (Welcome(u)' <=> Welcome(u))
  BY <1>1 DEF Registered, Welcome
<1>5. ASSUME NEW j \in Clients, serving'[j].pc = "signIn"
      PROVE  InForce(serving[j])' \/ serving'[j].user \in barred'
  <2>1. j # k /\ serving'[j] = serving[j]
    BY <1>2, <1>5, Marks
  <2>2. PICK u \in Users : u = serving[j].user
    BY <1>5, <2>1, ServingFields DEF UsersInv
  <2>3. CASE u = w
    <3>1. LoggingIn(w) /\ serving'[j].user = w
      BY <1>5, <2>1, <2>2, <2>3 DEF LoggingIn
    <3>2. Welcome(w)' \/ w \in barred'
      BY <1>1, <1>3, <3>1 DEF Welcome
    <3>3. InForce(serving[j]) \/ w \in barred'
      BY <1>5, <2>1, <2>2, <2>3 DEF UsersInv
    <3> QED
      BY <2>1, <2>2, <2>3, <3>1, <3>2, <3>3 DEF InForce
  <2>4. CASE u # w
    BY <1>4, <1>5, <2>1, <2>2, <2>4 DEF UsersInv, InForce
  <2> QED
    BY <2>3, <2>4
<1>6. ASSUME NEW j \in Clients, NEW u \in Users, Changing(j, u)'
      PROVE  /\ userRows'[u] # Unused
             /\ serving'[j].pc = "setUser" /\ Registered(u)' => userRows'[u].email = serving'[j].row.email
  <2>1. j # k /\ serving'[j] = serving[j] /\ Changing(j, u)
    BY <1>2, <1>6, Marks DEF Changing
  <2>2. CASE u = w
    BY <1>1, <1>3, <2>1, <2>2, RowsAre DEF UsersInv
  <2>3. CASE u # w
    BY <1>1, <1>4, <2>1, <2>3 DEF UsersInv
  <2> QED
    BY <2>2, <2>3
<1>7. \A u \in Users : Registered(u)' => Registered(u) /\ userRows'[u].email = userRows[u].email
  BY <1>1, <1>3, <1>4
<1>8. \A u, v \in Users : Registered(u)' /\ Registered(v)' /\ u # v => userRows'[u].email # userRows'[v].email
  BY <1>7 DEF UsersInv, UsersAreDistinct
<1>9. ASSUME NEW i \in Keys, OnRecord(keyRows[i])' PROVE Registered(keyRows[i].user)'
  <2>1. keyRows[i].user \in Users /\ Registered(keyRows[i].user)
    BY <1>9 DEF UsersInv, UsersAreDistinct, OnRecord, KeyRow
  <2>2. CASE keyRows[i].user = w
    BY <1>3, <1>9, <2>2
  <2>3. CASE keyRows[i].user # w
    BY <1>4, <2>1, <2>3
  <2> QED
    BY <2>2, <2>3
<1>10. Resting \in ServingCalls
  BY DEF ServingCalls
<1>11. userRows' \in [Users -> UserRow \union {Unused, Gone}] /\ serving' \in [Clients -> ServingCalls]
  BY <1>10 DEF UsersInv
<1>12. SessionsAreWelcome'
  BY DEF UsersInv, SessionsAreWelcome
<1> QED
  BY <1>5, <1>6, <1>8, <1>9, <1>11, <1>12 DEF UsersInv, UsersAreDistinct

LEMMA EndingACallKeeps ==
    ASSUME UsersInv, NEW k \in Clients, serving' = [serving EXCEPT ![k] = Resting],
           UNCHANGED <<userRows, tokens, keyRows, passwords>>, barred \subseteq barred'
    PROVE  UsersInv'
<1>1. serving'[k] = Resting /\ \A j \in Clients \ {k} : serving'[j] = serving[j]
  BY DEF UsersInv
<1>2. \A u : (Welcome(u)' <=> Welcome(u)) /\ (Registered(u)' <=> Registered(u))
  BY DEF Welcome, Registered
<1>3. Resting \in ServingCalls /\ Resting.pc = "resting"
  BY Marks DEF ServingCalls
<1> QED
  BY <1>1, <1>2, <1>3 DEF UsersInv, SessionsAreWelcome, UsersAreDistinct, Changing, InForce

LEMMA SetUserKeeps ==
    ASSUME UsersInv, NEW k \in Clients, SetUser(k)
    PROVE  UsersInv'
<1>1. PICK w \in Users, row \in UserRow : w = serving[k].user /\ row = serving[k].row
  BY ServingFields DEF SetUser, UsersInv
<1>2. /\ Changing(k, w) /\ serving[k].pc = "setUser" /\ serving' = [serving EXCEPT ![k] = Resting]
      /\ userRows' = IF Registered(w) THEN [userRows EXCEPT ![w] = row] ELSE userRows
      /\ barred' = IF ~row.isActive /\ LoggingIn(w) THEN barred \union {w} ELSE barred
      /\ UNCHANGED <<tokens, keyRows, passwords>>
  BY <1>1 DEF SetUser, Written, Changing, UnchangedSecrets
<1>3. CASE Registered(w)
  <2>1. userRows[w] # Unused /\ row.email = userRows[w].email /\ row # Gone
    BY <1>1, <1>2, <1>3, RowsAre DEF UsersInv
  <2> QED
    BY <1>2, <1>3, <2>1, ChangingUsersKeeps
<1>4. CASE ~Registered(w)
  BY <1>2, <1>4, EndingACallKeeps
<1> QED
  BY <1>3, <1>4

LEMMA RemoveUserKeeps ==
    ASSUME UsersInv, NEW k \in Clients, RemoveUser(k)
    PROVE  UsersInv'
<1>1. PICK w \in Users : w = serving[k].user
  BY ServingFields DEF RemoveUser, UsersInv
<1>2. /\ serving[k].pc = "deleteUser" /\ serving' = [serving EXCEPT ![k] = Resting]
      /\ UNCHANGED <<tokens, keyRows, passwords>>
  BY DEF RemoveUser, Written, UnchangedSecrets
<1>3. CASE UNCHANGED <<userRows, barred>>
  BY <1>2, <1>3, EndingACallKeeps
<1>4. CASE ~UNCHANGED <<userRows, barred>>
  <2>1. /\ \A i \in Keys : OnRecord(keyRows[i]) => keyRows[i].user # w
        /\ userRows' = [userRows EXCEPT ![w] = Gone]
        /\ barred' = IF LoggingIn(w) THEN barred \union {w} ELSE barred
    BY <1>1, <1>4 DEF RemoveUser
  <2>2. Gone \notin UserRow /\ Gone # Unused
    BY RowsAre
  <2>3. userRows[w] # Unused
    BY <1>1, <1>2 DEF UsersInv, Changing
  <2> QED
    BY <1>2, <2>1, <2>2, <2>3, ChangingUsersKeeps
<1> QED
  BY <1>3, <1>4

LEMMA KeysKeep ==
    ASSUME UsersInv, NEW k \in Clients, InsertKey(k) \/ SetKey(k) \/ RemoveKey(k)
    PROVE  UsersInv'
<1>1. serving' = [serving EXCEPT ![k] = Resting] /\ UNCHANGED <<userRows, tokens, passwords, barred>>
  BY DEF InsertKey, SetKey, RemoveKey, Written, UnchangedUsers, UnchangedSecrets
<1>2. keyRows' \in [Keys -> KeyRow \union {Unused}]
      /\ \A i \in Keys : OnRecord(keyRows'[i]) => Registered(keyRows'[i].user)
  <2>1. CASE InsertKey(k)
    <3>1. PICK row \in KeyRow : row = serving[k].row
      BY <2>1, ServingFields DEF InsertKey, UsersInv
    <3>2. CASE UNCHANGED keyRows
      BY <3>2 DEF UsersInv, UsersAreDistinct
    <3>3. CASE ~UNCHANGED keyRows
      <4>1. PICK i \in Keys : Registered(row.user) /\ keyRows' = [keyRows EXCEPT ![i] = row]
        BY <2>1, <3>1, <3>3 DEF InsertKey
      <4>2. keyRows'[i] = row /\ \A j \in Keys \ {i} : keyRows'[j] = keyRows[j]
        BY <4>1 DEF UsersInv
      <4>3. keyRows' \in [Keys -> KeyRow \union {Unused}]
        BY <4>1 DEF UsersInv
      <4> QED
        BY <4>1, <4>2, <4>3 DEF UsersInv, UsersAreDistinct
    <3> QED
      BY <3>2, <3>3
  <2>2. CASE SetKey(k)
    <3>1. PICK i \in Keys, active \in BOOLEAN : i = serving[k].key /\ active = serving[k].isActive
      BY <2>2, ServingFields DEF SetKey, UsersInv
    <3>2. CASE ~OnRecord(keyRows[i])
      BY <2>2, <3>1, <3>2 DEF SetKey, UsersInv, UsersAreDistinct
    <3>3. CASE OnRecord(keyRows[i])
      <4>1. PICK was \in KeyRow : was = keyRows[i]
        BY <3>3 DEF UsersInv, OnRecord
      <4>2. [was EXCEPT !.isActive = active] \in KeyRow /\ [was EXCEPT !.isActive = active].user = was.user
        BY DEF KeyRow
      <4>3. PICK row \in KeyRow : row = [was EXCEPT !.isActive = active] /\ row.user = was.user
        BY <4>2
      <4>4. keyRows' = [keyRows EXCEPT ![i] = row]
        BY <2>2, <3>1, <3>3, <4>1, <4>3 DEF SetKey, UsersInv
      <4>5. keyRows'[i] = row /\ \A j \in Keys \ {i} : keyRows'[j] = keyRows[j]
        BY <4>4 DEF UsersInv
      <4>6. keyRows' \in [Keys -> KeyRow \union {Unused}]
        BY <4>4 DEF UsersInv
      <4> QED
        BY <3>3, <4>1, <4>3, <4>5, <4>6 DEF UsersInv, UsersAreDistinct
    <3> QED
      BY <3>2, <3>3
  <2>3. CASE RemoveKey(k)
    <3>1. PICK i \in Keys : i = serving[k].key
      BY <2>3, ServingFields DEF RemoveKey, UsersInv
    <3>2. keyRows' = [keyRows EXCEPT ![i] = Unused]
      BY <2>3, <3>1 DEF RemoveKey
    <3>3. keyRows'[i] = Unused /\ \A j \in Keys \ {i} : keyRows'[j] = keyRows[j]
      BY <3>2 DEF UsersInv
    <3>4. keyRows' \in [Keys -> KeyRow \union {Unused}]
      BY <3>2 DEF UsersInv
    <3> QED
      BY <3>3, <3>4 DEF UsersInv, UsersAreDistinct, OnRecord
  <2> QED
    BY <2>1, <2>2, <2>3
<1>3. serving'[k] = Resting /\ \A j \in Clients \ {k} : serving'[j] = serving[j]
  BY <1>1 DEF UsersInv
<1>4. \A u : (Welcome(u)' <=> Welcome(u)) /\ (Registered(u)' <=> Registered(u))
  BY <1>1 DEF Welcome, Registered
<1>5. Resting \in ServingCalls /\ Resting.pc = "resting"
  BY Marks DEF ServingCalls
<1> QED
  BY <1>1, <1>2, <1>3, <1>4, <1>5 DEF UsersInv, SessionsAreWelcome, UsersAreDistinct, Changing, InForce

\* Whoever is logging in while their password is set is barred.
LEMMA ReplaceKeeps ==
    ASSUME UsersInv, NEW k \in Clients, NEW w \in Users, Replace(k, w),
           serving[k].pc \in {"changePassword", "resetPassword"}
    PROVE  UsersInv'
<1>1. serving' = [serving EXCEPT ![k] = Resting] /\ UNCHANGED <<userRows, tokens, keyRows>>
  BY DEF Replace, Written
<1>2. CASE ~Registered(w)
  BY <1>1, <1>2, EndingACallKeeps DEF Replace
<1>3. CASE Registered(w)
  <2>1. /\ passwords' = [passwords EXCEPT ![w] = @ + 1] /\ barred \subseteq barred'
        /\ LoggingIn(w) => w \in barred'
    BY <1>3 DEF Replace
  <2>2. passwords' \in [Users -> Nat] /\ \A u \in Users \ {w} : passwords'[u] = passwords[u]
    BY <2>1 DEF UsersInv
  <2>3. serving'[k] = Resting /\ \A j \in Clients \ {k} : serving'[j] = serving[j]
    BY <1>1 DEF UsersInv
  <2>4. \A u : (Welcome(u)' <=> Welcome(u)) /\ (Registered(u)' <=> Registered(u))
    BY <1>1 DEF Welcome, Registered
  <2>5. Resting \in ServingCalls /\ Resting.pc = "resting"
    BY Marks DEF ServingCalls
  <2>6. ASSUME NEW j \in Clients, serving'[j].pc = "signIn"
        PROVE  InForce(serving[j])' \/ serving'[j].user \in barred'
    <3>1. j # k /\ serving'[j] = serving[j]
      BY <2>3, <2>5, <2>6
    <3>2. PICK u \in Users : u = serving[j].user
      BY <2>6, <3>1, ServingFields DEF UsersInv
    <3>3. CASE u = w
      BY <2>1, <2>6, <3>1, <3>2, <3>3 DEF LoggingIn
    <3>4. CASE u # w
      BY <2>1, <2>2, <2>4, <2>6, <3>1, <3>2, <3>4 DEF UsersInv, InForce
    <3> QED
      BY <3>3, <3>4
  <2>7. \A j \in Clients, u \in Users : Changing(j, u)' =>
           /\ userRows'[u] # Unused
           /\ serving'[j].pc = "setUser" /\ Registered(u)' => userRows'[u].email = serving'[j].row.email
    BY <1>1, <2>3, <2>4, <2>5 DEF UsersInv, Changing
  <2>8. serving' \in [Clients -> ServingCalls]
    BY <1>1, <2>5 DEF UsersInv
  <2> QED
    BY <1>1, <2>1, <2>2, <2>4, <2>6, <2>7, <2>8 DEF UsersInv, SessionsAreWelcome, UsersAreDistinct
<1> QED
  BY <1>2, <1>3

LEMMA SecretsWrittenKeep ==
    ASSUME UsersInv, NEW k \in Clients, ReplacePassword(k) \/ ResetPassword(k) \/ SetScore(k) \/ Answer(k)
    PROVE  UsersInv'
<1>1. CASE ReplacePassword(k) \/ ResetPassword(k)
  <2>1. PICK w \in Users : w = serving[k].user
    BY <1>1, ServingFields DEF ReplacePassword, ResetPassword, UsersInv
  <2> QED
    BY <1>1, <2>1, ReplaceKeeps DEF ReplacePassword, ResetPassword
<1>2. CASE SetScore(k) \/ Answer(k)
  BY <1>2, EndingACallKeeps DEF SetScore, Answer, Written, UnchangedUsers, UnchangedSecrets
<1> QED
  BY <1>1, <1>2

\* The steps of either part.
UserSteps == UsersNext \/ SecretsNext

LEMMA UsersKept == UsersInv /\ [UserSteps]_UsersVars => UsersInv'
<1> SUFFICES ASSUME UsersInv, [UserSteps]_UsersVars PROVE UsersInv'
  OBVIOUS
<1>1. CASE UNCHANGED UsersVars
  BY <1>1, SamePeople DEF UsersVars, UsersInv, SessionsAreWelcome
<1>2. ASSUME NEW token \in tokens, refresh(token) PROVE UsersInv'
  BY <1>2, RefreshKeeps
<1>3. ASSUME NEW k \in Clients,
             \/ register(k) \/ login(k)
             \/ \E token \in tokens :
                   \/ createUser(k, token) \/ updateUser(k, token) \/ deleteUser(k, token)
                   \/ createApiKey(k, token) \/ updateApiKey(k, token) \/ deleteApiKey(k, token)
                   \/ changePassword(k, token) \/ updateUserPassword(k, token) \/ calculateScore(k, token)
                   \/ Shows(k, token)
      PROVE  UsersInv'
  BY <1>3, ServedCallsKeep
<1>4. ASSUME NEW k \in Clients,
             \/ InsertUser(k) \/ SignIn(k) \/ SetUser(k) \/ RemoveUser(k)
             \/ InsertKey(k) \/ SetKey(k) \/ RemoveKey(k)
             \/ ReplacePassword(k) \/ ResetPassword(k) \/ SetScore(k) \/ Answer(k)
      PROVE  UsersInv'
  BY <1>4, InsertUserKeeps, SignInKeeps, SetUserKeeps, RemoveUserKeeps, KeysKeep, SecretsWrittenKeep
<1>5. CASE UsersNext
  BY <1>2, <1>3, <1>4, <1>5 DEF UsersNext
<1>6. CASE SecretsNext
  BY <1>2, <1>3, <1>4, <1>6 DEF SecretsNext, Shows
<1> QED
  BY <1>1, <1>5, <1>6 DEF UserSteps

\* Whoever is shown others, or is to get a token of the staff, was of the staff.
Entitled(call) ==
    /\ call.pc \in {"answer", "setScore"} => call.about \subseteq {call.by} \/ call.by \in staffed
    /\ call.pc = "signIn" /\ call.role \in StaffRoles => call.user \in staffed
TokensOfStaff == \A token \in tokens : IsStaff(token) => token.user \in staffed
RowsOfStaff == \A u \in Users : Registered(u) /\ userRows[u].role \in StaffRoles => u \in staffed
Proved(call) == call.pc = "changePassword" => passwords[call.user] = call.password \/ call.user \in barred
SecretsInv ==
    /\ scores \in [Users -> {0} \union 300 .. 850] /\ PasswordsHold
    /\ \A k \in Clients : Entitled(serving[k]) /\ Proved(serving[k])
    /\ TokensOfStaff /\ RowsOfStaff

LEMMA SecretsInitially == UsersInit => SecretsInv
<1> SUFFICES ASSUME UsersInit PROVE SecretsInv
  OBVIOUS
<1>1. \A k \in Clients : Entitled(serving[k]) /\ Proved(serving[k])
  BY Marks DEF UsersInit, Entitled, Proved
<1>2. RowsOfStaff
  BY RowsAre DEF UsersInit, RowsOfStaff, Registered
<1> QED
  BY <1>1, <1>2 DEF UsersInit, SecretsInv, PasswordsHold, TokensOfStaff

\* A step that sets no password, of one client or of none.
LEMMA SecretsStep ==
    ASSUME UsersInv, SecretsInv, NEW k \in Clients, NEW n \in ServingCalls,
           serving' = [serving EXCEPT ![k] = n], Entitled(n)', Proved(n),
           staffed \subseteq staffed', barred \subseteq barred', UNCHANGED <<passwords, undone>>,
           scores' \in [Users -> {0} \union 300 .. 850], TokensOfStaff', RowsOfStaff'
    PROVE  SecretsInv'
<1>1. ASSUME NEW j \in Clients PROVE (Entitled(serving[j]) /\ Proved(serving[j]))'
  <2>1. CASE j = k
    <3>1. serving'[j] = n
      BY <2>1 DEF UsersInv
    <3> QED
      BY <3>1 DEF Entitled, Proved
  <2>2. CASE j # k
    <3>1. serving'[j] = serving[j]
      BY <2>2 DEF UsersInv
    <3> QED
      BY <3>1 DEF SecretsInv, Entitled, Proved
  <2> QED
    BY <2>1, <2>2
<1>2. PasswordsHold'
  BY DEF SecretsInv, PasswordsHold
<1> QED
  BY <1>1, <1>2 DEF SecretsInv

LEMMA SecretsRest ==
    ASSUME UsersInv, SecretsInv, NEW k \in Clients, serving' = [serving EXCEPT ![k] = Resting],
           staffed \subseteq staffed', barred \subseteq barred', UNCHANGED <<passwords, undone>>,
           scores' \in [Users -> {0} \union 300 .. 850], TokensOfStaff', RowsOfStaff'
    PROVE  SecretsInv'
<1>1. Resting \in ServingCalls /\ Entitled(Resting)' /\ Proved(Resting)
  BY Marks DEF ServingCalls, Entitled, Proved
<1> QED
  BY <1>1, SecretsStep

\* A request begins.
LEMMA SecretsServed ==
    ASSUME UsersInv, SecretsInv, NEW k \in Clients, NEW n \in ServingCalls, Serve(k, n), Entitled(n), Proved(n)
    PROVE  SecretsInv'
<1>1. Entitled(n)' /\ TokensOfStaff' /\ RowsOfStaff' /\ scores' \in [Users -> {0} \union 300 .. 850]
  BY DEF Serve, Entitled, SecretsInv, TokensOfStaff, RowsOfStaff, Registered
<1> QED
  BY <1>1, SecretsStep DEF Serve

LEMMA RequestsKeepSecrets ==
    ASSUME UsersInv, SecretsInv, NEW k \in Clients,
           \/ register(k) \/ login(k)
           \/ \E token \in tokens :
                 \/ createUser(k, token) \/ updateUser(k, token) \/ deleteUser(k, token)
                 \/ createApiKey(k, token) \/ updateApiKey(k, token) \/ deleteApiKey(k, token)
                 \/ changePassword(k, token) \/ updateUserPassword(k, token) \/ calculateScore(k, token)
                 \/ Shows(k, token)
    PROVE  SecretsInv'
<1>1. ASSUME NEW n \in ServingCalls, Serve(k, n),
             n.pc \notin {"answer", "setScore", "signIn", "changePassword"}
      PROVE  SecretsInv'
  <2>1. Entitled(n) /\ Proved(n)
    BY <1>1 DEF Entitled, Proved
  <2> QED
    BY <1>1, <2>1, SecretsServed
<1>2. CASE register(k)
  <2>1. PICK e \in Emails : Serve(k, [pc |-> "insertUser", signs |-> TRUE,
                                      row |-> [email |-> e, role |-> "user", isActive |-> TRUE]])
    BY <1>2 DEF register
  <2>2. [email |-> e, role |-> "user", isActive |-> TRUE] \in UserRow
    BY UsersAssumption DEF UserRow
  <2>3. [pc |-> "insertUser", signs |-> TRUE, row |-> [email |-> e, role |-> "user", isActive |-> TRUE]]
            \in ServingCalls
    BY <2>2 DEF ServingCalls
  <2> QED
    BY <1>1, <2>1, <2>3
<1>3. CASE login(k)
  <2>1. PICK u \in Users : Welcome(u) /\ Serve(k, [pc |-> "signIn", user |-> u, role |-> userRows[u].role,
                                                   password |-> passwords[u]])
    BY <1>3 DEF login
  <2>2. PICK role \in Roles, password \in Nat : role = userRows[u].role /\ password = passwords[u]
    BY <2>1 DEF Welcome, Registered, UserRow, UsersInv
  <2>3. PICK n \in ServingCalls : n = [pc |-> "signIn", user |-> u, role |-> role, password |-> password]
    BY DEF ServingCalls
  <2>4. Serve(k, n) /\ Entitled(n) /\ Proved(n)
    BY <2>1, <2>2, <2>3 DEF Entitled, Proved, SecretsInv, RowsOfStaff, Welcome
  <2> QED
    BY <2>4, SecretsServed
<1>4. ASSUME NEW token \in tokens, createUser(k, token) PROVE SecretsInv'
  <2>1. PICK row \in UserRow : Serve(k, [pc |-> "insertUser", signs |-> FALSE, row |-> row])
    BY <1>4 DEF createUser
  <2>2. [pc |-> "insertUser", signs |-> FALSE, row |-> row] \in ServingCalls
    BY DEF ServingCalls
  <2> QED
    BY <1>1, <2>1, <2>2
<1>5. ASSUME NEW token \in tokens, updateUser(k, token) PROVE SecretsInv'
  <2>1. PICK v \in Users, after \in UserRow : Serve(k, [pc |-> "setUser", user |-> v, row |-> after])
    BY <1>5 DEF updateUser
  <2>2. [pc |-> "setUser", user |-> v, row |-> after] \in ServingCalls
    BY DEF ServingCalls
  <2> QED
    BY <1>1, <2>1, <2>2
<1>6. ASSUME NEW token \in tokens, deleteUser(k, token) \/ updateUserPassword(k, token) PROVE SecretsInv'
  <2>1. PICK u \in Users, pc \in {"deleteUser", "resetPassword"} : Serve(k, [pc |-> pc, user |-> u])
    BY <1>6 DEF deleteUser, updateUserPassword
  <2>2. [pc |-> pc, user |-> u] \in ServingCalls
    BY DEF ServingCalls
  <2> QED
    BY <1>1, <2>1, <2>2
<1>7. ASSUME NEW token \in tokens, createApiKey(k, token) PROVE SecretsInv'
  <2>1. token.user \in Users /\ Serve(k, [pc |-> "insertKey", row |-> [user |-> token.user, isActive |-> TRUE]])
    BY <1>7 DEF createApiKey, UsersInv, Tokens
  <2>2. [pc |-> "insertKey", row |-> [user |-> token.user, isActive |-> TRUE]] \in ServingCalls
    BY <2>1 DEF ServingCalls, KeyRow
  <2> QED
    BY <1>1, <2>1, <2>2
<1>8. ASSUME NEW token \in tokens, updateApiKey(k, token) PROVE SecretsInv'
  <2>1. PICK i \in Keys, active \in BOOLEAN : Serve(k, [pc |-> "setKey", key |-> i, isActive |-> active])
    BY <1>8 DEF updateApiKey
  <2>2. [pc |-> "setKey", key |-> i, isActive |-> active] \in ServingCalls
    BY DEF ServingCalls
  <2> QED
    BY <1>1, <2>1, <2>2
<1>9. ASSUME NEW token \in tokens, deleteApiKey(k, token) PROVE SecretsInv'
  <2>1. PICK i \in Keys : Serve(k, [pc |-> "deleteKey", key |-> i])
    BY <1>9 DEF deleteApiKey
  <2>2. [pc |-> "deleteKey", key |-> i] \in ServingCalls
    BY DEF ServingCalls
  <2> QED
    BY <1>1, <2>1, <2>2
<1>10. ASSUME NEW token \in tokens, changePassword(k, token) PROVE SecretsInv'
  <2>1. PICK u \in Users, password \in Nat : u = token.user /\ password = passwords[u]
    BY DEF UsersInv, Tokens
  <2>2. PICK n \in ServingCalls : n = [pc |-> "changePassword", user |-> u, password |-> password]
    BY DEF ServingCalls
  <2>3. Serve(k, n) /\ Entitled(n) /\ Proved(n)
    BY <1>10, <2>1, <2>2 DEF changePassword, Entitled, Proved
  <2> QED
    BY <2>3, SecretsServed
<1>11. ASSUME NEW token \in tokens, calculateScore(k, token) PROVE SecretsInv'
  <2>1. PICK u \in Users, by \in Users :
            by = token.user /\ Serve(k, [pc |-> "setScore", user |-> u, by |-> by, about |-> {u}])
    BY <1>11 DEF calculateScore, UsersInv, Tokens
  <2>2. PICK n \in ServingCalls : n = [pc |-> "setScore", user |-> u, by |-> by, about |-> {u}]
    BY DEF ServingCalls
  <2>3. by \in staffed
    BY <1>11, <2>1 DEF calculateScore, SecretsInv, TokensOfStaff
  <2>4. Serve(k, n) /\ Entitled(n) /\ Proved(n)
    BY <2>1, <2>2, <2>3 DEF Entitled, Proved
  <2> QED
    BY <2>4, SecretsServed
<1>12. ASSUME NEW token \in tokens, Shows(k, token) PROVE SecretsInv'
  <2>1. token \in Tokens
    BY DEF UsersInv
  <2>2. PICK about \in SUBSET Users, by \in Users :
            /\ by = token.user /\ Serve(k, [pc |-> "answer", by |-> by, about |-> about])
            /\ IsStaff(token) \/ about \subseteq {by}
    BY <1>12, <2>1, Shown DEF Show, Tokens
  <2>3. PICK n \in ServingCalls : n = [pc |-> "answer", by |-> by, about |-> about]
    BY DEF ServingCalls
  <2>4. about \subseteq {by} \/ by \in staffed
    BY <2>2 DEF SecretsInv, TokensOfStaff
  <2>5. Serve(k, n) /\ Entitled(n) /\ Proved(n)
    BY <2>2, <2>3, <2>4 DEF Entitled, Proved
  <2> QED
    BY <2>5, SecretsServed
<1> QED
  BY <1>2, <1>3, <1>4, <1>5, <1>6, <1>7, <1>8, <1>9, <1>10, <1>11, <1>12

\* A row that says its user is staff is noted.
LEMMA WritesKeepSecrets ==
    ASSUME UsersInv, SecretsInv, NEW k \in Clients,
           \/ InsertUser(k) \/ SignIn(k) \/ SetUser(k) \/ RemoveUser(k)
           \/ InsertKey(k) \/ SetKey(k) \/ RemoveKey(k) \/ SetScore(k) \/ Answer(k)
    PROVE  SecretsInv'
<1>1. CASE InsertKey(k) \/ SetKey(k) \/ RemoveKey(k) \/ Answer(k)
  <2>1. /\ serving' = [serving EXCEPT ![k] = Resting]
        /\ UNCHANGED <<userRows, tokens, barred, staffed, passwords, scores, undone>>
    BY <1>1 DEF InsertKey, SetKey, RemoveKey, Answer, Written, UnchangedUsers, UnchangedSecrets
  <2>2. TokensOfStaff' /\ RowsOfStaff' /\ scores' \in [Users -> {0} \union 300 .. 850]
    BY <2>1 DEF SecretsInv, TokensOfStaff, RowsOfStaff, Registered
  <2> QED
    BY <2>1, <2>2, SecretsRest
<1>2. CASE SetScore(k)
  <2>1. /\ serving' = [serving EXCEPT ![k] = Resting]
        /\ UNCHANGED <<userRows, tokens, barred, staffed, passwords, undone>>
    BY <1>2 DEF SetScore, Written, UnchangedUsers
  <2>2. TokensOfStaff' /\ RowsOfStaff'
    BY <2>1 DEF SecretsInv, TokensOfStaff, RowsOfStaff, Registered
  <2>3. PICK u \in Users : u = serving[k].user
    BY <1>2, ServingFields DEF SetScore, UsersInv
  <2>4. PICK draw \in Draws :
            scores' = IF Registered(u) THEN [scores EXCEPT ![u] = NewScore(draw)] ELSE scores
    BY <1>2, <2>3 DEF SetScore
  <2>5. NewScore(draw) \in 300 .. 850
    <3>1. draw \in Int
      BY DrawsAssumption
    <3> QED
      BY <3>1 DEF NewScore
  <2>6. scores' \in [Users -> {0} \union 300 .. 850]
    BY <2>4, <2>5 DEF SecretsInv
  <2> QED
    BY <2>1, <2>2, <2>6, SecretsRest
<1>3. CASE SignIn(k)
  <2>1. PICK user \in Users, role \in Roles : user = serving[k].user /\ role = serving[k].role
    BY <1>3, ServingFields DEF SignIn, UsersInv
  <2>2. PICK late \in BOOLEAN : late = (~Welcome(user) \/ passwords[user] # serving[k].password)
    OBVIOUS
  <2>3. /\ Sign([user |-> user, role |-> role, late |-> late]) /\ serving' = [serving EXCEPT ![k] = Resting]
        /\ UNCHANGED <<userRows, barred, staffed, passwords, scores, undone>>
    BY <1>3, <2>1, <2>2 DEF SignIn, Written, UnchangedUsers, UnchangedSecrets
  <2>4. role \in StaffRoles => user \in staffed
    BY <1>3, <2>1 DEF SignIn, SecretsInv, Entitled
  <2>5. TokensOfStaff' /\ RowsOfStaff' /\ scores' \in [Users -> {0} \union 300 .. 850]
    BY <2>3, <2>4 DEF Sign, IsStaff, SecretsInv, TokensOfStaff, RowsOfStaff, Registered
  <2> QED
    BY <2>3, <2>5, SecretsRest
<1>4. CASE SetUser(k)
  <2>1. PICK w \in Users, row \in UserRow : w = serving[k].user /\ row = serving[k].row
    BY <1>4, ServingFields DEF SetUser, UsersInv
  <2>2. /\ serving' = [serving EXCEPT ![k] = Resting] /\ barred \subseteq barred'
        /\ userRows' = IF Registered(w) THEN [userRows EXCEPT ![w] = row] ELSE userRows
        /\ staffed' = IF Registered(w) THEN StaffedBy(w, row) ELSE staffed
        /\ UNCHANGED <<tokens, passwords, scores, undone>>
    BY <1>4, <2>1 DEF SetUser, Written, UnchangedSecrets
  <2>3. staffed \subseteq staffed' /\ TokensOfStaff' /\ scores' \in [Users -> {0} \union 300 .. 850]
    BY <2>2 DEF StaffedBy, SecretsInv, TokensOfStaff
  <2>4. RowsOfStaff'
    BY <2>2 DEF StaffedBy, SecretsInv, RowsOfStaff, Registered, UsersInv
  <2> QED
    BY <2>2, <2>3, <2>4, SecretsRest
<1>5. CASE RemoveUser(k)
  <2>1. PICK w \in Users : w = serving[k].user
    BY <1>5, ServingFields DEF RemoveUser, UsersInv
  <2>2. /\ serving' = [serving EXCEPT ![k] = Resting] /\ barred \subseteq barred'
        /\ userRows' \in {userRows, [userRows EXCEPT ![w] = Gone]}
        /\ UNCHANGED <<tokens, staffed, passwords, scores, undone>>
    BY <1>5, <2>1 DEF RemoveUser, Written, UnchangedSecrets
  <2>3. TokensOfStaff' /\ scores' \in [Users -> {0} \union 300 .. 850]
    BY <2>2 DEF SecretsInv, TokensOfStaff
  <2>4. RowsOfStaff'
    BY <2>2, RowsAre DEF SecretsInv, RowsOfStaff, Registered, UsersInv
  <2> QED
    BY <2>2, <2>3, <2>4, SecretsRest
<1>6. CASE InsertUser(k)
  <2>1. PICK row \in UserRow : row = serving[k].row
    BY <1>6, ServingFields DEF InsertUser, UsersInv
  <2>2. serving' = [serving EXCEPT ![k] = Resting] /\ UNCHANGED <<barred, passwords, scores, undone>>
    BY <1>6 DEF InsertUser, Written, UnchangedSecrets
  <2>3. scores' \in [Users -> {0} \union 300 .. 850]
    BY <2>2 DEF SecretsInv
  <2>4. CASE UNCHANGED <<userRows, tokens, staffed>>
    <3>1. TokensOfStaff' /\ RowsOfStaff'
      BY <2>4 DEF SecretsInv, TokensOfStaff, RowsOfStaff, Registered
    <3> QED
      BY <2>2, <2>3, <2>4, <3>1, SecretsRest
  <2>5. CASE ~UNCHANGED <<userRows, tokens, staffed>>
    <3>1. /\ NewUsers # {} /\ userRows' = [userRows EXCEPT ![NewUser] = row] /\ staffed' = StaffedBy(NewUser, row)
          /\ UNCHANGED tokens \/ Sign([user |-> NewUser, role |-> "user", late |-> FALSE])
      BY <1>6, <2>1, <2>5 DEF InsertUser
    <3>2. staffed \subseteq staffed'
      BY <3>1 DEF StaffedBy
    <3>3. TokensOfStaff'
      BY <3>1, <3>2 DEF Sign, IsStaff, StaffRoles, SecretsInv, TokensOfStaff
    <3>4. RowsOfStaff'
      BY <3>1, <3>2 DEF StaffedBy, SecretsInv, RowsOfStaff, Registered, UsersInv
    <3> QED
      BY <2>2, <2>3, <3>2, <3>3, <3>4, SecretsRest
  <2> QED
    BY <2>4, <2>5
<1> QED
  BY <1>1, <1>2, <1>3, <1>4, <1>5, <1>6

\* Whoever else was changing the password that is set is barred: what they showed is not in force.
LEMMA ReplaceKeepsSecrets ==
    ASSUME UsersInv, SecretsInv, NEW k \in Clients, NEW w \in Users, w = serving[k].user, Replace(k, w),
           \/ ResetPassword(k) \/ ReplacePassword(k)
    PROVE  SecretsInv'
<1>1. /\ serving' = [serving EXCEPT ![k] = Resting] /\ UNCHANGED <<userRows, tokens, scores, staffed>>
      /\ barred \subseteq barred'
  BY DEF Replace, Written
<1>2. serving'[k] = Resting /\ \A j \in Clients \ {k} : serving'[j] = serving[j]
  BY <1>1 DEF UsersInv
<1>3. \A u \in Users \ {w} : passwords'[u] = passwords[u]
  BY DEF Replace, UsersInv
<1>4. ASSUME NEW j \in Clients PROVE (Entitled(serving[j]) /\ Proved(serving[j]))'
  <2>1. CASE j = k
    BY <1>2, <2>1, Marks DEF Entitled, Proved
  <2>2. CASE j # k
    <3>1. serving'[j] = serving[j] /\ Entitled(serving[j]) /\ Proved(serving[j])
      BY <1>2, <2>2 DEF SecretsInv
    <3>2. Entitled(serving[j])'
      BY <1>1, <3>1 DEF Entitled
    <3>3. Proved(serving[j])'
      <4>1. SUFFICES ASSUME serving[j].pc = "changePassword"
                     PROVE  passwords'[serving[j].user] = serving[j].password \/ serving[j].user \in barred'
        BY <3>1 DEF Proved
      <4>2. PICK u \in Users : u = serving[j].user
        BY <4>1, ServingFields DEF UsersInv
      <4>3. CASE u # w
        BY <1>1, <1>3, <3>1, <4>1, <4>2, <4>3 DEF Proved
      <4>4. CASE u = w /\ Registered(w)
        BY <2>2, <4>1, <4>2, <4>4 DEF Replace, ChangingPassword
      <4>5. CASE u = w /\ ~Registered(w)
        BY <1>1, <3>1, <4>1, <4>2, <4>5 DEF Replace, Proved
      <4> QED
        BY <4>3, <4>4, <4>5
    <3> QED
      BY <3>2, <3>3
  <2> QED
    BY <2>1, <2>2
<1>5. PasswordsHold'
  <2>1. CASE ResetPassword(k)
    BY <1>1, <2>1 DEF ResetPassword, SecretsInv, PasswordsHold
  <2>2. CASE ReplacePassword(k)
    <3>1. Proved(serving[k]) /\ serving[k].pc = "changePassword"
      BY <2>2 DEF SecretsInv, ReplacePassword
    <3> QED
      BY <1>1, <2>2, <3>1 DEF ReplacePassword, Proved, SecretsInv, PasswordsHold
  <2> QED
    BY <2>1, <2>2
<1>6. TokensOfStaff' /\ RowsOfStaff' /\ scores' \in [Users -> {0} \union 300 .. 850]
  BY <1>1 DEF SecretsInv, TokensOfStaff, RowsOfStaff, Registered
<1> QED
  BY <1>4, <1>5, <1>6 DEF SecretsInv

LEMMA SecretsKept == UsersInv /\ SecretsInv /\ [UserSteps]_UsersVars => SecretsInv'
<1> SUFFICES ASSUME UsersInv, SecretsInv, [UserSteps]_UsersVars PROVE SecretsInv'
  OBVIOUS
<1>1. CASE UNCHANGED UsersVars
  BY <1>1 DEF UsersVars, SecretsInv, PasswordsHold, Entitled, Proved, TokensOfStaff, RowsOfStaff, Registered
<1>2. ASSUME NEW token \in tokens, refresh(token) PROVE SecretsInv'
  <2>1. /\ tokens' = tokens \union {Signed(token.user, token.role)}
        /\ UNCHANGED <<userRows, serving, barred, staffed, passwords, scores, undone>>
    BY <1>2 DEF refresh, Sign, UnchangedUsers, UnchangedSecrets
  <2>2. TokensOfStaff'
    BY <2>1 DEF Signed, IsStaff, SecretsInv, TokensOfStaff
  <2>3. \A k \in Clients : (Entitled(serving[k]) /\ Proved(serving[k]))'
    BY <2>1 DEF SecretsInv, Entitled, Proved
  <2> QED
    BY <2>1, <2>2, <2>3 DEF SecretsInv, PasswordsHold, RowsOfStaff, Registered
<1>3. ASSUME NEW k \in Clients,
             \/ register(k) \/ login(k)
             \/ \E token \in tokens :
                   \/ createUser(k, token) \/ updateUser(k, token) \/ deleteUser(k, token)
                   \/ createApiKey(k, token) \/ updateApiKey(k, token) \/ deleteApiKey(k, token)
                   \/ changePassword(k, token) \/ updateUserPassword(k, token) \/ calculateScore(k, token)
                   \/ Shows(k, token)
      PROVE  SecretsInv'
  BY <1>3, RequestsKeepSecrets
<1>4. ASSUME NEW k \in Clients,
             \/ InsertUser(k) \/ SignIn(k) \/ SetUser(k) \/ RemoveUser(k)
             \/ InsertKey(k) \/ SetKey(k) \/ RemoveKey(k) \/ SetScore(k) \/ Answer(k)
      PROVE  SecretsInv'
  BY <1>4, WritesKeepSecrets
<1>5. ASSUME NEW k \in Clients, ReplacePassword(k) \/ ResetPassword(k) PROVE SecretsInv'
  <2>1. PICK w \in Users : w = serving[k].user
    BY <1>5, ServingFields DEF ReplacePassword, ResetPassword, UsersInv
  <2> QED
    BY <1>5, <2>1, ReplaceKeepsSecrets DEF ReplacePassword, ResetPassword
<1>6. CASE UsersNext
  BY <1>2, <1>3, <1>4, <1>6 DEF UsersNext
<1>7. CASE SecretsNext
  BY <1>2, <1>3, <1>4, <1>5, <1>7 DEF SecretsNext, Shows
<1> QED
  BY <1>1, <1>6, <1>7 DEF UserSteps

LEMMA SecretsShow == SecretsInv => PasswordsHold /\ ReadersAreEntitled
  BY DEF SecretsInv, Entitled, ReadersAreEntitled

LEMMA UsersTyped == UsersInv /\ SecretsInv => UsersTypeOK
  BY RowsAre DEF UsersInv, SecretsInv, UsersTypeOK, Registered, Tokens
-----------------------------------------------------------------------------
\* Credit providers.

SubmissionRecord ==
    [support : BOOLEAN, complexity : {"simple", "moderate", "complex"}, dedicated : BOOLEAN,
     readiness : {"ready", "partial", "none"}, weeks : Nat,
     structure : {"per_lead", "percentage", "hybrid"}, percentage : Nat, minimumFee : Nat]
LogActions ==
    {"provider_created", "provider_approved", "provider_rejected", "service_request_created", "margin_updated"}
LogEntry == [of : Lenders, action : LogActions]
MailTypes == {"provider_onboarding", "provider_approved", "provider_rejected", "service_request", "margin_updated",
              "integration_project", "custom_integration", "api_setup_completed", "deployment_completed"}
Assigned == {"alice", "bob", "carol", "undefined"}
MailRecord == [type : MailTypes, of : Lenders \union {"integration"},
               to : Assigned \union {"admin", "provider", "nobody"}]
WorkKinds == RequestTypes \union {"testing_support", "go_live_support"}
RequestRecord == [of : Lenders, kind : WorkKinds, engineer : Assigned, hours : Nat, cost : Nat]
IntegrationRecord ==
    [level : {"basic", "standard", "premium"}, costs : [setup : Nat, monthly : Nat, custom : Nat, total : Nat],
     apiDevelopment : BOOLEAN, maintenance : BOOLEAN, weeks : Nat, status : {"pending", "in_progress"}]
AdminCalls == {Resting} \union [pc : {"createProvider"}, email : ProviderEmails, is : Submissions]
              \union [pc : {"ping"}, of : Lenders, spec : IntegrationSpecs]

AdminTyped ==
    /\ onboardings \in [Lenders -> ProviderRecord \union {NoConfig}]
    /\ integrations \in [Lenders -> IntegrationRecord \union {NoConfig}]
    /\ margins \in [Lenders -> MarginConfig \union {NoMargin}]
    /\ serviceRequests \in Seq(RequestRecord) /\ adminLog \in Seq(LogEntry) /\ mails \in Seq(MailRecord)
    /\ adminCalls \in [Clients -> AdminCalls]
    /\ deployments \in Seq([compatible : BOOLEAN, status : {"deploying", "completed"}])

\* Where the log and the mails hold a decision about a provider, and whose milestones are
\* among the service requests.
Decided(p) == Entries(p, "provider_approved") \union Entries(p, "provider_rejected")
Informed(p) == {i \in DOMAIN mails : mails[i].of = p /\ mails[i].type \in Decisions}
Milestones(p) ==
    {i \in DOMAIN serviceRequests :
        /\ serviceRequests[i].of = p /\ serviceRequests[i].hours > 0
        /\ serviceRequests[i].cost < 12000 /\ serviceRequests[i].engineer = "alice"}
Begun(p) == EverApproved(p) /\ onboardings[p].is.support
Approved(p) == Onboarded(p) /\ onboardings[p].status = "approved"

\* Until somebody decides there is no decision to be found, and nothing has followed from one.
Undecided(p) ==
    ~Onboarded(p) \/ onboardings[p].status = "pending_review" => Decided(p) = {} /\ Informed(p) = {}

\* The last decision logged, and the last one mailed, is what the status says.
Consistent(p) ==
    /\ \A i \in Decided(p) : (\A j \in Decided(p) : j <= i)
                             => (adminLog[i].action = "provider_approved" <=> Approved(p))
    /\ \A i \in Informed(p) : (\A j \in Informed(p) : j <= i)
                          => (mails[i].type = "provider_approved" <=> Approved(p))

\* An approval is logged once, and its project and margin begin with it.
Followed(p) ==
    /\ \A i, j \in Entries(p, "provider_approved") : i = j
    /\ integrations[p] # NoConfig <=> Onboarded(p) /\ onboardings[p].is.support
    /\ integrations[p] # NoConfig => (integrations[p].status = "in_progress" <=> Begun(p))
    /\ IF Begun(p) THEN \E n \in Nat : Milestones(p) = (n + 1)..(n + 4) ELSE Milestones(p) = {}
    /\ Onboarded(p) => margins[p] # NoMargin /\ (margins[p].active <=> EverApproved(p))

\* Creations that looked for one email address.
Looking(k, email) == adminCalls[k].pc = "createProvider" /\ adminCalls[k].email = email
SearchesAreKnown ==
    /\ \A k, j \in Clients, email \in ProviderEmails :
           Looking(k, email) /\ Looking(j, email) /\ k # j => email \in lookedForTwice
    /\ \A k \in Clients, p \in Lenders :
           Onboarded(p) /\ Looking(k, onboardings[p].email) => onboardings[p].email \in lookedForTwice

AdminInv ==
    /\ AdminTyped /\ SearchesAreKnown /\ ProvidersAreDistinct
    /\ \A p \in Lenders : Undecided(p) /\ Consistent(p) /\ Followed(p)

\* Who works for the lender: the three engineers, of whom one leads every project.
LEMMA EngineersAre ==
    /\ DOMAIN Engineers = 1..3
    /\ Engineers[1] = [id |-> "alice", role |-> "senior",
                       expertise |-> {"api_integration", "customer_service", "custom_development"},
                       workload |-> 2, maximum |-> 5]
    /\ Engineers[2] = [id |-> "bob", role |-> "mid",
                       expertise |-> {"api_integration", "webhook_setup", "testing_support"},
                       workload |-> 3, maximum |-> 5]
    /\ Engineers[3] = [id |-> "carol", role |-> "junior",
                       expertise |-> {"data_mapping", "testing_support", "go_live_support"},
                       workload |-> 1, maximum |-> 4]
  BY DEF Engineers, Engineer

LEMMA FirstFound ==
    ASSUME NEW places \in SUBSET (1..3), NEW i \in places, \A j \in places : i <= j
    PROVE  Found(places) = Engineers[i].id
<1>1. i = CHOOSE n \in places : \A j \in places : n <= j
  <2>1. \A n \in places : (\A j \in places : n <= j) => n = i
    OBVIOUS
  <2> QED
    BY <2>1
<1> QED
  BY <1>1 DEF Found

LEMMA SomebodyFound == \A places \in SUBSET (1..3) : places # {} => Found(places) \in Assigned
<1> SUFFICES ASSUME NEW places \in SUBSET (1..3), places # {} PROVE Found(places) \in Assigned
  OBVIOUS
<1>1. \E i \in places : \A j \in places : i <= j
  <2>1. CASE 1 \in places
    BY <2>1
  <2>2. CASE 1 \notin places /\ 2 \in places
    BY <2>2
  <2>3. CASE 1 \notin places /\ 2 \notin places
    <3>1. \A n \in 1..3 : n = 1 \/ n = 2 \/ n = 3
      OBVIOUS
    <3>2. places = {3}
      BY <2>3, <3>1
    <3> QED
      BY <3>2
  <2> QED
    BY <2>1, <2>2, <2>3
<1>2. PICK i \in places : \A j \in places : i <= j
  BY <1>1
<1>3. Found(places) = Engineers[i].id
  BY <1>2, FirstFound
<1>4. Engineers[1].id = "alice" /\ Engineers[2].id = "bob" /\ Engineers[3].id = "carol"
  BY EngineersAre
<1>5. i = 1 \/ i = 2 \/ i = 3
  OBVIOUS
<1> QED
  BY <1>3, <1>4, <1>5 DEF Assigned

LEMMA AvailableAre == getAvailableEngineers = 1..3
<1>1. \A i \in 1..3 : i = 1 \/ i = 2 \/ i = 3
  OBVIOUS
<1>2. \A i \in 1..3 : Engineers[i].workload < Engineers[i].maximum
  BY <1>1, EngineersAre
<1> QED
  BY <1>2, EngineersAre DEF getAvailableEngineers

\* No project has a team of more than the one lead engineer.
LEMMA TeamIs == \A level : assignIntegrationTeam(level) = <<"alice">>
<1> SUFFICES ASSUME NEW level PROVE assignIntegrationTeam(level) = <<"alice">>
  OBVIOUS
<1>1. PICK leads : leads = {i \in getAvailableEngineers :
                               /\ Engineers[i].role = "senior" /\ "api_integration" \in Engineers[i].expertise
                               /\ Engineers[i].workload < 3}
  OBVIOUS
<1>2. PICK others : others = {i \in getAvailableEngineers :
                                /\ leads # {} => Engineers[i].id # Found(leads)
                                /\ "customer_service" \in Engineers[i].expertise /\ Engineers[i].workload < 4}
  OBVIOUS
<1>3. \A i \in 1..3 : i = 1 \/ i = 2 \/ i = 3
  OBVIOUS
<1>4. leads = {1}
  <2>1. 1 \in leads
    BY <1>1, AvailableAre, EngineersAre
  <2>2. 2 \notin leads /\ 3 \notin leads
    BY <1>1, EngineersAre
  <2> QED
    BY <1>1, <1>3, <2>1, <2>2, AvailableAre
<1>5. Found(leads) = "alice"
  BY <1>4, FirstFound, EngineersAre
<1>6. others = {}
  <2>1. 1 \notin others
    BY <1>2, <1>4, <1>5, EngineersAre
  <2>2. 2 \notin others /\ 3 \notin others
    BY <1>2, EngineersAre
  <2> QED
    BY <1>2, <1>3, <2>1, <2>2, AvailableAre
<1>7. assignIntegrationTeam(level) = <<"alice">> \o <<>>
  BY <1>1, <1>2, <1>4, <1>5, <1>6 DEF assignIntegrationTeam
<1> QED
  BY <1>7

LEMMA AssignedIs == \A kind : assignEnginner(kind) \in Assigned
  BY SomebodyFound, AvailableAre DEF assignEnginner, Undefined, Assigned

-----------------------------------------------------------------------------
\* What the sequences of the administrators hold after a step.
LEMMA Logging ==
    ASSUME adminLog \in Seq(LogEntry), NEW p \in Lenders, NEW action \in LogActions, logAdminAction(p, action)
    PROVE  /\ adminLog' \in Seq(LogEntry) /\ Len(adminLog) \in Nat /\ Len(adminLog') = Len(adminLog) + 1
           /\ \A q, a : Entries(q, a) \subseteq 1..Len(adminLog)
           /\ \A q, a : q # p \/ a # action => Entries(q, a)' = Entries(q, a)
           /\ Entries(p, action)' = Entries(p, action) \union {Len(adminLog) + 1}
           /\ \A i \in 1..Len(adminLog) : adminLog'[i] = adminLog[i]
           /\ adminLog'[Len(adminLog) + 1] = [of |-> p, action |-> action]
<1>1. PICK entry \in LogEntry : entry = [of |-> p, action |-> action]
  BY DEF LogEntry
<1>2. adminLog' = Append(adminLog, entry)
  BY <1>1 DEF logAdminAction, Log
<1>3. /\ adminLog' \in Seq(LogEntry) /\ Len(adminLog') = Len(adminLog) + 1 /\ Len(adminLog) \in Nat
      /\ \A i \in 1..Len(adminLog) : adminLog'[i] = adminLog[i]
      /\ adminLog'[Len(adminLog) + 1] = entry
  BY <1>2, AppendProperties, LenProperties
<1>4. DOMAIN adminLog = 1..Len(adminLog) /\ DOMAIN adminLog' = 1..(Len(adminLog) + 1)
  BY <1>3, LenProperties
<1>5. ASSUME NEW q, NEW a PROVE Entries(q, a) \subseteq 1..Len(adminLog)
  BY <1>4 DEF Entries
<1>6. ASSUME NEW q, NEW a, q # p \/ a # action PROVE Entries(q, a)' = Entries(q, a)
  <2>1. PICK e : e = [of |-> q, action |-> a]
    OBVIOUS
  <2>2. e # entry
    BY <1>1, <1>6, <2>1
  <2> QED
    BY <1>3, <1>4, <2>1, <2>2 DEF Entries
<1>7. Entries(p, action)' = Entries(p, action) \union {Len(adminLog) + 1}
  BY <1>1, <1>3, <1>4 DEF Entries
<1> QED
  BY <1>1, <1>3, <1>5, <1>6, <1>7

\* Mails that tell no decision leave the decisions told alone; one that does is the last of them.
LEMMA MailsSent ==
    ASSUME mails \in Seq(MailRecord), NEW sent \in Seq(MailRecord), Send(sent)
    PROVE  /\ mails' \in Seq(MailRecord) /\ Len(mails) \in Nat /\ Len(sent) \in Nat
           /\ Len(mails') = Len(mails) + Len(sent)
           /\ DOMAIN mails = 1..Len(mails) /\ DOMAIN mails' = 1..(Len(mails) + Len(sent))
           /\ \A i \in 1..Len(mails) : mails'[i] = mails[i]
           /\ \A i \in 1..Len(sent) : mails'[Len(mails) + i] = sent[i]
<1>1. /\ mails' \in Seq(MailRecord) /\ Len(mails') = Len(mails) + Len(sent)
      /\ \A i \in 1..Len(mails) + Len(sent) :
             mails'[i] = IF i <= Len(mails) THEN mails[i] ELSE sent[i - Len(mails)]
  BY ConcatProperties DEF Send
<1>2. Len(mails) \in Nat /\ Len(sent) \in Nat
  BY LenProperties
<1>3. DOMAIN mails = 1..Len(mails) /\ DOMAIN mails' = 1..(Len(mails) + Len(sent))
  BY <1>1, LenProperties
<1>4. \A i \in 1..Len(mails) : mails'[i] = mails[i]
  BY <1>1, <1>2
<1>5. ASSUME NEW i \in 1..Len(sent) PROVE mails'[Len(mails) + i] = sent[i]
  <2>1. Len(mails) + i \in 1..Len(mails) + Len(sent) /\ ~(Len(mails) + i <= Len(mails))
    BY <1>2
  <2>2. Len(mails) + i - Len(mails) = i
    BY <1>2
  <2> QED
    BY <1>1, <2>1, <2>2
<1> QED
  BY <1>1, <1>2, <1>3, <1>4, <1>5

LEMMA QuietMails ==
    ASSUME mails \in Seq(MailRecord), NEW sent \in Seq(MailRecord), Send(sent),
           \A i \in 1..Len(sent) : sent[i].type \notin Decisions
    PROVE  /\ mails' \in Seq(MailRecord)
           /\ \A q : Informed(q)' = Informed(q) /\ \A i \in Informed(q) : mails'[i] = mails[i]
<1>1. ASSUME NEW q, NEW i, i \in Informed(q)' PROVE i \in Informed(q)
  <2>1. i \in 1..(Len(mails) + Len(sent)) /\ mails'[i].type \in Decisions /\ mails'[i].of = q
    BY <1>1, MailsSent DEF Informed
  <2>2. CASE i <= Len(mails)
    BY <2>1, <2>2, MailsSent DEF Informed
  <2>3. CASE ~(i <= Len(mails))
    <3>1. PICK j \in 1..Len(sent) : i = Len(mails) + j
      <4>1. i - Len(mails) \in 1..Len(sent) /\ i = Len(mails) + (i - Len(mails))
        BY <2>1, <2>3, MailsSent
      <4> QED
        BY <4>1
    <3> QED
      BY <2>1, <3>1, MailsSent
  <2> QED
    BY <2>2, <2>3
<1>2. ASSUME NEW q, NEW i, i \in Informed(q) PROVE i \in Informed(q)' /\ mails'[i] = mails[i]
  <2>1. /\ DOMAIN mails = 1..Len(mails) /\ DOMAIN mails' = 1..(Len(mails) + Len(sent))
        /\ Len(mails) \in Nat /\ Len(sent) \in Nat /\ \A n \in 1..Len(mails) : mails'[n] = mails[n]
    BY MailsSent
  <2>2. i \in 1..Len(mails) /\ mails[i].of = q /\ mails[i].type \in Decisions
    BY <1>2, <2>1 DEF Informed
  <2>3. mails'[i] = mails[i] /\ i \in DOMAIN mails'
    BY <2>1, <2>2
  <2> QED
    BY <2>2, <2>3 DEF Informed
<1>3. mails' \in Seq(MailRecord)
  BY MailsSent
<1>4. ASSUME NEW q PROVE Informed(q)' = Informed(q)
  <2>1. \A i : i \in Informed(q)' <=> i \in Informed(q)
    BY <1>1, <1>2
  <2> QED
    BY <2>1
<1> QED
  BY <1>2, <1>3, <1>4

LEMMA VerdictMail ==
    ASSUME mails \in Seq(MailRecord), NEW sent \in Seq(MailRecord), Send(sent), NEW n \in Nat, Len(sent) = n + 1,
           \A i \in 1..n : sent[i].type \notin Decisions,
           NEW p, sent[n + 1].of = p, sent[n + 1].type \in Decisions
    PROVE  /\ mails' \in Seq(MailRecord) /\ Len(mails') \in Nat
           /\ \A q : \A i \in Informed(q) : mails'[i] = mails[i] /\ i < Len(mails')
           /\ \A q : q # p => Informed(q)' = Informed(q)
           /\ Informed(p)' = Informed(p) \union {Len(mails')} /\ mails'[Len(mails')] = sent[n + 1]
<1>1. /\ mails' \in Seq(MailRecord) /\ Len(mails) \in Nat /\ Len(mails') = Len(mails) + (n + 1)
      /\ DOMAIN mails = 1..Len(mails) /\ DOMAIN mails' = 1..Len(mails')
      /\ \A i \in 1..Len(mails) : mails'[i] = mails[i]
      /\ \A i \in 1..(n + 1) : mails'[Len(mails) + i] = sent[i]
  BY MailsSent
<1>2. mails'[Len(mails')] = sent[n + 1] /\ Len(mails') \in DOMAIN mails'
  BY <1>1
<1>3. ASSUME NEW q, NEW i, i \in Informed(q)' PROVE i \in Informed(q) \/ i = Len(mails')
  <2>1. i \in 1..(Len(mails) + (n + 1)) /\ mails'[i].type \in Decisions /\ mails'[i].of = q
    BY <1>1, <1>3 DEF Informed
  <2>2. CASE i <= Len(mails)
    BY <1>1, <2>1, <2>2 DEF Informed
  <2>3. CASE ~(i <= Len(mails)) /\ i # Len(mails')
    <3>1. PICK j \in 1..n : i = Len(mails) + j
      <4>1. i - Len(mails) \in 1..n /\ i = Len(mails) + (i - Len(mails))
        BY <1>1, <2>1, <2>3
      <4> QED
        BY <4>1
    <3>2. j \in 1..(n + 1)
      OBVIOUS
    <3>3. mails'[i] = sent[j]
      BY <1>1, <3>1, <3>2
    <3> QED
      BY <2>1, <3>3
  <2> QED
    BY <2>2, <2>3
<1>4. ASSUME NEW q, NEW i, i \in Informed(q) PROVE i \in Informed(q)' /\ mails'[i] = mails[i] /\ i < Len(mails')
  <2>1. i \in 1..Len(mails) /\ mails[i].of = q /\ mails[i].type \in Decisions
    BY <1>1, <1>4 DEF Informed
  <2>2. i \in 1..Len(mails') /\ i < Len(mails') /\ mails'[i] = mails[i]
    BY <1>1, <2>1
  <2> QED
    BY <1>1, <2>1, <2>2 DEF Informed
<1>5. Len(mails') \in Informed(p)'
  BY <1>1, <1>2 DEF Informed
<1>6. ASSUME NEW q, q # p PROVE Len(mails') \notin Informed(q)'
  BY <1>1, <1>2, <1>6 DEF Informed
<1>7. Len(mails') \in Nat
  BY <1>1
<1>8. Informed(p)' = Informed(p) \union {Len(mails')}
  BY <1>3, <1>4, <1>5
<1>9. ASSUME NEW q, q # p PROVE Informed(q)' = Informed(q)
  <2>1. \A i : i \in Informed(q)' <=> i \in Informed(q)
    BY <1>3, <1>4, <1>6, <1>9
  <2> QED
    BY <2>1
<1> QED
  BY <1>1, <1>2, <1>4, <1>7, <1>8, <1>9

LEMMA Requesting ==
    ASSUME serviceRequests \in Seq(RequestRecord), NEW r \in RequestRecord,
           r.hours = 0 \/ r.engineer # "alice", serviceRequests' = Append(serviceRequests, r)
    PROVE  serviceRequests' \in Seq(RequestRecord) /\ \A q : Milestones(q)' = Milestones(q)
<1>1. /\ serviceRequests' \in Seq(RequestRecord) /\ Len(serviceRequests) \in Nat
      /\ DOMAIN serviceRequests = 1..Len(serviceRequests)
      /\ DOMAIN serviceRequests' = 1..(Len(serviceRequests) + 1)
      /\ \A i \in 1..Len(serviceRequests) : serviceRequests'[i] = serviceRequests[i]
      /\ serviceRequests'[Len(serviceRequests) + 1] = r
  BY AppendProperties, LenProperties
<1> QED
  BY <1>1 DEF Milestones

\* A project's requests are its four milestones, and nobody else's.
LEMMA ProjectRequests ==
    ASSUME serviceRequests \in Seq(RequestRecord), NEW p \in Lenders,
           serviceRequests' = serviceRequests \o MilestoneRequests(p, <<"alice">>)
    PROVE  /\ serviceRequests' \in Seq(RequestRecord)
           /\ \A q : q # p => Milestones(q)' = Milestones(q)
           /\ \E n \in Nat : Milestones(p)' = Milestones(p) \union (n + 1)..(n + 4)
<1>0. PICK asked : asked = MilestoneRequests(p, <<"alice">>)
  OBVIOUS
<1>1. PICK hours, costs, kinds : hours = MilestoneHours /\ costs = MilestoneCosts /\ kinds = MilestoneKinds
  OBVIOUS
<1>2. \A i \in 1..4 : hours[i] \in Nat /\ hours[i] > 0 /\ costs[i] \in Nat /\ costs[i] < 12000 /\ kinds[i] \in WorkKinds
  <2>1. \A i \in 1..4 : i = 1 \/ i = 2 \/ i = 3 \/ i = 4
    OBVIOUS
  <2>2. hours[1] = 16 /\ hours[2] = 80 /\ hours[3] = 32 /\ hours[4] = 16
    BY <1>1 DEF MilestoneHours
  <2>3. costs[1] = 2000 /\ costs[2] = 10000 /\ costs[3] = 4000 /\ costs[4] = 2000
    BY <1>1 DEF MilestoneCosts
  <2>4. /\ kinds[1] = "api_integration" /\ kinds[2] = "custom_development"
        /\ kinds[3] = "testing_support" /\ kinds[4] = "go_live_support"
    BY <1>1 DEF MilestoneKinds
  <2> QED
    BY <2>1, <2>2, <2>3, <2>4 DEF WorkKinds, RequestTypes
<1>3. asked = [i \in 1..4 |-> [of |-> p, kind |-> kinds[i], engineer |-> "alice",
                               hours |-> hours[i], cost |-> costs[i]]]
  BY <1>0, <1>1 DEF MilestoneRequests, ServiceRequest
<1>4. \A i \in 1..4 : [of |-> p, kind |-> kinds[i], engineer |-> "alice", hours |-> hours[i], cost |-> costs[i]]
                       \in RequestRecord
  <2>1. "alice" \in Assigned
    BY DEF Assigned
  <2>2. ASSUME NEW i \in 1..4 PROVE kinds[i] \in WorkKinds /\ hours[i] \in Nat /\ costs[i] \in Nat
    BY <1>2
  <2> QED
    BY <2>1, <2>2 DEF RequestRecord
<1>5. [i \in 1..4 |-> [of |-> p, kind |-> kinds[i], engineer |-> "alice", hours |-> hours[i], cost |-> costs[i]]]
          \in Seq(RequestRecord)
  BY <1>4
<1>6. asked \in Seq(RequestRecord) /\ Len(asked) = 4
  <2>1. asked \in Seq(RequestRecord) /\ DOMAIN asked = 1..4
    BY <1>3, <1>5
  <2>2. Len(asked) \in Nat /\ DOMAIN asked = 1..Len(asked)
    BY <2>1, LenProperties
  <2>3. 4 \in 1..Len(asked) /\ 5 \notin 1..Len(asked)
    BY <2>1, <2>2
  <2> QED
    BY <2>1, <2>2, <2>3
<1>7. \A i \in 1..4 : /\ asked[i].of = p /\ asked[i].hours > 0 /\ asked[i].cost < 12000
                      /\ asked[i].engineer = "alice"
  <2>1. ASSUME NEW i \in 1..4
        PROVE  asked[i] = [of |-> p, kind |-> kinds[i], engineer |-> "alice", hours |-> hours[i], cost |-> costs[i]]
    BY <1>3
  <2>2. ASSUME NEW i \in 1..4
        PROVE  /\ asked[i].of = p /\ asked[i].engineer = "alice"
               /\ asked[i].hours = hours[i] /\ asked[i].cost = costs[i]
    BY <2>1
  <2>3. ASSUME NEW i \in 1..4 PROVE hours[i] > 0 /\ costs[i] < 12000
    BY <1>2
  <2> QED
    BY <2>2, <2>3
<1>8. PICK n \in Nat : n = Len(serviceRequests) /\ DOMAIN serviceRequests = 1..n
  BY LenProperties
<1>9. /\ serviceRequests' \in Seq(RequestRecord) /\ DOMAIN serviceRequests' = 1..(n + 4)
      /\ \A i \in 1..(n + 4) : serviceRequests'[i] = IF i <= n THEN serviceRequests[i] ELSE asked[i - n]
  <2>1. serviceRequests' = serviceRequests \o asked
    BY <1>0
  <2> QED
    <3>1. /\ serviceRequests' \in Seq(RequestRecord) /\ Len(serviceRequests') = n + 4
          /\ \A i \in 1..Len(serviceRequests) + Len(asked) : serviceRequests'[i] =
                 IF i <= Len(serviceRequests) THEN serviceRequests[i] ELSE asked[i - Len(serviceRequests)]
      <4>1. Len(serviceRequests) = n
        BY <1>8
      <4>2. /\ Len(serviceRequests \o asked) = Len(serviceRequests) + Len(asked)
            /\ serviceRequests \o asked \in Seq(RequestRecord)
        BY <1>6, ConcatProperties
      <4>3. \A i \in 1..Len(serviceRequests) + Len(asked) : (serviceRequests \o asked)[i] =
                IF i <= Len(serviceRequests) THEN serviceRequests[i] ELSE asked[i - Len(serviceRequests)]
        BY <1>6, ConcatProperties
      <4> QED
        BY <1>6, <2>1, <4>1, <4>2, <4>3
    <3> QED
      BY <1>6, <1>8, <3>1, LenProperties
<1>10. \A i \in (n + 1)..(n + 4) : serviceRequests'[i] = asked[i - n] /\ i - n \in 1..4
  BY <1>9
<1>11. \A i \in 1..n : serviceRequests'[i] = serviceRequests[i]
  BY <1>9
<1>12. DOMAIN serviceRequests' = (1..n) \union (n + 1)..(n + 4)
  BY <1>9
<1>13. ASSUME NEW q, q # p PROVE Milestones(q)' = Milestones(q)
  BY <1>7, <1>8, <1>10, <1>11, <1>12, <1>13 DEF Milestones
<1>14. Milestones(p)' = Milestones(p) \union (n + 1)..(n + 4)
  BY <1>7, <1>8, <1>10, <1>11, <1>12 DEF Milestones
<1> QED
  BY <1>9, <1>13, <1>14

-----------------------------------------------------------------------------
\* What a provider is onboarded with.
LEMMA IntegrationsAre == \A is \in SubmissionRecord : IntegrationConfig(is) \in IntegrationRecord
<1> SUFFICES ASSUME NEW is \in SubmissionRecord PROVE IntegrationConfig(is) \in IntegrationRecord
  OBVIOUS
<1>1. /\ is.complexity \in {"simple", "moderate", "complex"} /\ is.dedicated \in BOOLEAN
      /\ is.readiness \in {"ready", "partial", "none"} /\ is.weeks \in Nat
  BY DEF SubmissionRecord
<1>2. ServiceLevel(is) \in {"basic", "standard", "premium"}
  BY DEF ServiceLevel
<1>3. PICK setup, custom, monthly :
          /\ setup = (CASE is.complexity = "complex" -> 7500 [] is.complexity = "moderate" -> 5000 [] OTHER -> 2500)
          /\ custom = (CASE is.complexity = "complex" -> 5000 [] is.complexity = "moderate" -> 2500 [] OTHER -> 0)
          /\ monthly = IF is.dedicated THEN 1500 ELSE 0
  OBVIOUS
<1>4. setup \in Nat /\ custom \in Nat /\ monthly \in Nat
  <2>1. CASE is.complexity = "complex"
    BY <1>1, <1>3, <2>1
  <2>2. CASE is.complexity = "moderate"
    BY <1>1, <1>3, <2>2
  <2>3. CASE is.complexity = "simple"
    BY <1>1, <1>3, <2>3
  <2> QED
    BY <1>1, <2>1, <2>2, <2>3
<1>5. IntegrationCosts(is) = [setup |-> setup, monthly |-> monthly, custom |-> custom,
                              total |-> setup + custom + monthly * 12]
  BY <1>3 DEF IntegrationCosts
<1>6. IntegrationCosts(is) \in [setup : Nat, monthly : Nat, custom : Nat, total : Nat]
  BY <1>4, <1>5
<1> QED
  BY <1>1, <1>2, <1>6 DEF IntegrationConfig, IntegrationRecord

LEMMA MarginsAre ==
    /\ NoMargin \notin MarginConfig
    /\ \A is \in SubmissionRecord : InitialMargin(is) \in MarginConfig /\ InitialMargin(is).active = FALSE
    /\ \A config \in MarginConfig, active \in BOOLEAN :
           /\ [config EXCEPT !.active = active] \in MarginConfig
           /\ [config EXCEPT !.active = active].active = active
    /\ \A config \in MarginConfig, base \in Nat :
           /\ [config EXCEPT !.base = base] \in MarginConfig
           /\ [config EXCEPT !.base = base].active = config.active
<1> DEFINE Tiers == [from : Nat, to : Nat, percentage : Nat]
           Rules == [on : {"amount", "performance"}, threshold : Nat, adjustment : Nat, type : AdjustmentKinds]
           Multipliers == {NoMultipliers} \union [high : Nat, standard : Nat, low : Nat]
<1>1. MarginConfig = [type : MarginKinds, base : Nat, tiers : Seq(Tiers), multipliers : Multipliers,
                      minimum : Nat, maximum : Nat, active : BOOLEAN, rules : Seq(Rules)]
  BY DEF MarginConfig
<1>2. <<>> \in Seq(Tiers) /\ <<>> \in Seq(Rules) /\ NoMultipliers \in Multipliers
  OBVIOUS
<1>3. PICK tiers, rules, multipliers : tiers = Seq(Tiers) /\ rules = Seq(Rules) /\ multipliers = Multipliers
  OBVIOUS
<1>4. MarginConfig = [type : MarginKinds, base : Nat, tiers : tiers, multipliers : multipliers,
                      minimum : Nat, maximum : Nat, active : BOOLEAN, rules : rules]
  BY <1>1, <1>3
<1>5. <<>> \in tiers /\ <<>> \in rules /\ NoMultipliers \in multipliers
  BY <1>2, <1>3
<1> HIDE DEF Tiers, Rules, Multipliers
<1>6. NoMargin \notin MarginConfig
  BY <1>4 DEF NoMargin, MarginKinds
<1>7. ASSUME NEW is \in SubmissionRecord
      PROVE  InitialMargin(is) \in MarginConfig /\ InitialMargin(is).active = FALSE
  <2>1. is.percentage \in Nat /\ is.minimumFee \in Nat
    BY DEF SubmissionRecord
  <2>2. OrElse(is.percentage, Percent(5)) \in Nat /\ Percent(25) \in Nat
    BY <2>1 DEF OrElse, Percent
  <2>3. PICK kind \in MarginKinds : kind = IF is.structure = "percentage" THEN "fixed_percentage" ELSE "tiered"
    BY DEF MarginKinds
  <2>4. PICK base \in Nat, maximum \in Nat : base = OrElse(is.percentage, Percent(5)) /\ maximum = Percent(25)
    BY <2>2
  <2>5. InitialMargin(is) = [type |-> kind, base |-> base, tiers |-> <<>>, multipliers |-> NoMultipliers,
                             minimum |-> is.minimumFee, maximum |-> maximum, rules |-> <<>>, active |-> FALSE]
    BY <2>3, <2>4 DEF InitialMargin
  <2>6. [type |-> kind, base |-> base, tiers |-> <<>>, multipliers |-> NoMultipliers,
         minimum |-> is.minimumFee, maximum |-> maximum, rules |-> <<>>, active |-> FALSE] \in MarginConfig
    BY <1>4, <1>5, <2>1
  <2>7. InitialMargin(is) \in MarginConfig
    BY <2>5, <2>6
  <2>8. InitialMargin(is).active = FALSE
    BY <2>5
  <2> QED
    BY <2>7, <2>8
<1>8. ASSUME NEW config \in MarginConfig, NEW active \in BOOLEAN
      PROVE  /\ [config EXCEPT !.active = active] \in MarginConfig
             /\ [config EXCEPT !.active = active].active = active
  BY <1>4
<1>9. ASSUME NEW config \in MarginConfig, NEW base \in Nat
      PROVE  /\ [config EXCEPT !.base = base] \in MarginConfig
             /\ [config EXCEPT !.base = base].active = config.active
  BY <1>4
<1> QED
  BY <1>6, <1>7, <1>8, <1>9

LEMMA MarginFields ==
    \A config \in MarginConfig : config.active \in BOOLEAN /\ config.base \in Nat /\ config.maximum \in Nat
  BY DEF MarginConfig

LEMMA OptimizedIsNatural ==
    \A config \in MarginConfig, goal \in {0, Percent(40)} : OptimizedBase(config, goal) \in Nat
<1> SUFFICES ASSUME NEW config \in MarginConfig, NEW goal \in {0, Percent(40)} PROVE OptimizedBase(config, goal) \in Nat
  OBVIOUS
<1>1. PICK base \in Nat, maximum \in Nat : base = config.base /\ maximum = config.maximum
  BY MarginFields
<1>2. (base * 11) \div 10 \in Nat
  OBVIOUS
<1>3. goal \in Nat
  BY DEF Percent
<1> QED
  BY <1>1, <1>2, <1>3 DEF OptimizedBase, Lesser

LEMMA ProvidersAre ==
    /\ NoConfig \notin ProviderRecord /\ NoConfig \notin IntegrationRecord
    /\ \A r \in ProviderRecord :
           /\ r.email \in ProviderEmails /\ r.status \in OnboardingStates /\ r.is \in Submissions
           /\ \A status \in OnboardingStates :
                  /\ [r EXCEPT !.status = status] \in ProviderRecord
                  /\ [r EXCEPT !.status = status].status = status
                  /\ [r EXCEPT !.status = status].email = r.email /\ [r EXCEPT !.status = status].is = r.is
    /\ \A r \in IntegrationRecord :
           /\ [r EXCEPT !.status = "in_progress"] \in IntegrationRecord
           /\ [r EXCEPT !.status = "in_progress"].status = "in_progress"
<1>1. NoConfig \notin ProviderRecord /\ NoConfig \notin IntegrationRecord
  BY DEF NoConfig, ProviderRecord, IntegrationRecord, OnboardingStates
<1>2. ASSUME NEW r \in ProviderRecord
      PROVE  /\ r.email \in ProviderEmails /\ r.status \in OnboardingStates /\ r.is \in Submissions
             /\ \A status \in OnboardingStates :
                    /\ [r EXCEPT !.status = status] \in ProviderRecord
                    /\ [r EXCEPT !.status = status].status = status
                    /\ [r EXCEPT !.status = status].email = r.email /\ [r EXCEPT !.status = status].is = r.is
  BY DEF ProviderRecord
<1>3. ASSUME NEW r \in IntegrationRecord
      PROVE  /\ [r EXCEPT !.status = "in_progress"] \in IntegrationRecord
             /\ [r EXCEPT !.status = "in_progress"].status = "in_progress"
  BY DEF IntegrationRecord
<1> QED
  BY <1>1, <1>2, <1>3

LEMMA SubmissionsAre == Submissions \subseteq SubmissionRecord /\ \A is \in Submissions : is.support \in BOOLEAN
  BY AdminAssumption DEF SubmissionRecord

LEMMA AdminCallsAre ==
    /\ Resting \in AdminCalls
    /\ \A email \in ProviderEmails, is \in Submissions :
           [pc |-> "createProvider", email |-> email, is |-> is] \in AdminCalls
    /\ \A p \in Lenders, spec \in IntegrationSpecs : [pc |-> "ping", of |-> p, spec |-> spec] \in AdminCalls
    /\ \A call \in AdminCalls :
           /\ call.pc = "createProvider" => call.email \in ProviderEmails /\ call.is \in Submissions
           /\ call.pc = "ping" => call.of \in Lenders
<1>1. Resting.pc = "resting"
  BY Marks
<1> QED
  BY <1>1 DEF AdminCalls

-----------------------------------------------------------------------------
\* A step that decides nothing about a provider leaves what is held of it true.
LEMMA Untouched ==
    ASSUME NEW p, Undecided(p), Consistent(p), Followed(p),
           onboardings'[p] = onboardings[p], integrations'[p] = integrations[p],
           Entries(p, "provider_approved")' = Entries(p, "provider_approved"),
           Entries(p, "provider_rejected")' = Entries(p, "provider_rejected"),
           \A i \in Decided(p) : adminLog'[i] = adminLog[i],
           Informed(p)' = Informed(p), \A i \in Informed(p) : mails'[i] = mails[i],
           Milestones(p)' = Milestones(p),
           Onboarded(p) => margins'[p] # NoMargin /\ margins'[p].active = margins[p].active
    PROVE  Undecided(p)' /\ Consistent(p)' /\ Followed(p)'
<1>1. /\ Onboarded(p)' <=> Onboarded(p)
      /\ Approved(p)' <=> Approved(p)
      /\ EverApproved(p)' <=> EverApproved(p)
      /\ Decided(p)' = Decided(p)
  BY DEF Onboarded, Approved, EverApproved, Decided
<1>2. Begun(p)' <=> Begun(p)
  BY <1>1 DEF Begun
<1>3. Undecided(p)'
  BY <1>1 DEF Undecided
<1>4. Consistent(p)'
  BY <1>1 DEF Consistent
<1>5. \A i, j \in Entries(p, "provider_approved")' : i = j
  BY DEF Followed
<1>6. integrations'[p] # NoConfig <=> Onboarded(p)' /\ onboardings'[p].is.support
  BY <1>1 DEF Followed
<1>7. integrations'[p] # NoConfig => (integrations'[p].status = "in_progress" <=> Begun(p)')
  BY <1>2 DEF Followed
<1>8. IF Begun(p)' THEN \E n \in Nat : Milestones(p)' = (n + 1)..(n + 4) ELSE Milestones(p)' = {}
  BY <1>2 DEF Followed
<1>9. Onboarded(p)' => margins'[p] # NoMargin /\ (margins'[p].active <=> EverApproved(p)')
  BY <1>1 DEF Followed
<1> QED
  BY <1>3, <1>4, <1>5, <1>6, <1>7, <1>8, <1>9 DEF Followed

\* So does one that neither logs nor mails a decision, whoever's providers they are.
LEMMA NothingDecided ==
    ASSUME AdminInv, AdminTyped', UNCHANGED <<onboardings, integrations, adminCalls, lookedForTwice>>,
           \A p \in Lenders :
               /\ Entries(p, "provider_approved")' = Entries(p, "provider_approved")
               /\ Entries(p, "provider_rejected")' = Entries(p, "provider_rejected")
               /\ \A i \in Decided(p) : adminLog'[i] = adminLog[i]
               /\ Informed(p)' = Informed(p) /\ \A i \in Informed(p) : mails'[i] = mails[i]
               /\ Milestones(p)' = Milestones(p)
               /\ Onboarded(p) => margins'[p] # NoMargin /\ margins'[p].active = margins[p].active
    PROVE  AdminInv'
<1>1. ASSUME NEW p \in Lenders PROVE Undecided(p)' /\ Consistent(p)' /\ Followed(p)'
  BY Untouched DEF AdminInv
<1>2. SearchesAreKnown' /\ ProvidersAreDistinct'
  BY DEF AdminInv, SearchesAreKnown, ProvidersAreDistinct, Looking, Onboarded
<1> QED
  BY <1>1, <1>2 DEF AdminInv

\* A log entry that is no decision, and the mails that go with it.
LEMMA PlainEntries ==
    ASSUME AdminTyped, NEW p \in Lenders, NEW action \in LogActions \ Decisions, logAdminAction(p, action)
    PROVE  /\ adminLog' \in Seq(LogEntry)
           /\ \A q \in Lenders :
                  /\ Entries(q, "provider_approved")' = Entries(q, "provider_approved")
                  /\ Entries(q, "provider_rejected")' = Entries(q, "provider_rejected")
                  /\ \A i \in Decided(q) : adminLog'[i] = adminLog[i]
<1>0. adminLog \in Seq(LogEntry)
  BY DEF AdminTyped
<1>1. /\ adminLog' \in Seq(LogEntry)
      /\ \A q, a : Entries(q, a) \subseteq 1..Len(adminLog)
      /\ \A q, a : q # p \/ a # action => Entries(q, a)' = Entries(q, a)
      /\ \A i \in 1..Len(adminLog) : adminLog'[i] = adminLog[i]
  BY <1>0, Logging
<1>2. action # "provider_approved" /\ action # "provider_rejected"
  BY DEF Decisions
<1> QED
  BY <1>1, <1>2 DEF Decided

\* A step that logs nothing.
LEMMA SameLog ==
    ASSUME UNCHANGED adminLog
    PROVE  \A q \in Lenders :
               /\ Entries(q, "provider_approved")' = Entries(q, "provider_approved")
               /\ Entries(q, "provider_rejected")' = Entries(q, "provider_rejected")
               /\ \A i \in Decided(q) : adminLog'[i] = adminLog[i]
  BY DEF Entries

LEMMA SameMails ==
    ASSUME UNCHANGED mails
    PROVE  \A q \in Lenders : Informed(q)' = Informed(q) /\ \A i \in Informed(q) : mails'[i] = mails[i]
  BY DEF Informed

LEMMA SameRequests ==
    ASSUME UNCHANGED serviceRequests PROVE \A q \in Lenders : Milestones(q)' = Milestones(q)
  BY DEF Milestones

LEMMA SameMargins ==
    ASSUME AdminInv, UNCHANGED margins
    PROVE  \A q \in Lenders : Onboarded(q) => margins'[q] # NoMargin /\ margins'[q].active = margins[q].active
  BY DEF AdminInv, Followed

LEMMA OneMail ==
    ASSUME AdminTyped, NEW mail \in MailRecord, mail.type \notin Decisions, Send(<<mail>>)
    PROVE  /\ mails' \in Seq(MailRecord)
           /\ \A q \in Lenders : Informed(q)' = Informed(q) /\ \A i \in Informed(q) : mails'[i] = mails[i]
<1>1. PICK sent \in Seq(MailRecord) : sent = <<mail>> /\ Len(sent) = 1 /\ sent[1] = mail
  <2>1. <<mail>> \in Seq(MailRecord) /\ Len(<<mail>>) = 1 /\ <<mail>>[1] = mail
    OBVIOUS
  <2> QED
    BY <2>1
<1>2. \A i \in 1..Len(sent) : sent[i].type \notin Decisions
  BY <1>1
<1>3. Send(sent) /\ mails \in Seq(MailRecord)
  BY <1>1 DEF AdminTyped
<1> QED
  BY <1>2, <1>3, QuietMails

LEMMA MailsAre ==
    ASSUME NEW type \in MailTypes, NEW of \in Lenders \union {"integration"},
           NEW to \in Assigned \union {"admin", "provider", "nobody"}
    PROVE  Mail(type, of, to) \in MailRecord /\ Mail(type, of, to).type = type /\ Mail(type, of, to).of = of
  BY DEF Mail, MailRecord

LEMMA PlainMails ==
    /\ \A p \in Lenders, engineer \in Assigned :
           \A sent \in {OnboardingMail(p), ServiceRequestMail(p, engineer), MarginMail(p),
                        CustomIntegrationMail(p), APISetupMail(p), DeploymentMail} :
               \E mail \in MailRecord : sent = <<mail>> /\ mail.type \notin Decisions
<1> SUFFICES ASSUME NEW p \in Lenders, NEW engineer \in Assigned
             PROVE  \A sent \in {OnboardingMail(p), ServiceRequestMail(p, engineer), MarginMail(p),
                                 CustomIntegrationMail(p), APISetupMail(p), DeploymentMail} :
                        \E mail \in MailRecord : sent = <<mail>> /\ mail.type \notin Decisions
  OBVIOUS
<1>0. {"provider_onboarding", "service_request", "margin_updated", "custom_integration", "api_setup_completed",
       "deployment_completed"} \subseteq MailTypes \ Decisions
  BY DEF MailTypes, Decisions
<1>1. \E mail \in MailRecord : OnboardingMail(p) = <<mail>> /\ mail.type \notin Decisions
  BY <1>0, MailsAre DEF OnboardingMail
<1>2. \E mail \in MailRecord : ServiceRequestMail(p, engineer) = <<mail>> /\ mail.type \notin Decisions
  BY <1>0, MailsAre DEF ServiceRequestMail
<1>3. \E mail \in MailRecord : MarginMail(p) = <<mail>> /\ mail.type \notin Decisions
  BY <1>0, MailsAre DEF MarginMail
<1>4. \E mail \in MailRecord : CustomIntegrationMail(p) = <<mail>> /\ mail.type \notin Decisions
  BY <1>0, MailsAre DEF CustomIntegrationMail
<1>5. \E mail \in MailRecord : APISetupMail(p) = <<mail>> /\ mail.type \notin Decisions
  BY <1>0, MailsAre DEF APISetupMail
<1>6. \E mail \in MailRecord : DeploymentMail = <<mail>> /\ mail.type \notin Decisions
  BY <1>0, MailsAre DEF DeploymentMail
<1> QED
  BY <1>1, <1>2, <1>3, <1>4, <1>5, <1>6

LEMMA PlainSending ==
    ASSUME AdminTyped, NEW p \in Lenders, NEW engineer \in Assigned,
           NEW sent \in {OnboardingMail(p), ServiceRequestMail(p, engineer), MarginMail(p),
                         CustomIntegrationMail(p), APISetupMail(p), DeploymentMail}, Send(sent)
    PROVE  /\ mails' \in Seq(MailRecord)
           /\ \A q \in Lenders : Informed(q)' = Informed(q) /\ \A i \in Informed(q) : mails'[i] = mails[i]
<1>1. PICK mail \in MailRecord : sent = <<mail>> /\ mail.type \notin Decisions
  BY PlainMails
<1> QED
  BY <1>1, OneMail

-----------------------------------------------------------------------------
\* Steps that decide nothing.
LEMMA ServiceRequestKeeps ==
    ASSUME AdminInv, NEW p \in Lenders, NEW kind \in RequestTypes, createCustomerServiceRequest(p, kind)
    PROVE  AdminInv'
<1>0. AdminTyped
  BY DEF AdminInv
<1>1. PICK engineer \in Assigned : engineer = assignEnginner(kind)
  BY AssignedIs
<1>2. PICK r \in RequestRecord : r = ServiceRequest(p, kind, engineer, 0, 0) /\ r.hours = 0
  <2>1. kind \in WorkKinds
    BY DEF WorkKinds
  <2>2. [of |-> p, kind |-> kind, engineer |-> engineer, hours |-> 0, cost |-> 0] \in RequestRecord
    BY <2>1 DEF RequestRecord
  <2> QED
    BY <2>2 DEF ServiceRequest
<1>3. /\ serviceRequests' = Append(serviceRequests, r) /\ Send(ServiceRequestMail(p, engineer))
      /\ logAdminAction(p, "service_request_created")
      /\ UNCHANGED <<onboardings, integrations, margins, adminCalls, Work, recordedScore, lookedForTwice>>
  BY <1>1, <1>2 DEF createCustomerServiceRequest
<1>4. serviceRequests' \in Seq(RequestRecord) /\ \A q \in Lenders : Milestones(q)' = Milestones(q)
  BY <1>0, <1>2, <1>3, Requesting DEF AdminTyped
<1>5. "service_request_created" \in LogActions \ Decisions
  BY DEF LogActions, Decisions
<1>6. /\ mails' \in Seq(MailRecord)
      /\ \A q \in Lenders : Informed(q)' = Informed(q) /\ \A i \in Informed(q) : mails'[i] = mails[i]
  BY <1>0, <1>3, PlainSending
<1>7. /\ adminLog' \in Seq(LogEntry)
      /\ \A q \in Lenders :
             /\ Entries(q, "provider_approved")' = Entries(q, "provider_approved")
             /\ Entries(q, "provider_rejected")' = Entries(q, "provider_rejected")
             /\ \A i \in Decided(q) : adminLog'[i] = adminLog[i]
  BY <1>0, <1>3, <1>5, PlainEntries
<1>8. AdminTyped'
  BY <1>0, <1>3, <1>4, <1>6, <1>7 DEF AdminTyped, Work
<1>9. \A q \in Lenders : Onboarded(q) => margins'[q] # NoMargin /\ margins'[q].active = margins[q].active
  BY <1>3, SameMargins
<1> QED
  BY <1>3, <1>4, <1>6, <1>7, <1>8, <1>9, NothingDecided

\* A margin that is put keeps being active or not.
LEMMA MarginPut ==
    ASSUME AdminInv, NEW p \in Lenders, NEW config \in MarginConfig, PutMargin(p, config),
           mails' \in Seq(MailRecord),
           \A q \in Lenders : Informed(q)' = Informed(q) /\ \A i \in Informed(q) : mails'[i] = mails[i]
    PROVE  AdminInv'
<1>0. AdminTyped
  BY DEF AdminInv
<1>1. /\ logAdminAction(p, "margin_updated")
      /\ UNCHANGED <<onboardings, integrations, serviceRequests, adminCalls, Work, recordedScore, lookedForTwice>>
  BY DEF PutMargin
<1>2. PICK active \in BOOLEAN : active = IF margins[p] = NoMargin THEN FALSE ELSE margins[p].active
  BY <1>0, MarginFields DEF AdminTyped
<1>3. PICK put \in MarginConfig : put = [config EXCEPT !.active = active] /\ put.active = active
  BY MarginsAre
<1>4. margins' = [margins EXCEPT ![p] = put]
  BY <1>2, <1>3 DEF PutMargin
<1>5. margins \in [Lenders -> MarginConfig \union {NoMargin}]
  BY <1>0 DEF AdminTyped
<1>6. margins' \in [Lenders -> MarginConfig \union {NoMargin}]
  BY <1>4, <1>5
<1>7. ASSUME NEW q \in Lenders, Onboarded(q) PROVE margins'[q] # NoMargin /\ margins'[q].active = margins[q].active
  <2>1. margins[q] # NoMargin
    BY <1>7 DEF AdminInv, Followed
  <2>2. CASE q = p
    <3>1. margins'[q] = put /\ active = margins[q].active
      BY <1>2, <1>4, <1>5, <2>1, <2>2
    <3> QED
      BY <1>3, <3>1, MarginsAre
  <2>3. CASE q # p
    BY <1>4, <1>5, <2>1, <2>3
  <2> QED
    BY <2>2, <2>3
<1>8. "margin_updated" \in LogActions \ Decisions
  BY DEF LogActions, Decisions
<1>9. /\ adminLog' \in Seq(LogEntry)
      /\ \A q \in Lenders :
             /\ Entries(q, "provider_approved")' = Entries(q, "provider_approved")
             /\ Entries(q, "provider_rejected")' = Entries(q, "provider_rejected")
             /\ \A i \in Decided(q) : adminLog'[i] = adminLog[i]
  BY <1>0, <1>1, <1>8, PlainEntries
<1>10. \A q \in Lenders : Milestones(q)' = Milestones(q)
  BY <1>1, SameRequests
<1>11. AdminTyped'
  BY <1>0, <1>1, <1>6, <1>9 DEF AdminTyped, Work
<1> QED
  BY <1>1, <1>7, <1>9, <1>10, <1>11, NothingDecided

LEMMA MarginStepsKeep ==
    ASSUME AdminInv, NEW p \in Lenders, NEW config \in MarginUpdates,
           updateMarginConfiguration(p, config) \/ updateValidatedMargin(p, config)
    PROVE  AdminInv'
<1>0. AdminTyped /\ config \in MarginConfig
  BY AdminAssumption DEF AdminInv
<1>1. CASE updateMarginConfiguration(p, config)
  <2>1. PutMargin(p, config) /\ Send(MarginMail(p))
    BY <1>1 DEF updateMarginConfiguration
  <2>2. "alice" \in Assigned
    BY DEF Assigned
  <2>3. /\ mails' \in Seq(MailRecord)
        /\ \A q \in Lenders : Informed(q)' = Informed(q) /\ \A i \in Informed(q) : mails'[i] = mails[i]
    BY <1>0, <2>1, <2>2, PlainSending
  <2> QED
    BY <1>0, <2>1, <2>3, MarginPut
<1>2. CASE updateValidatedMargin(p, config)
  <2>1. PutMargin(p, config) /\ UNCHANGED mails
    BY <1>2 DEF updateValidatedMargin
  <2>2. mails' \in Seq(MailRecord)
    BY <1>0, <2>1 DEF AdminTyped
  <2>3. \A q \in Lenders : Informed(q)' = Informed(q) /\ \A i \in Informed(q) : mails'[i] = mails[i]
    BY <2>1, SameMails
  <2> QED
    BY <1>0, <2>1, <2>2, <2>3, MarginPut
<1> QED
  BY <1>1, <1>2

LEMMA OptimizingKeeps ==
    ASSUME AdminInv, NEW p \in Lenders, NEW goal \in {0, Percent(40)}, optimizeMarginConfiguration(p, goal)
    PROVE  AdminInv'
<1>0. AdminTyped
  BY DEF AdminInv
<1>1. UNCHANGED <<onboardings, integrations, serviceRequests, adminLog, mails, adminCalls, Work, lookedForTwice>>
  BY DEF optimizeMarginConfiguration
<1>2. margins \in [Lenders -> MarginConfig \union {NoMargin}] /\ margins[p] \in MarginConfig
  BY <1>0 DEF AdminTyped, optimizeMarginConfiguration
<1>3. PICK base \in Nat : base = OptimizedBase(margins[p], goal)
  BY <1>2, OptimizedIsNatural
<1>4. PICK put \in MarginConfig : put = [margins[p] EXCEPT !.base = base] /\ put.active = margins[p].active
  <2>1. PICK config \in MarginConfig : config = margins[p]
    BY <1>2
  <2>2. /\ [config EXCEPT !.base = base] \in MarginConfig
        /\ [config EXCEPT !.base = base].active = config.active
    BY MarginsAre
  <2> QED
    BY <2>1, <2>2
<1>5. margins' = [margins EXCEPT ![p] = put]
  BY <1>2, <1>3, <1>4 DEF optimizeMarginConfiguration
<1>6. margins' \in [Lenders -> MarginConfig \union {NoMargin}]
  BY <1>2, <1>5
<1>7. ASSUME NEW q \in Lenders, Onboarded(q) PROVE margins'[q] # NoMargin /\ margins'[q].active = margins[q].active
  <2>1. margins[q] # NoMargin
    BY <1>7 DEF AdminInv, Followed
  <2> QED
    BY <1>2, <1>4, <1>5, <2>1, MarginsAre
<1>8. AdminTyped'
  BY <1>0, <1>1, <1>6 DEF AdminTyped, Work
<1> QED
  BY <1>1, <1>7, <1>8, SameLog, SameMails, SameRequests, NothingDecided

LEMMA EngineeringKeeps ==
    ASSUME AdminInv, EngineeringNext \/ clearNotificationQueue
    PROVE  AdminInv'
<1>0. AdminTyped /\ "alice" \in Assigned
  BY DEF AdminInv, Assigned
<1>1. ASSUME NEW k \in Clients, NEW p \in Lenders, NEW spec \in IntegrationSpecs, validateIntegrationSpec(k, p, spec)
      PROVE  AdminInv'
  <2>1. PICK call \in AdminCalls : call = [pc |-> "ping", of |-> p, spec |-> spec] /\ call.pc = "ping"
    BY AdminCallsAre
  <2>2. /\ adminCalls' = [adminCalls EXCEPT ![k] = call]
        /\ UNCHANGED <<onboardings, integrations, margins, serviceRequests, adminLog, mails, Work, lookedForTwice>>
    BY <1>1, <2>1 DEF validateIntegrationSpec, CallBegins
  <2>3. AdminTyped'
    BY <1>0, <2>2 DEF AdminTyped, Work
  <2>4. \A j \in Clients : \A email : Looking(j, email)' => Looking(j, email)
    BY <1>0, <2>1, <2>2 DEF Looking, AdminTyped
  <2>5. SearchesAreKnown' /\ ProvidersAreDistinct'
    BY <2>2, <2>4 DEF AdminInv, SearchesAreKnown, ProvidersAreDistinct, Onboarded
  <2>6. ASSUME NEW q \in Lenders PROVE Undecided(q)' /\ Consistent(q)' /\ Followed(q)'
    BY <2>2, SameLog, SameMails, SameRequests, SameMargins, Untouched DEF AdminInv
  <2> QED
    BY <2>3, <2>5, <2>6 DEF AdminInv
<1>2. ASSUME NEW k \in Clients, createCustomIntegration(k) PROVE AdminInv'
  <2>1. PICK of \in Lenders : of = adminCalls[k].of
    BY <1>0, <1>2, AdminCallsAre DEF createCustomIntegration, AdminTyped
  <2>2. PICK r \in RequestRecord : r = CustomRequest(of) /\ r.engineer # "alice"
    <3>1. Undefined \in Assigned /\ Undefined # "alice" /\ "custom_development" \in WorkKinds
      BY DEF Undefined, Assigned, WorkKinds, RequestTypes
    <3>2. PICK engineer \in Assigned : engineer = Undefined /\ engineer # "alice"
      BY <3>1
    <3>3. [of |-> of, kind |-> "custom_development", engineer |-> engineer, hours |-> 40, cost |-> 8000]
              \in RequestRecord
      BY <3>1 DEF RequestRecord
    <3> QED
      BY <3>2, <3>3 DEF CustomRequest, ServiceRequest
  <2>3. /\ serviceRequests' = Append(serviceRequests, r) /\ Send(CustomIntegrationMail(of))
        /\ adminCalls' = [adminCalls EXCEPT ![k] = Resting]
        /\ UNCHANGED <<onboardings, integrations, margins, adminLog, deployments, lookedForTwice>>
    BY <1>2, <2>1, <2>2 DEF createCustomIntegration, CallEnds
  <2>4. serviceRequests' \in Seq(RequestRecord) /\ \A q \in Lenders : Milestones(q)' = Milestones(q)
    BY <1>0, <2>2, <2>3, Requesting DEF AdminTyped
  <2>5. /\ mails' \in Seq(MailRecord)
        /\ \A q \in Lenders : Informed(q)' = Informed(q) /\ \A i \in Informed(q) : mails'[i] = mails[i]
    BY <1>0, <2>3, PlainSending
  <2>6. AdminTyped'
    BY <1>0, <2>3, <2>4, <2>5, AdminCallsAre DEF AdminTyped
  <2>7. \A j \in Clients : \A email : Looking(j, email)' => Looking(j, email)
    BY <1>0, <2>3, Marks DEF Looking, AdminTyped
  <2>8. SearchesAreKnown' /\ ProvidersAreDistinct'
    BY <2>3, <2>7 DEF AdminInv, SearchesAreKnown, ProvidersAreDistinct, Onboarded
  <2>9. ASSUME NEW q \in Lenders PROVE Undecided(q)' /\ Consistent(q)' /\ Followed(q)'
    BY <2>3, <2>4, <2>5, SameLog, SameMargins, Untouched DEF AdminInv
  <2> QED
    BY <2>6, <2>8, <2>9 DEF AdminInv
<1>3. ASSUME NEW mail \in MailRecord, mail.type \notin Decisions, Send(<<mail>>),
             UNCHANGED <<onboardings, integrations, margins, serviceRequests, adminLog, adminCalls, lookedForTwice>>,
             deployments' \in Seq([compatible : BOOLEAN, status : {"deploying", "completed"}])
      PROVE  AdminInv'
  <2>1. /\ mails' \in Seq(MailRecord)
        /\ \A q \in Lenders : Informed(q)' = Informed(q) /\ \A i \in Informed(q) : mails'[i] = mails[i]
    BY <1>0, <1>3, OneMail
  <2>2. AdminTyped'
    BY <1>0, <1>3, <2>1 DEF AdminTyped
  <2> QED
    BY <1>3, <2>1, <2>2, SameLog, SameRequests, SameMargins, NothingDecided
<1>4. ASSUME NEW p \in Lenders, setupProviderAPI(p) PROVE AdminInv'
  <2>1. PICK mail \in MailRecord : APISetupMail(p) = <<mail>> /\ mail.type \notin Decisions
    BY <1>0, PlainMails
  <2>2. /\ Send(<<mail>>)
        /\ UNCHANGED <<onboardings, integrations, margins, serviceRequests, adminLog, adminCalls, deployments,
                       lookedForTwice>>
    BY <1>4, <2>1 DEF setupProviderAPI
  <2> QED
    BY <1>0, <1>3, <2>1, <2>2 DEF AdminTyped
<1>5. ASSUME NEW compatible \in BOOLEAN, deployIntegrationUpdate(compatible) PROVE AdminInv'
  <2>1. PICK one : one = [compatible |-> compatible, status |-> "deploying"]
                   /\ one \in [compatible : BOOLEAN, status : {"deploying", "completed"}]
    <3>1. [compatible |-> compatible, status |-> "deploying"]
              \in [compatible : BOOLEAN, status : {"deploying", "completed"}]
      OBVIOUS
    <3> QED
      BY <3>1
  <2>2. /\ deployments' = Append(deployments, one)
        /\ UNCHANGED <<onboardings, integrations, margins, serviceRequests, adminLog, mails, adminCalls,
                       lookedForTwice>>
    BY <1>5, <2>1 DEF deployIntegrationUpdate
  <2>3. deployments' \in Seq([compatible : BOOLEAN, status : {"deploying", "completed"}])
    BY <1>0, <2>1, <2>2, AppendProperties DEF AdminTyped
  <2>4. AdminTyped'
    BY <1>0, <2>2, <2>3 DEF AdminTyped
  <2> QED
    BY <2>2, <2>4, SameLog, SameMails, SameRequests, SameMargins, NothingDecided
<1>6. ASSUME NEW i \in DOMAIN deployments, executeDeployment(i) PROVE AdminInv'
  <2>1. deployments \in Seq([compatible : BOOLEAN, status : {"deploying", "completed"}])
    BY <1>0 DEF AdminTyped
  <2>2. PICK one : one \in [compatible : BOOLEAN, status : {"deploying", "completed"}]
                   /\ one = deployments[i]
    <3>1. deployments[i] \in [compatible : BOOLEAN, status : {"deploying", "completed"}]
      <4>1. PICK S : S = [compatible : BOOLEAN, status : {"deploying", "completed"}]
        OBVIOUS
      <4>2. deployments \in Seq(S)
        BY <2>1, <4>1
      <4>3. i \in 1..Len(deployments)
        BY <4>2, LenProperties
      <4> QED
        BY <4>1, <4>2, <4>3, ElementOfSeq
    <3> QED
      BY <3>1
  <2>3. PICK done : done \in [compatible : BOOLEAN, status : {"deploying", "completed"}]
                    /\ done = [one EXCEPT !.status = "completed"]
    BY <2>2
  <2>4. /\ deployments' = [deployments EXCEPT ![i] = done] /\ Send(DeploymentMail)
        /\ UNCHANGED <<onboardings, integrations, margins, serviceRequests, adminLog, adminCalls, lookedForTwice>>
    BY <1>6, <2>2, <2>3 DEF executeDeployment
  <2>5. deployments' \in Seq([compatible : BOOLEAN, status : {"deploying", "completed"}])
    BY <2>1, <2>3, <2>4, ExceptSeq, LenProperties
  <2>6. "deployment_completed" \in MailTypes \ Decisions
    BY DEF MailTypes, Decisions
  <2>7. PICK mail \in MailRecord : DeploymentMail = <<mail>> /\ mail.type \notin Decisions
    BY <2>6, MailsAre DEF DeploymentMail
  <2> QED
    BY <1>3, <2>4, <2>5, <2>7
<1>7. CASE clearNotificationQueue
  <2>1. /\ mails' = <<>>
        /\ UNCHANGED <<onboardings, integrations, margins, serviceRequests, adminLog, adminCalls, deployments,
                       lookedForTwice>>
    BY <1>7 DEF clearNotificationQueue, Work
  <2>2. \A q : Informed(q)' = {}
    BY <2>1 DEF Informed
  <2>3. AdminTyped'
    BY <1>0, <2>1 DEF AdminTyped
  <2>4. SearchesAreKnown' /\ ProvidersAreDistinct'
    BY <2>1 DEF AdminInv, SearchesAreKnown, ProvidersAreDistinct, Looking, Onboarded
  <2>5. ASSUME NEW q \in Lenders PROVE Undecided(q)' /\ Consistent(q)' /\ Followed(q)'
    <3>1. /\ Entries(q, "provider_approved")' = Entries(q, "provider_approved")
          /\ Decided(q)' = Decided(q) /\ (EverApproved(q)' <=> EverApproved(q))
          /\ Milestones(q)' = Milestones(q)
      BY <2>1 DEF Entries, Decided, EverApproved, Milestones
    <3>2. (Onboarded(q)' <=> Onboarded(q)) /\ (Approved(q)' <=> Approved(q)) /\ (Begun(q)' <=> Begun(q))
      BY <2>1, <3>1 DEF Onboarded, Approved, Begun
    <3>3. Undecided(q) /\ Consistent(q) /\ Followed(q)
      BY DEF AdminInv
    <3>4. Undecided(q)'
      BY <2>1, <2>2, <3>1, <3>2, <3>3 DEF Undecided
    <3>5. Consistent(q)'
      BY <2>1, <2>2, <3>1, <3>2, <3>3 DEF Consistent
    <3>6. Followed(q)'
      BY <2>1, <3>1, <3>2, <3>3 DEF Followed
    <3> QED
      BY <3>4, <3>5, <3>6
  <2> QED
    BY <2>3, <2>4, <2>5 DEF AdminInv
<1>8. ASSUME NEW p \in Lenders, NEW kind \in RequestTypes, createCustomerServiceRequest(p, kind) PROVE AdminInv'
  BY <1>8, ServiceRequestKeeps
<1> QED
  BY <1>1, <1>2, <1>4, <1>5, <1>6, <1>7, <1>8 DEF EngineeringNext

\* Two creations that look for one address at once are remembered.
LEMMA LookingKeeps ==
    ASSUME AdminInv, NEW k \in Clients, NEW email \in ProviderEmails, NEW is \in Submissions,
           findByEmail(k, email, is)
    PROVE  AdminInv'
<1>0. AdminTyped
  BY DEF AdminInv
<1>1. PICK call \in AdminCalls : /\ call = [pc |-> "createProvider", email |-> email, is |-> is]
                                 /\ call.pc = "createProvider" /\ call.email = email
  BY AdminCallsAre
<1>2. /\ adminCalls' = [adminCalls EXCEPT ![k] = call] /\ adminCalls[k] = Resting /\ ~InUse(email)
      /\ UNCHANGED <<onboardings, integrations, margins, serviceRequests, adminLog, mails, Work>>
  BY <1>1 DEF findByEmail, CallBegins
<1>3. AdminTyped'
  BY <1>0, <1>2 DEF AdminTyped, Work
<1>4. /\ lookedForTwice \subseteq lookedForTwice'
      /\ (\E other \in Clients : Looking(other, email)) => email \in lookedForTwice'
  BY DEF findByEmail, Looking
<1>5. /\ \A j \in Clients : \A e : j # k => (Looking(j, e)' <=> Looking(j, e))
      /\ \A e : Looking(k, e)' <=> e = email
      /\ \A e : ~Looking(k, e)
  BY <1>0, <1>1, <1>2, Marks DEF AdminTyped, Looking
<1>6. ASSUME NEW j \in Clients, NEW i \in Clients, NEW e \in ProviderEmails, Looking(j, e)', Looking(i, e)', j # i
      PROVE  e \in lookedForTwice'
  <2>1. CASE j = k
    BY <1>4, <1>5, <1>6, <2>1
  <2>2. CASE i = k
    BY <1>4, <1>5, <1>6, <2>2
  <2>3. CASE j # k /\ i # k
    BY <1>4, <1>5, <1>6, <2>3 DEF AdminInv, SearchesAreKnown
  <2> QED
    BY <2>1, <2>2, <2>3
<1>7. ASSUME NEW j \in Clients, NEW p \in Lenders, Onboarded(p)', Looking(j, onboardings[p].email)'
      PROVE  onboardings'[p].email \in lookedForTwice'
  <2>1. Onboarded(p) /\ onboardings'[p] = onboardings[p]
    BY <1>2, <1>7 DEF Onboarded
  <2>2. PICK e : e = onboardings[p].email
    OBVIOUS
  <2>3. Looking(j, e)'
    BY <1>2, <1>7, <2>2 DEF Looking
  <2>4. e # email
    BY <1>2, <2>1, <2>2 DEF InUse
  <2>5. Looking(j, e)
    BY <1>5, <2>3, <2>4
  <2>6. e \in lookedForTwice
    BY <2>1, <2>2, <2>5 DEF AdminInv, SearchesAreKnown
  <2> QED
    BY <1>4, <2>1, <2>2, <2>6
<1>8. SearchesAreKnown'
  BY <1>2, <1>6, <1>7 DEF SearchesAreKnown
<1>9. ProvidersAreDistinct'
  BY <1>2, <1>4 DEF AdminInv, ProvidersAreDistinct, Onboarded
<1>10. ASSUME NEW q \in Lenders PROVE Undecided(q)' /\ Consistent(q)' /\ Followed(q)'
  BY <1>2, SameLog, SameMails, SameRequests, SameMargins, Untouched DEF AdminInv
<1> QED
  BY <1>3, <1>8, <1>9, <1>10 DEF AdminInv

LEMMA CreatingProviderKeeps ==
    ASSUME AdminInv, NEW k \in Clients, NEW p \in Lenders, createProviderOnboarding(k, p)
    PROVE  AdminInv'
<1>0. AdminTyped /\ "alice" \in Assigned
  BY DEF AdminInv, Assigned
<1>1. PICK email \in ProviderEmails, is \in Submissions :
          email = adminCalls[k].email /\ is = adminCalls[k].is /\ adminCalls[k].pc = "createProvider"
  BY <1>0, AdminCallsAre DEF createProviderOnboarding, AdminTyped
<1>2. is \in SubmissionRecord /\ is.support \in BOOLEAN
  BY SubmissionsAre
<1>3. PICK row \in ProviderRecord : /\ row = [email |-> email, status |-> "pending_review", is |-> is]
                                    /\ row.email = email /\ row.status = "pending_review" /\ row.is = is
  <2>1. [email |-> email, status |-> "pending_review", is |-> is] \in ProviderRecord
    BY DEF ProviderRecord, OnboardingStates
  <2> QED
    BY <2>1
<1>4. PICK margin \in MarginConfig : margin = InitialMargin(is) /\ margin.active = FALSE
  BY <1>2, MarginsAre
<1>5. PICK config \in IntegrationRecord : config = IntegrationConfig(is) /\ config.status = "pending"
  <2>1. IntegrationConfig(is).status = "pending"
    BY DEF IntegrationConfig
  <2> QED
    BY <1>2, <2>1, IntegrationsAre
<1>6. /\ onboardings' = [onboardings EXCEPT ![p] = row]
      /\ integrations' = (IF is.support THEN [integrations EXCEPT ![p] = config] ELSE integrations)
      /\ margins' = [margins EXCEPT ![p] = margin]
      /\ logAdminAction(p, "provider_created") /\ Send(OnboardingMail(p))
      /\ adminCalls' = [adminCalls EXCEPT ![k] = Resting]
      /\ UNCHANGED <<serviceRequests, Work, lookedForTwice>>
  BY <1>1, <1>3, <1>4, <1>5 DEF createProviderOnboarding, CallEnds
<1>7. ~Onboarded(p)
  BY DEF createProviderOnboarding
<1>8. "provider_created" \in LogActions \ Decisions
  BY DEF LogActions, Decisions
<1>9. /\ adminLog' \in Seq(LogEntry)
      /\ \A q \in Lenders :
             /\ Entries(q, "provider_approved")' = Entries(q, "provider_approved")
             /\ Entries(q, "provider_rejected")' = Entries(q, "provider_rejected")
             /\ \A i \in Decided(q) : adminLog'[i] = adminLog[i]
  BY <1>0, <1>6, <1>8, PlainEntries
<1>10. /\ mails' \in Seq(MailRecord)
       /\ \A q \in Lenders : Informed(q)' = Informed(q) /\ \A i \in Informed(q) : mails'[i] = mails[i]
  BY <1>0, <1>6, PlainSending
<1>11. \A q \in Lenders : Milestones(q)' = Milestones(q)
  BY <1>6, SameRequests
<1>12. /\ onboardings \in [Lenders -> ProviderRecord \union {NoConfig}]
       /\ integrations \in [Lenders -> IntegrationRecord \union {NoConfig}]
       /\ margins \in [Lenders -> MarginConfig \union {NoMargin}]
       /\ adminCalls \in [Clients -> AdminCalls]
  BY <1>0 DEF AdminTyped
<1>13. AdminTyped'
  <2>1. onboardings' \in [Lenders -> ProviderRecord \union {NoConfig}]
    BY <1>6, <1>12
  <2>2. integrations' \in [Lenders -> IntegrationRecord \union {NoConfig}]
    BY <1>6, <1>12
  <2>3. margins' \in [Lenders -> MarginConfig \union {NoMargin}]
    BY <1>6, <1>12
  <2>4. adminCalls' \in [Clients -> AdminCalls]
    BY <1>6, <1>12, AdminCallsAre
  <2> QED
    BY <1>0, <1>6, <1>9, <1>10, <2>1, <2>2, <2>3, <2>4 DEF AdminTyped, Work
<1>14. ASSUME NEW q \in Lenders, q # p PROVE Undecided(q)' /\ Consistent(q)' /\ Followed(q)'
  <2>1. onboardings'[q] = onboardings[q] /\ integrations'[q] = integrations[q] /\ margins'[q] = margins[q]
    BY <1>6, <1>12, <1>14
  <2>2. Undecided(q) /\ Consistent(q) /\ Followed(q)
    BY DEF AdminInv
  <2>3. Onboarded(q) => margins'[q] # NoMargin /\ margins'[q].active = margins[q].active
    BY <2>1, <2>2 DEF Followed
  <2> QED
    BY <1>9, <1>10, <1>11, <2>1, <2>2, <2>3, Untouched
<1>15. Undecided(p)' /\ Consistent(p)' /\ Followed(p)'
  <2>1. Decided(p)' = {} /\ Informed(p)' = {} /\ Milestones(p)' = {}
    <3>1. Decided(p) = {} /\ Informed(p) = {}
      BY <1>7 DEF AdminInv, Undecided
    <3>2. ~Begun(p)
      BY <3>1 DEF Begun, EverApproved, Decided
    <3>3. Milestones(p) = {}
      BY <3>2 DEF AdminInv, Followed
    <3> QED
      BY <1>9, <1>10, <1>11, <3>1, <3>3 DEF Decided
  <2>2. ~EverApproved(p)' /\ ~Begun(p)' /\ Entries(p, "provider_approved")' = {}
    BY <2>1 DEF Decided, EverApproved, Begun
  <2>3. Undecided(p)' /\ Consistent(p)'
    BY <2>1 DEF Undecided, Consistent
  <2>4. integrations[p] = NoConfig
    BY <1>7 DEF AdminInv, Followed
  <2>5. /\ onboardings'[p] = row /\ margins'[p] = margin
        /\ integrations'[p] = IF is.support THEN config ELSE NoConfig
    BY <1>6, <1>12, <2>4
  <2>6. Onboarded(p)'
    BY <2>5, ProvidersAre DEF Onboarded
  <2>7. integrations'[p] # NoConfig <=> Onboarded(p)' /\ onboardings'[p].is.support
    BY <1>2, <1>3, <2>5, <2>6, ProvidersAre
  <2>8. integrations'[p] # NoConfig => ~(integrations'[p].status = "in_progress")
    BY <1>5, <2>5
  <2>9. margins'[p] # NoMargin /\ ~margins'[p].active
    BY <1>4, <2>5, MarginsAre
  <2> QED
    BY <2>1, <2>2, <2>3, <2>7, <2>8, <2>9 DEF Followed
<1>16. /\ \A q \in Lenders : q # p => onboardings'[q] = onboardings[q]
       /\ onboardings'[p] = row
  BY <1>6, <1>12
<1>17. \A j \in Clients : \A e : Looking(j, e)' => j # k /\ Looking(j, e)
  BY <1>6, <1>12, Marks DEF Looking
<1>18. Looking(k, email)
  BY <1>1 DEF Looking
<1>19. ASSUME NEW q \in Lenders, q # p, Onboarded(q), onboardings[q].email = email PROVE email \in lookedForTwice
  BY <1>18, <1>19 DEF AdminInv, SearchesAreKnown
<1>20. ProvidersAreDistinct'
  <2>1. ASSUME NEW q \in Lenders, NEW r \in Lenders, Onboarded(q)', Onboarded(r)', q # r,
               onboardings'[q].email = onboardings'[r].email
        PROVE  onboardings'[q].email \in lookedForTwice'
    <3>1. CASE q = p
      BY <1>3, <1>6, <1>16, <1>19, <2>1, <3>1 DEF Onboarded
    <3>2. CASE r = p
      BY <1>3, <1>6, <1>16, <1>19, <2>1, <3>2 DEF Onboarded
    <3>3. CASE q # p /\ r # p
      BY <1>6, <1>16, <2>1, <3>3 DEF AdminInv, ProvidersAreDistinct, Onboarded
    <3> QED
      BY <3>1, <3>2, <3>3
  <2> QED
    BY <2>1 DEF ProvidersAreDistinct
<1>21. SearchesAreKnown'
  <2>1. ASSUME NEW i \in Clients, NEW j \in Clients, NEW e \in ProviderEmails, Looking(i, e)', Looking(j, e)', i # j
        PROVE  e \in lookedForTwice'
    BY <1>6, <1>17, <2>1 DEF AdminInv, SearchesAreKnown
  <2>2. ASSUME NEW j \in Clients, NEW q \in Lenders, Onboarded(q)', Looking(j, onboardings[q].email)'
        PROVE  onboardings'[q].email \in lookedForTwice'
    <3>1. PICK e : e = onboardings'[q].email
      OBVIOUS
    <3>2. Looking(j, e)'
      BY <2>2, <3>1 DEF Looking
    <3>3. j # k /\ Looking(j, e)
      BY <1>17, <3>2
    <3>4. CASE q = p
      <4>1. e = email
        BY <1>3, <1>16, <3>1, <3>4
      <4>2. email \in lookedForTwice
        BY <1>18, <3>3, <4>1 DEF AdminInv, SearchesAreKnown
      <4> QED
        BY <1>6, <3>1, <4>1, <4>2
    <3>5. CASE q # p
      BY <1>6, <1>16, <2>2, <3>1, <3>3, <3>5 DEF AdminInv, SearchesAreKnown, Onboarded
    <3> QED
      BY <3>4, <3>5
  <2> QED
    BY <2>1, <2>2 DEF SearchesAreKnown
<1> QED
  BY <1>13, <1>14, <1>15, <1>20, <1>21 DEF AdminInv

-----------------------------------------------------------------------------
\* Decisions.

\* What every decision changes: a status, one log entry, and one letter after other mails.
Verdict(p, status, action) ==
    /\ onboardings' = [onboardings EXCEPT ![p].status = status]
    /\ logAdminAction(p, action)
    /\ UNCHANGED <<adminCalls, Work, recordedScore, lookedForTwice>>

LEMMA DecisionLogged ==
    ASSUME AdminInv, NEW p \in Lenders, Onboarded(p), NEW action \in Decisions, NEW status \in OnboardingStates,
           status = IF action = "provider_approved" THEN "approved" ELSE "rejected",
           Verdict(p, status, action), NEW n \in Nat, NEW sent \in Seq(MailRecord), Len(sent) = n + 1,
           \A i \in 1..n : sent[i].type \notin Decisions,
           sent[n + 1].of = p, sent[n + 1].type = action, Send(sent)
    PROVE  /\ onboardings' \in [Lenders -> ProviderRecord \union {NoConfig}]
           /\ adminLog' \in Seq(LogEntry) /\ mails' \in Seq(MailRecord)
           /\ Onboarded(p)' /\ onboardings'[p].status = status /\ onboardings'[p].is = onboardings[p].is
           /\ SearchesAreKnown' /\ ProvidersAreDistinct' /\ Undecided(p)' /\ Consistent(p)'
           /\ \A q \in Lenders : q # p =>
                  /\ onboardings'[q] = onboardings[q]
                  /\ Entries(q, "provider_approved")' = Entries(q, "provider_approved")
                  /\ Entries(q, "provider_rejected")' = Entries(q, "provider_rejected")
                  /\ \A i \in Decided(q) : adminLog'[i] = adminLog[i]
                  /\ Informed(q)' = Informed(q) /\ \A i \in Informed(q) : mails'[i] = mails[i]
           /\ \E m \in Nat : Entries(p, action)' = Entries(p, action) \union {m}
           /\ \A a : a # action => Entries(p, a)' = Entries(p, a)
<1>0. AdminTyped
  BY DEF AdminInv
<1>1. action \in {"provider_approved", "provider_rejected"} /\ action \in LogActions
  BY DEF Decisions, LogActions
<1>2. PICK old \in ProviderRecord : old = onboardings[p]
  BY <1>0 DEF AdminTyped, Onboarded
<1>3. PICK row \in ProviderRecord : /\ row = [old EXCEPT !.status = status] /\ row.status = status
                                    /\ row.email = old.email /\ row.is = old.is
  BY ProvidersAre
<1>4. /\ onboardings' = [onboardings EXCEPT ![p] = row]
      /\ onboardings \in [Lenders -> ProviderRecord \union {NoConfig}]
  BY <1>0, <1>2, <1>3 DEF Verdict, AdminTyped
<1>5. /\ onboardings' \in [Lenders -> ProviderRecord \union {NoConfig}]
      /\ onboardings'[p] = row /\ \A q \in Lenders : q # p => onboardings'[q] = onboardings[q]
  BY <1>4
<1>6. \A q \in Lenders : /\ Onboarded(q)' <=> Onboarded(q)
                         /\ Onboarded(q) => onboardings'[q].email = onboardings[q].email
  <2>1. Onboarded(p)' /\ onboardings'[p].email = onboardings[p].email
    BY <1>2, <1>3, <1>5, ProvidersAre DEF Onboarded
  <2>2. ASSUME NEW q \in Lenders, q # p
        PROVE  (Onboarded(q)' <=> Onboarded(q)) /\ onboardings'[q].email = onboardings[q].email
    BY <1>5, <2>2 DEF Onboarded
  <2> QED
    BY <2>1, <2>2
<1>7. adminLog \in Seq(LogEntry) /\ mails \in Seq(MailRecord) /\ logAdminAction(p, action)
  BY <1>0 DEF AdminTyped, Verdict
<1>8. PICK m \in Nat : m = Len(adminLog) + 1
  BY <1>7, LenProperties
<1>9. /\ adminLog' \in Seq(LogEntry)
      /\ \A q, a : \A i \in Entries(q, a) : i < m /\ adminLog'[i] = adminLog[i] /\ i \in Nat
      /\ \A q, a : q # p \/ a # action => Entries(q, a)' = Entries(q, a)
      /\ Entries(p, action)' = Entries(p, action) \union {m}
      /\ adminLog'[m] = [of |-> p, action |-> action]
  <2>1. /\ Len(adminLog) \in Nat /\ \A q, a : Entries(q, a) \subseteq 1..Len(adminLog)
        /\ \A i \in 1..Len(adminLog) : adminLog'[i] = adminLog[i]
    BY <1>1, <1>7, Logging
  <2>2. \A q, a : \A i \in Entries(q, a) : i < m /\ adminLog'[i] = adminLog[i] /\ i \in Nat
    BY <1>8, <2>1
  <2> QED
    BY <1>1, <1>7, <1>8, <2>2, Logging
<1>10. /\ mails' \in Seq(MailRecord) /\ Len(mails') \in Nat
       /\ \A q : \A i \in Informed(q) : mails'[i] = mails[i] /\ i < Len(mails')
       /\ \A q : q # p => Informed(q)' = Informed(q)
       /\ Informed(p)' = Informed(p) \union {Len(mails')} /\ mails'[Len(mails')] = sent[n + 1]
  BY <1>7, VerdictMail
<1>11. Decided(p)' = Decided(p) \union {m}
  BY <1>1, <1>9 DEF Decided
<1>12. Approved(p)' <=> action = "provider_approved"
  BY <1>1, <1>3, <1>5, <1>6 DEF Approved
<1>13. Undecided(p)'
  BY <1>1, <1>3, <1>5, <1>6 DEF Undecided
<1>14. Consistent(p)'
  <2>1. ASSUME NEW i \in Decided(p)', \A j \in Decided(p)' : j <= i
        PROVE  adminLog'[i].action = "provider_approved" <=> Approved(p)'
    <3>1. i = m
      <4>1. i \in Decided(p) \/ i = m
        BY <1>11, <2>1
      <4>2. m <= i
        BY <1>11, <2>1
      <4>3. i \in Decided(p) => i \in Nat /\ i < m
        BY <1>9 DEF Decided
      <4> QED
        BY <4>1, <4>2, <4>3
    <3> QED
      BY <1>9, <1>12, <3>1
  <2>2. ASSUME NEW i \in Informed(p)', \A j \in Informed(p)' : j <= i
        PROVE  mails'[i].type = "provider_approved" <=> Approved(p)'
    <3>1. i = Len(mails')
      <4>1. i \in Informed(p) \/ i = Len(mails')
        BY <1>10, <2>2
      <4>2. Len(mails') <= i
        BY <1>10, <2>2
      <4>3. i \in Informed(p) => i \in Nat /\ i < Len(mails')
        BY <1>7, <1>10, LenProperties DEF Informed
      <4> QED
        BY <1>10, <4>1, <4>2, <4>3
    <3> QED
      BY <1>10, <1>12, <3>1
  <2> QED
    BY <2>1, <2>2 DEF Consistent
<1>15. SearchesAreKnown' /\ ProvidersAreDistinct'
  <2>1. adminCalls' = adminCalls /\ lookedForTwice' = lookedForTwice
    BY DEF Verdict
  <2>2. ProvidersAreDistinct'
    BY <1>6, <2>1 DEF AdminInv, ProvidersAreDistinct
  <2>3. \A k \in Clients : \A e : Looking(k, e)' <=> Looking(k, e)
    BY <2>1 DEF Looking
  <2>4. ASSUME NEW k \in Clients, NEW q \in Lenders, Onboarded(q)', Looking(k, onboardings[q].email)'
        PROVE  onboardings'[q].email \in lookedForTwice'
    <3>1. Onboarded(q) /\ onboardings'[q].email = onboardings[q].email
      BY <1>6, <2>4
    <3>2. Looking(k, onboardings[q].email)
      BY <2>1, <2>4, <3>1 DEF Looking
    <3> QED
      BY <2>1, <3>1, <3>2 DEF AdminInv, SearchesAreKnown
  <2>5. SearchesAreKnown'
    BY <2>1, <2>3, <2>4 DEF AdminInv, SearchesAreKnown
  <2> QED
    BY <2>2, <2>5
<1>16. Onboarded(p)' /\ onboardings'[p].status = status /\ onboardings'[p].is = onboardings[p].is
  BY <1>2, <1>3, <1>5, <1>6
<1>17. ASSUME NEW q \in Lenders, q # p
       PROVE  /\ onboardings'[q] = onboardings[q]
              /\ Entries(q, "provider_approved")' = Entries(q, "provider_approved")
              /\ Entries(q, "provider_rejected")' = Entries(q, "provider_rejected")
              /\ \A i \in Decided(q) : adminLog'[i] = adminLog[i]
              /\ Informed(q)' = Informed(q) /\ \A i \in Informed(q) : mails'[i] = mails[i]
  BY <1>5, <1>9, <1>10, <1>17 DEF Decided
<1>18. \A a : a # action => Entries(p, a)' = Entries(p, a)
  BY <1>9
<1>19. \E x \in Nat : Entries(p, action)' = Entries(p, action) \union {x}
  BY <1>9
<1> QED
  BY <1>5, <1>9, <1>10, <1>13, <1>14, <1>15, <1>16, <1>17, <1>18, <1>19

LEMMA RejectingKeeps ==
    ASSUME AdminInv, NEW p \in Lenders, rejectProviderOnboarding(p)
    PROVE  AdminInv'
<1>0. AdminTyped
  BY DEF AdminInv
<1>1. /\ Onboarded(p) /\ Verdict(p, "rejected", "provider_rejected") /\ Send(RejectionMail(p))
      /\ UNCHANGED <<integrations, margins, serviceRequests, Work, adminCalls>>
  BY DEF rejectProviderOnboarding, Verdict, updateOnboardingStatus
<1>2. "provider_rejected" \in Decisions /\ "provider_rejected" \in MailTypes /\ "rejected" \in OnboardingStates
  BY DEF Decisions, MailTypes, OnboardingStates
<1>3. PICK mail \in MailRecord : /\ mail = Mail("provider_rejected", p, "provider")
                                 /\ mail.type = "provider_rejected" /\ mail.of = p
  BY <1>2, MailsAre
<1>4. PICK n \in Nat, sent \in Seq(MailRecord) : n = 0 /\ sent = <<mail>> /\ Len(sent) = n + 1 /\ sent[n + 1] = mail
  <2>1. <<mail>> \in Seq(MailRecord) /\ Len(<<mail>>) = 1 /\ <<mail>>[1] = mail
    OBVIOUS
  <2>2. 0 \in Nat /\ 0 + 1 = 1
    OBVIOUS
  <2> QED
    BY <2>1, <2>2
<1>5. Send(sent)
  BY <1>1, <1>3, <1>4 DEF RejectionMail
<1>6. \A i \in 1..n : sent[i].type \notin Decisions
  BY <1>4
<1>7. /\ onboardings' \in [Lenders -> ProviderRecord \union {NoConfig}]
      /\ adminLog' \in Seq(LogEntry) /\ mails' \in Seq(MailRecord)
      /\ Onboarded(p)' /\ onboardings'[p].is = onboardings[p].is
      /\ SearchesAreKnown' /\ ProvidersAreDistinct' /\ Undecided(p)' /\ Consistent(p)'
      /\ \A q \in Lenders : q # p =>
             /\ onboardings'[q] = onboardings[q]
             /\ Entries(q, "provider_approved")' = Entries(q, "provider_approved")
             /\ Entries(q, "provider_rejected")' = Entries(q, "provider_rejected")
             /\ \A i \in Decided(q) : adminLog'[i] = adminLog[i]
             /\ Informed(q)' = Informed(q) /\ \A i \in Informed(q) : mails'[i] = mails[i]
      /\ Entries(p, "provider_approved")' = Entries(p, "provider_approved")
  <2>1. sent[n + 1].of = p /\ sent[n + 1].type = "provider_rejected" /\ Len(sent) = n + 1
    BY <1>3, <1>4
  <2>2. /\ "rejected" = IF "provider_rejected" = "provider_approved" THEN "approved" ELSE "rejected"
        /\ "provider_approved" # "provider_rejected"
    OBVIOUS
  <2> QED
    BY <1>1, <1>2, <1>5, <1>6, <2>1, <2>2, DecisionLogged
<1>8. AdminTyped'
  BY <1>0, <1>1, <1>7 DEF AdminTyped, Work
<1>9. \A q \in Lenders : Milestones(q)' = Milestones(q)
  BY <1>1, SameRequests
<1>10. ASSUME NEW q \in Lenders, q # p PROVE Undecided(q)' /\ Consistent(q)' /\ Followed(q)'
  BY <1>1, <1>7, <1>9, <1>10, SameMargins, Untouched DEF AdminInv
<1>11. Followed(p)'
  <2>1. (EverApproved(p)' <=> EverApproved(p)) /\ (Begun(p)' <=> Begun(p))
    BY <1>7 DEF EverApproved, Begun
  <2>2. Followed(p)
    BY DEF AdminInv
  <2> QED
    BY <1>1, <1>7, <1>9, <2>1, <2>2 DEF Followed
<1> QED
  BY <1>7, <1>8, <1>10, <1>11 DEF AdminInv

\* The mails that an approval sends: to the team, if there is a project, and the verdict.
LEMMA ApprovalMailsAre ==
    ASSUME NEW p \in Lenders
    PROVE  /\ \E sent \in Seq(MailRecord) :
                  /\ sent = ProjectMails(p, <<"alice">>) \o ApprovalMail(p) /\ Len(sent) = 1 + 1
                  /\ sent[1].type \notin Decisions /\ sent[2].type = "provider_approved" /\ sent[2].of = p
           /\ \E sent \in Seq(MailRecord) :
                  /\ sent = ApprovalMail(p) /\ Len(sent) = 0 + 1
                  /\ sent[1].type = "provider_approved" /\ sent[1].of = p
<1>1. /\ "integration_project" \in MailTypes \ Decisions /\ "provider_approved" \in MailTypes
      /\ "alice" \in Assigned
  BY DEF MailTypes, Decisions, Assigned
<1>2. PICK first \in MailRecord : first = Mail("integration_project", p, "alice") /\ first.type \notin Decisions
  BY <1>1, MailsAre
<1>3. PICK letter \in MailRecord : /\ letter = Mail("provider_approved", p, "provider")
                                    /\ letter.type = "provider_approved" /\ letter.of = p
  BY <1>1, MailsAre
<1>4. ProjectMails(p, <<"alice">>) = <<first>>
  <2>1. PICK all : all = ProjectMails(p, <<"alice">>)
    OBVIOUS
  <2>2. all = [i \in 1..1 |-> Mail("integration_project", p, <<"alice">>[i])]
    BY <2>1 DEF ProjectMails
  <2>3. all = [i \in 1..1 |-> first]
    <3>1. \A i \in 1..1 : i = 1
      OBVIOUS
    <3> QED
      BY <1>2, <2>2, <3>1
  <2>4. all = <<first>>
    BY <2>3
  <2> QED
    BY <2>1, <2>4
<1>5. <<first>> \in Seq(MailRecord) /\ Len(<<first>>) = 1 /\ <<first>>[1] = first
  OBVIOUS
<1>6. <<letter>> \in Seq(MailRecord) /\ Len(<<letter>>) = 1 /\ <<letter>>[1] = letter
  OBVIOUS
<1>7. ApprovalMail(p) = <<letter>>
  BY <1>3 DEF ApprovalMail
<1>8. PICK a \in Seq(MailRecord), b \in Seq(MailRecord) :
          a = <<first>> /\ b = <<letter>> /\ Len(a) = 1 /\ Len(b) = 1 /\ a[1] = first /\ b[1] = letter
  BY <1>5, <1>6
<1>9. a \o b \in Seq(MailRecord) /\ Len(a \o b) = 1 + 1 /\ (a \o b)[1] = first /\ (a \o b)[2] = letter
  <2>1. /\ a \o b \in Seq(MailRecord) /\ Len(a \o b) = Len(a) + Len(b)
        /\ \A i \in 1..Len(a) + Len(b) : (a \o b)[i] = IF i <= Len(a) THEN a[i] ELSE b[i - Len(a)]
    BY ConcatProperties
  <2> QED
    BY <1>8, <2>1
<1>10. PICK both \in Seq(MailRecord) : both = a \o b /\ Len(both) = 1 + 1 /\ both[1] = first /\ both[2] = letter
  BY <1>9
<1>11. both = ProjectMails(p, <<"alice">>) \o ApprovalMail(p)
  BY <1>4, <1>7, <1>8, <1>10
<1>12. \E sent \in Seq(MailRecord) :
           /\ sent = ProjectMails(p, <<"alice">>) \o ApprovalMail(p) /\ Len(sent) = 1 + 1
           /\ sent[1].type \notin Decisions /\ sent[2].type = "provider_approved" /\ sent[2].of = p
  BY <1>2, <1>3, <1>10, <1>11
<1>13. PICK one \in Seq(MailRecord) : one = <<letter>> /\ Len(one) = 0 + 1 /\ one[1] = letter
  <2>1. 0 + 1 = 1
    OBVIOUS
  <2> QED
    BY <1>6, <2>1
<1>14. \E sent \in Seq(MailRecord) :
           /\ sent = ApprovalMail(p) /\ Len(sent) = 0 + 1
           /\ sent[1].type = "provider_approved" /\ sent[1].of = p
  BY <1>3, <1>7, <1>13
<1> QED
  BY <1>12, <1>14

LEMMA ApprovingKeeps ==
    ASSUME AdminInv, NEW p \in Lenders, approveProviderOnboarding(p)
    PROVE  AdminInv'
<1>0. AdminTyped
  BY DEF AdminInv
<1>1. /\ Onboarded(p) /\ onboardings[p].status = "pending_review"
      /\ Verdict(p, "approved", "provider_approved") /\ activateMarginConfiguration(p)
      /\ UNCHANGED <<Work, adminCalls>>
  BY DEF approveProviderOnboarding, Approve, Verdict, updateOnboardingStatus
<1>2. "provider_approved" \in Decisions /\ "approved" \in OnboardingStates
  BY DEF Decisions, OnboardingStates
<1>3. PICK support \in BOOLEAN : support = onboardings[p].is.support
  <2>1. onboardings[p] \in ProviderRecord
    BY <1>0, <1>1 DEF AdminTyped, Onboarded
  <2>2. onboardings[p].is \in Submissions
    BY <2>1, ProvidersAre
  <2> QED
    BY <2>2, SubmissionsAre
<1>4. \E n \in Nat, sent \in Seq(MailRecord) :
          /\ Len(sent) = n + 1 /\ \A i \in 1..n : sent[i].type \notin Decisions
          /\ sent[n + 1].of = p /\ sent[n + 1].type = "provider_approved" /\ Send(sent)
  <2>1. CASE support
    <3>1. Send(ProjectMails(p, <<"alice">>) \o ApprovalMail(p))
      BY <1>3, <2>1, TeamIs DEF approveProviderOnboarding, Approve, initiateIntegrationProject
    <3>2. PICK sent \in Seq(MailRecord) :
              /\ sent = ProjectMails(p, <<"alice">>) \o ApprovalMail(p) /\ Len(sent) = 1 + 1
              /\ sent[1].type \notin Decisions /\ sent[2].type = "provider_approved" /\ sent[2].of = p
      BY ApprovalMailsAre
    <3>3. \A i \in 1..1 : sent[i].type \notin Decisions
      BY <3>2
    <3>4. 1 \in Nat /\ 1 + 1 = 2 /\ Send(sent)
      BY <3>1, <3>2
    <3> QED
      BY <3>2, <3>3, <3>4
  <2>2. CASE ~support
    <3>1. Send(ApprovalMail(p))
      BY <1>3, <2>2 DEF approveProviderOnboarding, Approve
    <3>2. PICK sent \in Seq(MailRecord) : /\ sent = ApprovalMail(p) /\ Len(sent) = 0 + 1
                                          /\ sent[1].type = "provider_approved" /\ sent[1].of = p
      BY ApprovalMailsAre
    <3>3. \A i \in 1..0 : sent[i].type \notin Decisions
      OBVIOUS
    <3>4. 0 \in Nat /\ 0 + 1 = 1 /\ Send(sent)
      BY <3>1, <3>2
    <3> QED
      BY <3>2, <3>3, <3>4
  <2> QED
    BY <2>1, <2>2
<1>5. PICK n \in Nat, sent \in Seq(MailRecord) :
          /\ Len(sent) = n + 1 /\ \A i \in 1..n : sent[i].type \notin Decisions
          /\ sent[n + 1].of = p /\ sent[n + 1].type = "provider_approved" /\ Send(sent)
  BY <1>4
<1>6. /\ onboardings' \in [Lenders -> ProviderRecord \union {NoConfig}]
      /\ adminLog' \in Seq(LogEntry) /\ mails' \in Seq(MailRecord)
      /\ Onboarded(p)' /\ onboardings'[p].is = onboardings[p].is
      /\ SearchesAreKnown' /\ ProvidersAreDistinct' /\ Undecided(p)' /\ Consistent(p)'
      /\ \A q \in Lenders : q # p =>
             /\ onboardings'[q] = onboardings[q]
             /\ Entries(q, "provider_approved")' = Entries(q, "provider_approved")
             /\ Entries(q, "provider_rejected")' = Entries(q, "provider_rejected")
             /\ \A i \in Decided(q) : adminLog'[i] = adminLog[i]
             /\ Informed(q)' = Informed(q) /\ \A i \in Informed(q) : mails'[i] = mails[i]
      /\ \E m \in Nat : Entries(p, "provider_approved")' = Entries(p, "provider_approved") \union {m}
  BY <1>1, <1>2, <1>5, DecisionLogged
<1>7. Decided(p) = {} /\ ~EverApproved(p) /\ ~Begun(p) /\ Entries(p, "provider_approved") = {}
  <2>1. Decided(p) = {}
    BY <1>1 DEF AdminInv, Undecided
  <2> QED
    BY <2>1 DEF Decided, EverApproved, Begun
<1>8. PICK m \in Nat : Entries(p, "provider_approved")' = {m}
  BY <1>6, <1>7
<1>9. EverApproved(p)' /\ (Begun(p)' <=> support)
  BY <1>3, <1>6, <1>8 DEF EverApproved, Begun
<1>10. Milestones(p) = {} /\ (integrations[p] # NoConfig <=> support)
       /\ margins[p] # NoMargin
  BY <1>1, <1>3, <1>7 DEF AdminInv, Followed
<1>11. /\ serviceRequests' \in Seq(RequestRecord)
       /\ \A q \in Lenders : q # p => Milestones(q)' = Milestones(q)
       /\ IF support THEN \E x \in Nat : Milestones(p)' = (x + 1)..(x + 4) ELSE Milestones(p)' = {}
  <2>1. CASE support
    <3>1. serviceRequests' = serviceRequests \o MilestoneRequests(p, <<"alice">>)
      BY <1>3, <2>1, TeamIs DEF approveProviderOnboarding, Approve, initiateIntegrationProject
    <3>2. /\ serviceRequests' \in Seq(RequestRecord)
          /\ \A q : q # p => Milestones(q)' = Milestones(q)
          /\ \E x \in Nat : Milestones(p)' = Milestones(p) \union (x + 1)..(x + 4)
      BY <1>0, <3>1, ProjectRequests DEF AdminTyped
    <3> QED
      BY <1>10, <2>1, <3>2
  <2>2. CASE ~support
    <3>1. UNCHANGED serviceRequests
      BY <1>3, <2>2 DEF approveProviderOnboarding, Approve
    <3> QED
      BY <1>0, <1>10, <2>2, <3>1, SameRequests DEF AdminTyped
  <2> QED
    BY <2>1, <2>2
<1>12. /\ integrations' \in [Lenders -> IntegrationRecord \union {NoConfig}]
       /\ \A q \in Lenders : q # p => integrations'[q] = integrations[q]
       /\ (integrations'[p] # NoConfig <=> support) /\ (support => integrations'[p].status = "in_progress")
  <2>0. integrations \in [Lenders -> IntegrationRecord \union {NoConfig}]
    BY <1>0 DEF AdminTyped
  <2>1. CASE support
    <3>1. PICK old \in IntegrationRecord : old = integrations[p]
      BY <1>10, <2>0, <2>1
    <3>2. PICK config \in IntegrationRecord : config = [old EXCEPT !.status = "in_progress"]
                                              /\ config.status = "in_progress"
      BY ProvidersAre
    <3>3. integrations' = [integrations EXCEPT ![p] = config]
      BY <1>3, <2>1, <3>1, <3>2 DEF approveProviderOnboarding, Approve, initiateIntegrationProject
    <3>4. integrations'[p] = config /\ config # NoConfig
      BY <2>0, <3>3, ProvidersAre
    <3> QED
      BY <2>0, <2>1, <3>2, <3>3, <3>4
  <2>2. CASE ~support
    <3>1. UNCHANGED integrations
      BY <1>3, <2>2 DEF approveProviderOnboarding, Approve
    <3> QED
      BY <1>10, <2>0, <2>2, <3>1
  <2> QED
    BY <2>1, <2>2
<1>13. /\ margins' \in [Lenders -> MarginConfig \union {NoMargin}]
       /\ \A q \in Lenders : q # p => margins'[q] = margins[q]
       /\ margins'[p] # NoMargin /\ margins'[p].active = TRUE
  <2>1. margins \in [Lenders -> MarginConfig \union {NoMargin}]
    BY <1>0 DEF AdminTyped
  <2>2. PICK old \in MarginConfig : old = margins[p]
    BY <1>10, <2>1
  <2>3. [old EXCEPT !.active = TRUE] \in MarginConfig /\ [old EXCEPT !.active = TRUE].active = TRUE
    BY MarginsAre
  <2>4. PICK new \in MarginConfig : new = [old EXCEPT !.active = TRUE] /\ new.active = TRUE
    BY <2>3
  <2>5. margins' = [margins EXCEPT ![p] = new]
    BY <1>1, <1>10, <2>2, <2>4 DEF activateMarginConfiguration
  <2>6. new # NoMargin
    BY MarginsAre
  <2> QED
    BY <2>1, <2>4, <2>5, <2>6
<1>14. AdminTyped'
  BY <1>0, <1>1, <1>6, <1>11, <1>12, <1>13 DEF AdminTyped, Work
<1>15. ASSUME NEW q \in Lenders, q # p PROVE Undecided(q)' /\ Consistent(q)' /\ Followed(q)'
  <2>1. Undecided(q) /\ Consistent(q) /\ Followed(q)
    BY DEF AdminInv
  <2>2. Onboarded(q) => margins'[q] # NoMargin /\ margins'[q].active = margins[q].active
    BY <1>13, <1>15, <2>1 DEF Followed
  <2> QED
    BY <1>6, <1>11, <1>12, <1>15, <2>1, <2>2, Untouched
<1>16. Followed(p)'
  <2>1. \A i, j \in Entries(p, "provider_approved")' : i = j
    BY <1>8
  <2>2. integrations'[p] # NoConfig <=> Onboarded(p)' /\ onboardings'[p].is.support
    BY <1>3, <1>6, <1>12
  <2>3. integrations'[p] # NoConfig => (integrations'[p].status = "in_progress" <=> Begun(p)')
    BY <1>9, <1>12
  <2>4. IF Begun(p)' THEN \E x \in Nat : Milestones(p)' = (x + 1)..(x + 4) ELSE Milestones(p)' = {}
    BY <1>9, <1>11
  <2>5. Onboarded(p)' => margins'[p] # NoMargin /\ (margins'[p].active <=> EverApproved(p)')
    BY <1>9, <1>13
  <2> QED
    BY <2>1, <2>2, <2>3, <2>4, <2>5 DEF Followed
<1> QED
  BY <1>6, <1>14, <1>15, <1>16 DEF AdminInv

-----------------------------------------------------------------------------
LEMMA AdminInitially == AdminInit => AdminInv
<1> SUFFICES ASSUME AdminInit PROVE AdminInv
  OBVIOUS
<1>1. /\ onboardings = [p \in Lenders |-> NoConfig] /\ integrations = [p \in Lenders |-> NoConfig]
      /\ margins = [p \in Lenders |-> NoMargin] /\ serviceRequests = <<>> /\ adminLog = <<>> /\ mails = <<>>
      /\ adminCalls = [k \in Clients |-> Resting] /\ deployments = <<>>
  BY DEF AdminInit
<1>2. AdminTyped
  <2>1. <<>> \in Seq(RequestRecord) /\ <<>> \in Seq(LogEntry) /\ <<>> \in Seq(MailRecord)
        /\ <<>> \in Seq([compatible : BOOLEAN, status : {"deploying", "completed"}])
    OBVIOUS
  <2> QED
    BY <1>1, <2>1, AdminCallsAre DEF AdminTyped
<1>3. \A k \in Clients : \A email : ~Looking(k, email)
  BY <1>1, Marks DEF Looking
<1>4. \A p \in Lenders : ~Onboarded(p)
  BY <1>1 DEF Onboarded
<1>5. ASSUME NEW p \in Lenders PROVE Undecided(p) /\ Consistent(p) /\ Followed(p)
  <2>1. Decided(p) = {} /\ Informed(p) = {} /\ Milestones(p) = {} /\ Entries(p, "provider_approved") = {}
    BY <1>1 DEF Decided, Entries, Informed, Milestones
  <2>2. ~EverApproved(p) /\ ~Begun(p) /\ integrations[p] = NoConfig
    BY <1>1, <2>1 DEF EverApproved, Begun
  <2> QED
    BY <1>4, <2>1, <2>2 DEF Undecided, Consistent, Followed
<1> QED
  BY <1>2, <1>3, <1>4, <1>5 DEF AdminInv, SearchesAreKnown, ProvidersAreDistinct

LEMMA CreationsKeep == AdminInv /\ Creations => AdminInv'
  BY LookingKeeps, CreatingProviderKeeps DEF Creations

\* Every step keeps what is held of the credit providers.
LEMMA AdminKept == AdminInv /\ [AdminNext]_AdminVars => AdminInv'
<1> SUFFICES ASSUME AdminInv, [AdminNext]_AdminVars PROVE AdminInv'
  OBVIOUS
<1>1. CASE UNCHANGED AdminVars
  <2>1. UNCHANGED <<onboardings, integrations, margins, serviceRequests, adminLog, mails, adminCalls,
                    deployments, lookedForTwice>>
    BY <1>1 DEF AdminVars
  <2>2. AdminTyped'
    BY <2>1 DEF AdminInv, AdminTyped
  <2> QED
    BY <2>1, <2>2, SameLog, SameMails, SameRequests, SameMargins, NothingDecided
<1>2. CASE OnboardingsNext
  <2>1. ASSUME NEW p \in Lenders, Decides(p) PROVE AdminInv'
    BY <2>1, ApprovingKeeps, RejectingKeeps DEF Decides
  <2> QED
    BY <1>2, <2>1, CreationsKeep, EngineeringKeeps DEF OnboardingsNext
<1>3. CASE MarginsNext
  BY <1>3, CreationsKeep, ApprovingKeeps, MarginStepsKeep, OptimizingKeeps DEF MarginsNext
<1>4. CASE EngineeringNext
  BY <1>4, EngineeringKeeps
<1> QED
  BY <1>1, <1>2, <1>3, <1>4 DEF AdminNext

\* The greatest of a set of positions, which the last entry or mail is at.
LEMMA Greatest ==
    ASSUME NEW n \in Nat, NEW S \in SUBSET (1..n), S # {}
    PROVE  LastOf(S) \in S /\ \A j \in S : j <= LastOf(S)
<1> DEFINE Bounds == {b \in Nat : \A j \in S : j <= b}
<1>1. Bounds # {}
  <2>1. n \in Bounds
    OBVIOUS
  <2> QED
    BY <2>1
<1>2. PICK B \in SUBSET Nat : B = Bounds /\ B # {}
  BY <1>1
<1>3. PICK b \in Bounds : \A c \in Bounds : b <= c
  BY <1>2, LeastOf
<1>4. b \in S
  <2>1. SUFFICES ASSUME b \notin S PROVE FALSE
    OBVIOUS
  <2>2. \A j \in S : j <= b - 1 /\ j >= 1
    BY <2>1
  <2>3. b - 1 \in Bounds
    <3>1. PICK j \in S : j <= b - 1 /\ j >= 1
      BY <2>2
    <3>2. b - 1 \in Nat
      BY <3>1
    <3> QED
      BY <2>2, <3>2
  <2> QED
    BY <1>3, <2>3
<1>5. \E i \in S : \A j \in S : j <= i
  BY <1>4
<1> QED
  BY <1>5 DEF LastOf

LEMMA AdminShows ==
    AdminInv => ApprovalHappensOnce /\ DecisionsAreTold /\ ProvidersAreDistinct
<1> SUFFICES ASSUME AdminInv PROVE ApprovalHappensOnce /\ DecisionsAreTold
  BY DEF AdminInv
<1>0. AdminTyped
  BY DEF AdminInv
<1>1. ASSUME NEW p \in Lenders
      PROVE  /\ Cardinality(Entries(p, "provider_approved")) <= 1
             /\ Cardinality(Milestones(p)) = IF Begun(p) THEN 4 ELSE 0
             /\ integrations[p] # NoConfig => (integrations[p].status = "in_progress" <=> Begun(p))
             /\ margins[p] # NoMargin /\ Onboarded(p) => (margins[p].active <=> EverApproved(p))
  <2>0. Followed(p)
    BY DEF AdminInv
  <2>1. Cardinality(Entries(p, "provider_approved")) <= 1
    <3>1. PICK S : S = Entries(p, "provider_approved")
      OBVIOUS
    <3>2. \A i, j \in S : i = j
      BY <2>0, <3>1 DEF Followed
    <3>3. CASE S = {}
      BY <3>1, <3>3, FS_EmptySet
    <3>4. CASE S # {}
      <4>1. PICK i : S = {i}
        BY <3>2, <3>4
      <4> QED
        BY <3>1, <4>1, FS_Singleton
    <3> QED
      BY <3>3, <3>4
  <2>2. Cardinality(Milestones(p)) = IF Begun(p) THEN 4 ELSE 0
    <3>1. CASE Begun(p)
      <4>1. PICK n \in Nat : Milestones(p) = (n + 1)..(n + 4)
        BY <2>0, <3>1 DEF Followed
      <4>2. Cardinality((n + 1)..(n + 4)) = IF n + 1 > n + 4 THEN 0 ELSE (n + 4) - (n + 1) + 1
        BY FS_Interval
      <4> QED
        BY <3>1, <4>1, <4>2
    <3>2. CASE ~Begun(p)
      BY <2>0, <3>2, FS_EmptySet DEF Followed
    <3> QED
      BY <3>1, <3>2
  <2> QED
    BY <2>0, <2>1, <2>2 DEF Followed
<1>2. ApprovalHappensOnce
  BY <1>1 DEF ApprovalHappensOnce, Milestones, Begun
<1>3. ASSUME NEW p \in Lenders, Onboarded(p)
      PROVE  /\ Decided(p) # {} => (adminLog[LastOf(Decided(p))].action = "provider_approved"
                                     <=> onboardings[p].status = "approved")
             /\ Informed(p) # {} => (mails[LastOf(Informed(p))].type = "provider_approved"
                                  <=> onboardings[p].status = "approved")
  <2>0. Consistent(p)
    BY DEF AdminInv
  <2>1. Approved(p) <=> onboardings[p].status = "approved"
    BY <1>3 DEF Approved
  <2>2. ASSUME Decided(p) # {}
        PROVE  adminLog[LastOf(Decided(p))].action = "provider_approved" <=> onboardings[p].status = "approved"
    <3>1. PICK n \in Nat : DOMAIN adminLog = 1..n
      BY <1>0, LenProperties DEF AdminTyped
    <3>2. Decided(p) \in SUBSET (1..n)
      BY <3>1 DEF Decided, Entries
    <3>3. PICK i \in Decided(p) : i = LastOf(Decided(p)) /\ \A j \in Decided(p) : j <= i
      BY <2>2, <3>2, Greatest
    <3> QED
      BY <2>0, <2>1, <3>3 DEF Consistent
  <2>3. ASSUME Informed(p) # {}
        PROVE  mails[LastOf(Informed(p))].type = "provider_approved" <=> onboardings[p].status = "approved"
    <3>1. PICK n \in Nat : DOMAIN mails = 1..n
      BY <1>0, LenProperties DEF AdminTyped
    <3>2. Informed(p) \in SUBSET (1..n)
      BY <3>1 DEF Informed
    <3>3. PICK i \in Informed(p) : i = LastOf(Informed(p)) /\ \A j \in Informed(p) : j <= i
      BY <2>3, <3>2, Greatest
    <3> QED
      BY <2>0, <2>1, <3>3 DEF Consistent
  <2> QED
    BY <2>2, <2>3
<1>4. DecisionsAreTold
  BY <1>3 DEF DecisionsAreTold, Decided, Informed
<1> QED
  BY <1>2, <1>4

LEMMA AdminIsTyped == AdminInv => AdminTypeOK
<1> SUFFICES ASSUME AdminTyped PROVE AdminTypeOK
  BY DEF AdminInv
<1>1. \A p \in Lenders : Onboarded(p) => onboardings[p] \in ProviderRecord
  BY DEF AdminTyped, Onboarded
<1>2. \A p \in Lenders : margins[p] # NoMargin => margins[p] \in MarginConfig
  BY DEF AdminTyped
<1>3. \A p \in Lenders : integrations[p] # NoConfig => integrations[p].status \in {"pending", "in_progress"}
  BY DEF AdminTyped, IntegrationRecord
<1>4. \A i \in DOMAIN deployments : deployments[i].status \in {"deploying", "completed"}
  <2>1. PICK S : S = [compatible : BOOLEAN, status : {"deploying", "completed"}]
    OBVIOUS
  <2>2. deployments \in Seq(S)
    BY <2>1 DEF AdminTyped
  <2>3. \A i \in DOMAIN deployments : deployments[i] \in S
    BY <2>2, ElementOfSeq, LenProperties
  <2> QED
    BY <2>1, <2>3
<1> QED
  BY <1>1, <1>2, <1>3, <1>4 DEF AdminTypeOK

\* Whatever up to three endpoints answer, a verdict that is not the best comes with advice.
LEMMA VerdictsHold == VerdictsHaveReasons
<1> SUFFICES ASSUME NEW n \in 1..3, NEW states \in [1..n -> EndpointStates],
                    generateHealthRecommendations(states) = {}
             PROVE  calculateOverallHealth(states) = "healthy"
  BY DEF VerdictsHaveReasons, monitorIntegrationHealth
<1>1. DOMAIN states = 1..n /\ n \in Nat
  OBVIOUS
<1>2. \A i \in 1..n : states[i] = "up"
  BY <1>1 DEF generateHealthRecommendations, EndpointStates
<1>3. {i \in DOMAIN states : states[i] = "up"} = 1..n
  BY <1>1, <1>2
<1>4. Cardinality(1..n) = n
  <2>1. Cardinality(1..n) = IF 1 > n THEN 0 ELSE n - 1 + 1
    BY FS_Interval
  <2> QED
    BY <2>1
<1>5. Len(states) = n /\ states # <<>>
  OBVIOUS
<1>6. n * 10 >= 9 * n
  OBVIOUS
<1>7. PICK up : up = Cardinality({i \in DOMAIN states : states[i] = "up"})
  OBVIOUS
<1>8. up = n
  BY <1>3, <1>4, <1>7
<1>9. up * 10 >= 9 * Len(states)
  BY <1>5, <1>6, <1>8
<1> QED
  BY <1>5, <1>7, <1>9 DEF calculateOverallHealth
-----------------------------------------------------------------------------
\* Disbursement.

Answered == {"completed", "failed", "partial"}
OpenJob == [kind : {"single", "batch"}, requests : Seq(Payout), results : Seq(Result),
            status : {"processing", "calling"}]
ClosedJob == [kind : {"batch"}, requests : Seq(Payout), results : Seq(Result), status : Answered,
              summary : [successCount : Nat, failureCount : Int, totalAmount : Int, totalFees : Int, netAmount : Int]]
Mine(j) == {p \in paid : p.job = j}

\* The results so far split the amounts into fees and net amounts, and what the provider was
\* made to pay is what they count as successes.
Progress(j) ==
    /\ Len(jobs[j].results) <= Len(jobs[j].requests)
    /\ jobs[j].status = "calling" => Len(jobs[j].results) < Len(jobs[j].requests)
    /\ \A i \in 1..Len(jobs[j].results) :
           jobs[j].results[i].fees + jobs[j].results[i].netAmount = jobs[j].requests[i].amount
    /\ \A p \in Mine(j) : /\ p.item \in Successes(j)
                          /\ p.amount = jobs[j].requests[p.item].amount - jobs[j].results[p.item].fees
    /\ IsFiniteSet(Mine(j)) /\ Cardinality(Mine(j)) = Cardinality(Successes(j))

\* What BatchAccountsForPayouts says of one job.
Accounted(j) ==
    jobs[j].status \in Answered =>
        /\ jobs[j].summary.totalAmount = jobs[j].summary.totalFees + jobs[j].summary.netAmount
        /\ jobs[j].summary.successCount = Cardinality(Mine(j))
        /\ jobs[j].status = "completed" <=> Cardinality(Mine(j)) = Len(jobs[j].requests)
        /\ jobs[j].status = "failed" <=> Mine(j) = {} /\ jobs[j].requests # <<>>

DisbursementInv ==
    /\ jobs \in [Jobs -> {Unused} \union OpenJob \union ClosedJob]
    /\ \A j \in Jobs : IF jobs[j] = Unused THEN Mine(j) = {} ELSE Progress(j) /\ Accounted(j)

LEMMA JobsAre ==
    /\ \A job \in OpenJob \union ClosedJob :
           /\ job \notin {Unused, Expired} /\ job.requests \in Seq(Payout) /\ job.results \in Seq(Result)
           /\ job.status \in {"processing", "calling"} \union Answered
    /\ \A job \in OpenJob : job.status \notin Answered
    /\ \A job \in OpenJob \union ClosedJob : job.status \in {"processing", "calling"} => job \in OpenJob
    /\ Unused.status \notin {"processing", "calling"}
<1>1. ASSUME NEW job \in OpenJob \union ClosedJob
      PROVE  /\ job.requests \in Seq(Payout) /\ job.results \in Seq(Result)
             /\ job.status \in {"processing", "calling"} \union Answered
  BY DEF OpenJob, ClosedJob
<1>2. ASSUME NEW job \in OpenJob \union ClosedJob PROVE job \notin {Unused, Expired}
  BY <1>1, Marks DEF Answered
<1>3. \A job \in OpenJob : job.status \notin Answered
  BY DEF OpenJob, Answered
<1>4. \A job \in ClosedJob : job.status \in Answered
  BY DEF ClosedJob
<1>5. Unused.status \notin {"processing", "calling"}
  BY Marks
<1> QED
  BY <1>1, <1>2, <1>3, <1>4, <1>5 DEF Answered

\* A result splits an amount into the fee and what is left.
LEMMA ResultsAre ==
    ASSUME NEW payout \in Payout, NEW status \in {"completed", "failed"}
    PROVE  /\ payout.amount \in Nat
           /\ Rejected(payout) \in Result /\ Rejected(payout).status = "failed"
           /\ Rejected(payout).fees + Rejected(payout).netAmount = payout.amount
           /\ Executed(payout, status) \in Result /\ Executed(payout, status).status = status
           /\ Executed(payout, status).fees + Executed(payout, status).netAmount = payout.amount
           /\ Executed(payout, status).netAmount = payout.amount - Executed(payout, status).fees
<1>1. payout.amount \in Nat
  BY DEF Payout
<1>2. calculateFees(payout.amount, DefaultMethod.fees) \in Int
  <2>1. PICK fees : fees = DefaultMethod.fees
    OBVIOUS
  <2>2. /\ fees = <<[type |-> "percentage", amount |-> 0, permille |-> 15]>>
        /\ Len(fees) = 1 /\ fees[1].type = "percentage" /\ fees[1].permille = 15 /\ fees # <<>>
    BY <2>1 DEF DefaultMethod
  <2>3. PICK part : part = [i \in 1 .. Len(fees) |-> FeePart(fees[i], payout.amount)]
    OBVIOUS
  <2>4. part \in [1..1 -> Int] /\ IsFiniteSet(1..1)
    <3>1. FeePart(fees[1], payout.amount) = payout.amount * 15
      BY <2>2 DEF FeePart
    <3>2. \A i \in 1..1 : i = 1
      OBVIOUS
    <3>3. part = [i \in 1..1 |-> payout.amount * 15]
      BY <2>2, <2>3, <3>1, <3>2
    <3>4. 1 \in Int /\ payout.amount * 15 \in Int
      BY <1>1
    <3>5. IsFiniteSet(1..1)
      BY <3>4, FS_Interval
    <3> QED
      BY <3>3, <3>4, <3>5
  <2>5. SumFunction(part) \in Int
    BY <2>4, SumFacts
  <2>6. calculateFees(payout.amount, fees) = Rounded(SumFunction(part))
    BY <2>2, <2>3 DEF calculateFees
  <2> QED
    BY <2>1, <2>5, <2>6 DEF Rounded
<1>3. Rejected(payout) \in Result /\ Rejected(payout).status = "failed"
      /\ Rejected(payout).fees + Rejected(payout).netAmount = payout.amount
  BY <1>1 DEF Rejected, Result
<1>4. PICK fees \in Int : fees = calculateFees(payout.amount, DefaultMethod.fees)
  BY <1>2
<1>5. Executed(payout, status) = [status |-> status, fees |-> fees, netAmount |-> payout.amount - fees]
  BY <1>4 DEF Executed
<1> QED
  BY <1>1, <1>3, <1>5 DEF Result

\* What one more result does to the successes.
Successful(results) == {i \in 1..Len(results) : results[i].status = "completed"}

LEMMA SuccessfulIs ==
    ASSUME NEW results \in Seq(Result), NEW x \in Result
    PROVE  /\ IsFiniteSet(Successful(results)) /\ Cardinality(Successful(results)) \in Nat
           /\ Cardinality(Successful(results)) <= Len(results)
           /\ Cardinality(Successful(results)) = 0 <=> Successful(results) = {}
           /\ x.status # "completed" => Successful(Append(results, x)) = Successful(results)
           /\ x.status = "completed" =>
                  /\ Successful(Append(results, x)) = Successful(results) \union {Len(results) + 1}
                  /\ Cardinality(Successful(Append(results, x))) = Cardinality(Successful(results)) + 1
<1>0. Append(results, x) \in Seq(Result)
  OBVIOUS
<1>1. PICK more \in Seq(Result) : more = Append(results, x)
  BY <1>0
<1>2. /\ Len(more) = Len(results) + 1 /\ more[Len(results) + 1] = x /\ Len(results) \in Nat
      /\ \A i \in 1..Len(results) : more[i] = results[i]
  BY <1>1
<1>3. PICK s : s = Successful(results)
  OBVIOUS
<1>4. s \subseteq 1..Len(results)
  BY <1>3 DEF Successful
<1>5. IsFiniteSet(1..Len(results)) /\ Cardinality(1..Len(results)) = Len(results)
  <2>1. PICK n \in Nat : n = Len(results)
    BY <1>2
  <2>2. 1 \in Int /\ n \in Int
    OBVIOUS
  <2>3. IsFiniteSet(1..n) /\ Cardinality(1..n) = IF 1 > n THEN 0 ELSE n - 1 + 1
    BY <2>2, FS_Interval
  <2> QED
    BY <2>1, <2>3
<1>6. IsFiniteSet(s) /\ Cardinality(s) <= Len(results)
  BY <1>4, <1>5, FS_Subset
<1>7. Cardinality(s) \in Nat /\ (Cardinality(s) = 0 <=> s = {})
  BY <1>6, FS_CardinalityType, FS_EmptySet
<1>8. x.status # "completed" => Successful(more) = s
  BY <1>2, <1>3 DEF Successful
<1>9. x.status = "completed" => Successful(more) = s \union {Len(results) + 1}
  BY <1>2, <1>3 DEF Successful
<1>10. Len(results) + 1 \notin s
  BY <1>2, <1>4
<1>11. Cardinality(s \union {Len(results) + 1}) = Cardinality(s) + 1
  BY <1>6, <1>10, FS_AddElement
<1> QED
  BY <1>1, <1>3, <1>6, <1>7, <1>8, <1>9, <1>11

LEMMA SuccessesAre == \A j : Successes(j) = Successful(jobs[j].results)
  BY DEF Successes, Successful

\* A job does nothing to the others.
LEMMA OthersGoOn ==
    ASSUME DisbursementInv, NEW j \in Jobs, NEW job \in OpenJob \union ClosedJob,
           jobs' = [jobs EXCEPT ![j] = job], \A q \in Jobs \ {j} : Mine(q)' = Mine(q),
           Progress(j)' /\ Accounted(j)'
    PROVE  DisbursementInv'
<1>1. jobs' \in [Jobs -> {Unused} \union OpenJob \union ClosedJob] /\ jobs'[j] = job
  BY DEF DisbursementInv
<1>2. jobs'[j] # Unused
  BY <1>1, JobsAre
<1>3. ASSUME NEW q \in Jobs \ {j}
      PROVE  IF jobs'[q] = Unused THEN Mine(q)' = {} ELSE Progress(q)' /\ Accounted(q)'
  <2>1. jobs'[q] = jobs[q] /\ Mine(q)' = Mine(q)
    BY DEF DisbursementInv
  <2>2. Successes(q)' = Successes(q)
    BY <2>1 DEF Successes
  <2>3. IF jobs[q] = Unused THEN Mine(q) = {} ELSE Progress(q) /\ Accounted(q)
    BY DEF DisbursementInv
  <2> QED
    BY <2>1, <2>2, <2>3 DEF Progress, Accounted
<1> QED
  BY <1>1, <1>2, <1>3 DEF DisbursementInv

LEMMA JobBegins ==
    ASSUME DisbursementInv, NEW j \in Jobs, createDisbursement(j) \/ createBatchDisbursement(j)
    PROVE  DisbursementInv'
<1>1. PICK order \in Orders, kind \in {"single", "batch"} :
          /\ jobs[j] = Unused /\ \A i \in 1..Len(order) : order[i] \in Payout
          /\ jobs' = [jobs EXCEPT ![j] = [kind |-> kind, requests |-> order, results |-> <<>>,
                                          status |-> "processing"]]
          /\ UNCHANGED paid
  <2>1. CASE createDisbursement(j)
    <3>1. PICK order \in Orders :
              /\ jobs[j] = Unused /\ Len(order) = 1 /\ order[1] \in Payout
              /\ jobs' = [jobs EXCEPT ![j] = [kind |-> "single", requests |-> order, results |-> <<>>,
                                              status |-> "processing"]]
              /\ UNCHANGED paid
      BY <2>1 DEF createDisbursement
    <3>2. \A i \in 1..Len(order) : order[i] \in Payout
      <4>1. \A i \in 1..1 : i = 1
        OBVIOUS
      <4> QED
        BY <3>1, <4>1
    <3> QED
      BY <3>1, <3>2
  <2>2. CASE createBatchDisbursement(j)
    BY <2>2 DEF createBatchDisbursement
  <2> QED
    BY <2>1, <2>2
<1>2. order \in Seq(Payout) /\ Len(order) \in Nat
  <2>1. order \in Seq({order[i] : i \in DOMAIN order})
    BY DisbursementAssumption
  <2> QED
    BY <1>1, <2>1
<1>3. PICK job : job = [kind |-> kind, requests |-> order, results |-> <<>>, status |-> "processing"]
  OBVIOUS
<1>4. /\ job \in OpenJob /\ job.results = <<>> /\ job.requests = order /\ job.status = "processing"
      /\ Len(job.results) = 0
  <2>1. <<>> \in Seq(Result)
    OBVIOUS
  <2> QED
    BY <1>2, <1>3, <2>1 DEF OpenJob
<1>5. Mine(j) = {} /\ jobs'[j] = job
  BY <1>1, <1>3 DEF DisbursementInv
<1>6. Successes(j)' = {}
  BY <1>4, <1>5 DEF Successes
<1>7. \A q : Mine(q)' = Mine(q)
  BY <1>1 DEF Mine
<1>8. Progress(j)'
  <2>1. Mine(j)' = {} /\ IsFiniteSet({}) /\ Cardinality({}) = 0
    BY <1>5, <1>7, FS_EmptySet
  <2>2. Len(job.results) <= Len(job.requests) /\ job.status # "calling" /\ 1..Len(job.results) = {}
    BY <1>2, <1>4
  <2> QED
    BY <1>5, <1>6, <2>1, <2>2 DEF Progress
<1>9. Accounted(j)'
  BY <1>4, <1>5 DEF Accounted, Answered
<1> QED
  BY <1>1, <1>3, <1>4, <1>7, <1>8, <1>9, OthersGoOn

\* One more result, and perhaps a payment.
LEMMA ResultReceived ==
    ASSUME DisbursementInv, NEW j \in Jobs, NEW x \in Result, jobs[j] \in OpenJob,
           Len(jobs[j].results) < Len(jobs[j].requests), Received(j, x),
           x.fees + x.netAmount = Current(j).amount,
           \/ x.status = "failed" /\ UNCHANGED paid
           \/ /\ x.status = "completed"
              /\ paid' = paid \union {[job |-> j, item |-> Len(jobs[j].results) + 1,
                                       amount |-> Current(j).amount - x.fees]}
    PROVE  DisbursementInv'
<1>1. PICK old \in OpenJob : old = jobs[j]
  OBVIOUS
<1>2. PICK n \in Nat : n = Len(old.results)
  BY <1>1 DEF OpenJob
<1>3. /\ old.results \in Seq(Result) /\ old.requests \in Seq(Payout) /\ Len(old.requests) \in Nat
      /\ n < Len(old.requests)
  BY <1>1, <1>2 DEF OpenJob
<1>4. PICK results \in Seq(Result) :
          /\ results = Append(old.results, x) /\ Len(results) = n + 1 /\ results[n + 1] = x
          /\ \A i \in 1..n : results[i] = old.results[i]
  <2>1. Append(old.results, x) \in Seq(Result)
    BY <1>3
  <2>2. /\ Len(Append(old.results, x)) = n + 1 /\ Append(old.results, x)[n + 1] = x
        /\ \A i \in 1..n : Append(old.results, x)[i] = old.results[i]
    BY <1>2, <1>3
  <2> QED
    BY <2>1, <2>2
<1>5. PICK job \in OpenJob : /\ job = [old EXCEPT !.results = results, !.status = "processing"]
                             /\ job.results = results /\ job.requests = old.requests
                             /\ job.status = "processing"
  <2>1. PICK job : job = [old EXCEPT !.results = results, !.status = "processing"]
    OBVIOUS
  <2>2. job \in OpenJob
    BY <2>1 DEF OpenJob
  <2>3. job.results = results /\ job.requests = old.requests /\ job.status = "processing"
    BY <2>1 DEF OpenJob
  <2> QED
    BY <2>1, <2>2, <2>3
<1>6. jobs' = [jobs EXCEPT ![j] = job]
  BY <1>1, <1>4, <1>5 DEF Received, DisbursementInv
<1>7. jobs'[j] = job
  BY <1>6 DEF DisbursementInv
<1>8. Progress(j)
  BY <1>1, JobsAre DEF DisbursementInv
<1>9. PICK payment : payment = [job |-> j, item |-> n + 1, amount |-> old.requests[n + 1].amount - x.fees]
  OBVIOUS
<1>10. \/ x.status = "failed" /\ \A q : Mine(q)' = Mine(q)
       \/ /\ x.status = "completed" /\ Mine(j)' = Mine(j) \union {payment}
          /\ \A q : q # j => Mine(q)' = Mine(q)
  BY <1>1, <1>2, <1>9 DEF Mine, Current
<1>11. /\ Successes(j) = Successful(old.results) /\ Successes(j)' = Successful(results)
  BY <1>1, <1>5, <1>7 DEF Successes, Successful
<1>12. \A i \in 1..Len(results) : results[i].fees + results[i].netAmount = job.requests[i].amount
  <2> TAKE i \in 1..Len(results)
  <2>1. CASE i = n + 1
    BY <1>1, <1>2, <1>4, <1>5, <2>1 DEF Current
  <2>2. CASE i # n + 1
    <3>1. i \in 1..n
      BY <1>4, <2>2
    <3> QED
      BY <1>1, <1>2, <1>4, <1>5, <1>8, <3>1 DEF Progress
  <2> QED
    BY <2>1, <2>2
<1>13. ASSUME NEW p \in Mine(j)
       PROVE  /\ p.item \in 1..n /\ p.item \in Successful(results)
              /\ p.amount = job.requests[p.item].amount - results[p.item].fees
  <2>1. p.item \in Successful(old.results) /\ p.amount = old.requests[p.item].amount - old.results[p.item].fees
    BY <1>1, <1>8, <1>11 DEF Progress
  <2>2. p.item \in 1..n /\ old.results[p.item].status = "completed"
    BY <1>2, <2>1 DEF Successful
  <2> QED
    BY <1>2, <1>4, <1>5, <2>1, <2>2 DEF Successful
<1>14. IsFiniteSet(Mine(j)) /\ Cardinality(Mine(j)) = Cardinality(Successful(old.results))
  BY <1>8, <1>11 DEF Progress
<1>15. /\ \A p \in Mine(j)' : /\ p.item \in Successes(j)'
                              /\ p.amount = job.requests[p.item].amount - results[p.item].fees
       /\ IsFiniteSet(Mine(j)') /\ Cardinality(Mine(j)') = Cardinality(Successes(j)')
  <2>1. CASE x.status = "failed" /\ \A q : Mine(q)' = Mine(q)
    <3>1. Successful(results) = Successful(old.results)
      BY <1>3, <1>4, <2>1, SuccessfulIs
    <3> QED
      BY <1>11, <1>13, <1>14, <2>1, <3>1
  <2>2. CASE x.status = "completed" /\ Mine(j)' = Mine(j) \union {payment}
    <3>1. /\ Successful(results) = Successful(old.results) \union {n + 1}
          /\ Cardinality(Successful(results)) = Cardinality(Successful(old.results)) + 1
      BY <1>2, <1>3, <1>4, <2>2, SuccessfulIs
    <3>2. payment.item = n + 1 /\ payment.amount = job.requests[n + 1].amount - results[n + 1].fees
      BY <1>4, <1>5, <1>9
    <3>3. payment \notin Mine(j)
      BY <1>13, <3>2
    <3>4. IsFiniteSet(Mine(j)') /\ Cardinality(Mine(j)') = Cardinality(Mine(j)) + 1
      BY <1>14, <2>2, <3>3, FS_AddElement
    <3>5. \A p \in Mine(j)' : /\ p.item \in Successful(results)
                              /\ p.amount = job.requests[p.item].amount - results[p.item].fees
      BY <1>13, <2>2, <3>1, <3>2
    <3> QED
      BY <1>11, <1>14, <3>1, <3>4, <3>5
  <2> QED
    BY <1>10, <2>1, <2>2
<1>16. Progress(j)'
  <2>1. Len(results) <= Len(job.requests) /\ job.status # "calling"
    BY <1>2, <1>3, <1>4, <1>5
  <2> QED
    BY <1>5, <1>7, <1>12, <1>15, <2>1 DEF Progress
<1>17. Accounted(j)'
  BY <1>5, <1>7 DEF Accounted, Answered
<1>18. \A q \in Jobs \ {j} : Mine(q)' = Mine(q)
  BY <1>10
<1> QED
  BY <1>5, <1>6, <1>16, <1>17, <1>18, OthersGoOn

LEMMA ProcessingKeeps ==
    ASSUME DisbursementInv, NEW j \in Jobs, processDisbursement(j)
    PROVE  DisbursementInv'
<1>1. /\ jobs[j].status = "processing" /\ jobs[j] \in OpenJob
      /\ Len(jobs[j].results) < Len(jobs[j].requests) /\ UNCHANGED paid
  <2>1. jobs[j].status = "processing" /\ Len(jobs[j].results) < Len(jobs[j].requests) /\ UNCHANGED paid
    BY DEF processDisbursement, Working
  <2>2. jobs[j] # Unused
    BY <2>1, JobsAre
  <2>3. jobs[j] \in OpenJob \union ClosedJob
    BY <2>2 DEF DisbursementInv
  <2> QED
    BY <2>1, <2>3, JobsAre
<1>2. PICK old \in OpenJob : old = jobs[j]
  BY <1>1
<1>3. CASE Received(j, Rejected(Current(j)))
  <2>1. PICK payout \in Payout : payout = Current(j)
    <3>1. old.requests \in Seq(Payout) /\ old.results \in Seq(Result)
      BY DEF OpenJob
    <3>2. Len(old.results) + 1 \in 1..Len(old.requests)
      BY <1>1, <1>2, <3>1
    <3> QED
      BY <1>2, <3>1, <3>2 DEF Current
  <2>2. PICK x \in Result : x = Rejected(payout) /\ x.status = "failed" /\ x.fees + x.netAmount = payout.amount
    BY ResultsAre
  <2> QED
    BY <1>1, <1>3, <2>1, <2>2, ResultReceived
<1>4. CASE jobs' = [jobs EXCEPT ![j].status = "calling"]
  <2>1. PICK job \in OpenJob : /\ job = [old EXCEPT !.status = "calling"] /\ job.status = "calling"
                               /\ job.results = old.results /\ job.requests = old.requests
    <3>1. PICK job : job = [old EXCEPT !.status = "calling"]
      OBVIOUS
    <3>2. job \in OpenJob /\ job.status = "calling" /\ job.results = old.results /\ job.requests = old.requests
      BY <3>1 DEF OpenJob
    <3> QED
      BY <3>1, <3>2
  <2>2. jobs' = [jobs EXCEPT ![j] = job]
    BY <1>2, <1>4, <2>1 DEF DisbursementInv
  <2>3. jobs'[j] = job
    BY <2>2 DEF DisbursementInv
  <2>4. \A q : Mine(q)' = Mine(q)
    BY <1>1 DEF Mine
  <2>5. Progress(j)
    BY <1>1, JobsAre DEF DisbursementInv
  <2>6. Successes(j)' = Successes(j)
    BY <1>2, <2>1, <2>3 DEF Successes
  <2>7. Progress(j)'
    BY <1>1, <1>2, <2>1, <2>3, <2>4, <2>5, <2>6 DEF Progress
  <2>8. Accounted(j)'
    BY <2>1, <2>3 DEF Accounted, Answered
  <2> QED
    BY <2>1, <2>2, <2>4, <2>7, <2>8, OthersGoOn
<1> QED
  BY <1>3, <1>4 DEF processDisbursement

LEMMA ExecutingKeeps ==
    ASSUME DisbursementInv, NEW j \in Jobs, executeDisbursement(j)
    PROVE  DisbursementInv'
<1>1. /\ jobs[j].status = "calling" /\ jobs[j] \in OpenJob
      /\ Len(jobs[j].results) < Len(jobs[j].requests)
  <2>1. jobs[j].status = "calling" /\ Len(jobs[j].results) < Len(jobs[j].requests)
    BY DEF executeDisbursement, Working
  <2>2. jobs[j] # Unused
    BY <2>1, JobsAre
  <2>3. jobs[j] \in OpenJob \union ClosedJob
    BY <2>2 DEF DisbursementInv
  <2> QED
    BY <2>1, <2>3, JobsAre
<1>2. PICK old \in OpenJob : old = jobs[j]
  BY <1>1
<1>3. PICK payout \in Payout : payout = Current(j)
  <2>1. old.requests \in Seq(Payout) /\ old.results \in Seq(Result)
    BY DEF OpenJob
  <2>2. Len(old.results) + 1 \in 1..Len(old.requests)
    BY <1>1, <1>2, <2>1
  <2> QED
    BY <1>2, <2>1, <2>2 DEF Current
<1>4. PICK status \in {"completed", "failed"} :
          /\ Received(j, Executed(payout, status))
          /\ \/ status = "failed" /\ UNCHANGED paid
             \/ /\ status = "completed"
                /\ paid' = paid \union {[job |-> j, item |-> Len(jobs[j].results) + 1,
                                         amount |-> Executed(payout, status).netAmount]}
  BY <1>3 DEF executeDisbursement
<1>5. PICK x \in Result : /\ x = Executed(payout, status) /\ x.status = status
                          /\ x.fees + x.netAmount = payout.amount
                          /\ x.netAmount = payout.amount - x.fees
  BY ResultsAre
<1> QED
  BY <1>1, <1>3, <1>4, <1>5, ResultReceived

\* The sums of a summary split as the results do.
LEMMA SumsSplit ==
    ASSUME NEW requests \in Seq(Payout), NEW results \in Seq(Result), Len(results) = Len(requests),
           \A i \in 1..Len(results) : results[i].fees + results[i].netAmount = requests[i].amount
    PROVE  LET amounts == SumFunction([i \in 1..Len(results) |-> requests[i].amount])
               fees == SumFunction([i \in 1..Len(results) |-> results[i].fees])
               nets == SumFunction([i \in 1..Len(results) |-> results[i].netAmount])
           IN  amounts = fees + nets /\ amounts \in Int /\ fees \in Int /\ nets \in Int
<1>1. PICK n \in Nat : n = Len(results)
  OBVIOUS
<1>2. PICK S : S = 1..n
  OBVIOUS
<1>3. IsFiniteSet(S)
  <2>1. 1 \in Int /\ n \in Int
    OBVIOUS
  <2> QED
    BY <1>2, <2>1, FS_Interval
<1>4. PICK f, g, h : /\ f = [i \in S |-> requests[i].amount] /\ g = [i \in S |-> results[i].fees]
                     /\ h = [i \in S |-> results[i].netAmount]
  OBVIOUS
<1>5. \A i \in S : requests[i] \in Payout /\ results[i] \in Result
  BY <1>1, <1>2
<1>6. \A i \in S : requests[i].amount \in Int /\ results[i].fees \in Int /\ results[i].netAmount \in Int
  BY <1>5 DEF Payout, Result
<1>7. f \in [S -> Int] /\ g \in [S -> Int] /\ h \in [S -> Int]
  BY <1>4, <1>6
<1>8. \A i \in S : f[i] = g[i] + h[i]
  BY <1>1, <1>2, <1>4
<1>9. SumFunction(f) = SumFunction(g) + SumFunction(h)
  <2>1. IsSplit(S, f, g, h)
    BY <1>7, <1>8 DEF IsSplit
  <2> QED
    BY <1>3, <2>1, SumOfSums
<1>10. SumFunction(f) \in Int /\ SumFunction(g) \in Int /\ SumFunction(h) \in Int
  BY <1>3, <1>7, SumFacts
<1> QED
  BY <1>1, <1>2, <1>4, <1>9, <1>10

LEMMA SummarisingKeeps ==
    ASSUME DisbursementInv, NEW j \in Jobs, Summarise(j)
    PROVE  DisbursementInv'
<1>1. /\ jobs[j].status = "processing" /\ jobs[j].kind = "batch" /\ jobs[j] \in OpenJob
      /\ Len(jobs[j].results) = Len(jobs[j].requests) /\ UNCHANGED paid
  <2>1. /\ jobs[j].status = "processing" /\ jobs[j].kind = "batch"
        /\ Len(jobs[j].results) = Len(jobs[j].requests) /\ UNCHANGED paid
    BY DEF Summarise
  <2>2. jobs[j] # Unused
    BY <2>1, JobsAre
  <2>3. jobs[j] \in OpenJob \union ClosedJob
    BY <2>2 DEF DisbursementInv
  <2> QED
    BY <2>1, <2>3, JobsAre
<1>2. PICK requests \in Seq(Payout), results \in Seq(Result) :
          requests = jobs[j].requests /\ results = jobs[j].results
  BY <1>1 DEF OpenJob
<1>3. PICK n \in Nat : n = Len(results) /\ n = Len(requests)
  BY <1>1, <1>2
<1>4. Progress(j)
  BY <1>1, JobsAre DEF DisbursementInv
<1>5. PICK c \in Nat : c = Cardinality(Successes(j)) /\ c <= n
  <2>1. PICK x \in Result : TRUE
    <3>1. [status |-> "failed", fees |-> 0, netAmount |-> 0] \in Result
      BY DEF Result
    <3> QED
      BY <3>1
  <2>2. Cardinality(Successful(results)) \in Nat /\ Cardinality(Successful(results)) <= Len(results)
    BY SuccessfulIs
  <2>3. Successes(j) = Successful(results)
    BY <1>2, SuccessesAre
  <2> QED
    BY <1>3, <2>2, <2>3
<1>6. PICK amounts \in Int, fees \in Int, nets \in Int :
          /\ amounts = SumFunction([i \in 1..Len(results) |-> requests[i].amount])
          /\ fees = SumFunction([i \in 1..Len(results) |-> results[i].fees])
          /\ nets = SumFunction([i \in 1..Len(results) |-> results[i].netAmount])
          /\ amounts = fees + nets
  <2>1. \A i \in 1..Len(results) : results[i].fees + results[i].netAmount = requests[i].amount
    BY <1>2, <1>4 DEF Progress
  <2> QED
    BY <1>3, <2>1, SumsSplit
<1>7. PICK status \in Answered :
          status = IF n - c = 0 THEN "completed" ELSE IF c = 0 THEN "failed" ELSE "partial"
  BY DEF Answered
<1>8. PICK summary : summary = [successCount |-> c, failureCount |-> n - c, totalAmount |-> amounts,
                                totalFees |-> fees, netAmount |-> nets]
  OBVIOUS
<1>9. PICK job : job = [kind |-> "batch", requests |-> requests, results |-> results,
                        status |-> status, summary |-> summary]
  OBVIOUS
<1>10. jobs' = [jobs EXCEPT ![j] = job]
  BY <1>2, <1>3, <1>5, <1>6, <1>7, <1>8, <1>9 DEF Summarise, Total
<1>11. job \in ClosedJob
  BY <1>3, <1>5, <1>8, <1>9 DEF ClosedJob
<1>12. jobs'[j] = job
  BY <1>10 DEF DisbursementInv
<1>13. \A q : Mine(q)' = Mine(q)
  BY <1>1 DEF Mine
<1>14. Successes(j)' = Successes(j)
  BY <1>2, <1>9, <1>12 DEF Successes
<1>15. job.requests = requests /\ job.results = results /\ job.status = status /\ job.summary = summary
  BY <1>9
<1>16. Progress(j)'
  <2>1. status # "calling" /\ Len(results) <= Len(requests)
    BY <1>3, <1>7
  <2> QED
    BY <1>2, <1>4, <1>12, <1>13, <1>14, <1>15, <2>1 DEF Progress
<1>17. Accounted(j)'
  <2>1. Cardinality(Mine(j)) = c /\ IsFiniteSet(Mine(j))
    BY <1>4, <1>5 DEF Progress
  <2>2. c = 0 <=> Mine(j) = {}
    BY <2>1, FS_EmptySet
  <2>3. requests # <<>> <=> n # 0
    BY <1>3
  <2>4. status = "completed" <=> c = n
    BY <1>5, <1>7
  <2>5. status = "failed" <=> Mine(j) = {} /\ requests # <<>>
    BY <1>5, <1>7, <2>2, <2>3
  <2>6. summary.totalAmount = summary.totalFees + summary.netAmount /\ summary.successCount = c
    BY <1>6, <1>8
  <2> QED
    BY <1>3, <1>12, <1>13, <1>15, <2>1, <2>4, <2>5, <2>6 DEF Accounted
<1> QED
  BY <1>10, <1>11, <1>13, <1>16, <1>17, OthersGoOn

LEMMA DisbursementInitially == DisbursementInit => DisbursementInv
  BY DEF DisbursementInit, DisbursementInv, Mine

LEMMA DisbursementKept == DisbursementInv /\ [DisbursementNext]_DisbursementVars => DisbursementInv'
<1> SUFFICES ASSUME DisbursementInv, [DisbursementNext]_DisbursementVars PROVE DisbursementInv'
  OBVIOUS
<1>1. CASE UNCHANGED DisbursementVars
  <2>1. jobs' = jobs /\ \A q : Mine(q)' = Mine(q) /\ Successes(q)' = Successes(q)
    BY <1>1 DEF DisbursementVars, Mine, Successes
  <2>2. ASSUME NEW j \in Jobs
        PROVE  IF jobs'[j] = Unused THEN Mine(j)' = {} ELSE Progress(j)' /\ Accounted(j)'
    <3>1. IF jobs[j] = Unused THEN Mine(j) = {} ELSE Progress(j) /\ Accounted(j)
      BY DEF DisbursementInv
    <3> QED
      BY <2>1, <3>1 DEF Progress, Accounted
  <2> QED
    BY <2>1, <2>2 DEF DisbursementInv
<1>2. ASSUME NEW j \in Jobs,
             \/ createDisbursement(j) \/ createBatchDisbursement(j) \/ processDisbursement(j)
             \/ executeDisbursement(j) \/ Summarise(j)
      PROVE  DisbursementInv'
  BY <1>2, JobBegins, ProcessingKeeps, ExecutingKeeps, SummarisingKeeps
<1> QED
  BY <1>1, <1>2 DEF DisbursementNext

LEMMA DisbursementShows == DisbursementInv => DisbursementTypeOK /\ BatchAccountsForPayouts
<1> SUFFICES ASSUME DisbursementInv PROVE DisbursementTypeOK /\ BatchAccountsForPayouts
  OBVIOUS
<1>1. ASSUME NEW j \in Jobs, OnRecord(jobs[j])
      PROVE  /\ jobs[j].status \in {"processing", "calling", "completed", "failed", "partial"}
             /\ \A i \in 1..Len(jobs[j].results) : jobs[j].results[i] \in Result
             /\ Progress(j) /\ Accounted(j)
  <2>1. jobs[j] # Unused
    BY <1>1 DEF OnRecord
  <2>2. PICK job \in OpenJob \union ClosedJob : job = jobs[j]
    BY <2>1 DEF DisbursementInv
  <2>3. job.status \in {"processing", "calling"} \union Answered /\ job.results \in Seq(Result)
    BY JobsAre
  <2>4. Progress(j) /\ Accounted(j)
    BY <2>1 DEF DisbursementInv
  <2> QED
    BY <2>2, <2>3, <2>4 DEF Answered
<1>2. DisbursementTypeOK
  BY <1>1 DEF DisbursementTypeOK
<1>3. BatchAccountsForPayouts
  <2>1. ASSUME NEW j \in Jobs, OnRecord(jobs[j]), jobs[j].status \in {"completed", "failed", "partial"}
        PROVE  /\ jobs[j].summary.totalAmount = jobs[j].summary.totalFees + jobs[j].summary.netAmount
               /\ jobs[j].summary.successCount = Cardinality(Mine(j))
               /\ \A p \in Mine(j) : p.amount = jobs[j].requests[p.item].amount - jobs[j].results[p.item].fees
               /\ jobs[j].status = "completed" <=> Cardinality(Mine(j)) = Len(jobs[j].requests)
               /\ jobs[j].status = "failed" <=> Mine(j) = {} /\ jobs[j].requests # <<>>
    BY <1>1, <2>1 DEF Progress, Accounted, Answered
  <2> QED
    BY <2>1 DEF BatchAccountsForPayouts, Mine
<1> QED
  BY <1>2, <1>3

-----------------------------------------------------------------------------
\* What a provider is charged: numbers, whatever rules apply, between the bounds.

Scores == {NoScore, 50, 78, 95}
TierRecord == [from : Nat, to : Nat, percentage : Nat]
RuleRecord == [on : {"amount", "performance"}, threshold : Nat, adjustment : Nat, type : AdjustmentKinds]
MultiplierRecord == [high : Nat, standard : Nat, low : Nat]

LEMMA ConfigurationIs ==
    ASSUME NEW config \in MarginConfig
    PROVE  /\ config.type \in MarginKinds /\ config.base \in Nat
           /\ config.minimum \in Nat /\ config.maximum \in Nat
           /\ config.tiers \in Seq(TierRecord) /\ config.rules \in Seq(RuleRecord)
           /\ config.multipliers = NoMultipliers \/ config.multipliers \in MultiplierRecord
<1>1. MarginConfig = [type : MarginKinds, base : Nat, tiers : Seq(TierRecord),
                      multipliers : {NoMultipliers} \union MultiplierRecord,
                      minimum : Nat, maximum : Nat, active : BOOLEAN, rules : Seq(RuleRecord)]
  BY DEF MarginConfig, TierRecord, RuleRecord, MultiplierRecord
<1>2. PICK tiers, rules, multipliers : /\ tiers = Seq(TierRecord) /\ rules = Seq(RuleRecord)
                                       /\ multipliers = {NoMultipliers} \union MultiplierRecord
  OBVIOUS
<1>3. config \in [type : MarginKinds, base : Nat, tiers : tiers, multipliers : multipliers,
                  minimum : Nat, maximum : Nat, active : BOOLEAN, rules : rules]
  BY <1>1, <1>2
<1>4. /\ config.type \in MarginKinds /\ config.base \in Nat
      /\ config.minimum \in Nat /\ config.maximum \in Nat
      /\ config.tiers \in tiers /\ config.rules \in rules /\ config.multipliers \in multipliers
  BY <1>3
<1> QED
  BY <1>2, <1>4

LEMMA QuotientIs == \A a \in Nat : a \div 10 \in Nat /\ a \div 100 \in Nat /\ a \div 1000 \in Nat
  OBVIOUS

LEMMA TieredIsNatural ==
    ASSUME NEW config \in MarginConfig, NEW amount \in Nat
    PROVE  TieredMargin(config, amount) \in Nat
<1>1. PICK tiers \in Seq(TierRecord) : tiers = config.tiers
  BY ConfigurationIs
<1>2. PICK T : T = findApplicableTier(amount, tiers)
  OBVIOUS
<1>3. T \subseteq DOMAIN tiers /\ DOMAIN tiers = 1..Len(tiers) /\ T \subseteq Nat
  BY <1>2 DEF findApplicableTier
<1>4. CASE T = {}
  BY <1>1, <1>2, <1>4, ConfigurationIs DEF TieredMargin
<1>5. CASE T # {}
  <2>1. PICK i : i = CHOOSE k \in T : \A j \in T : k <= j
    OBVIOUS
  <2>2. \E k \in T : \A j \in T : k <= j
    BY <1>3, <1>5, LeastOf
  <2>3. i \in T
    BY <2>1, <2>2
  <2>4. tiers[i] \in TierRecord
    BY <1>3, <2>3
  <2>5. TieredMargin(config, amount) = tiers[i].percentage
    BY <1>1, <1>2, <1>5, <2>1 DEF TieredMargin
  <2> QED
    BY <2>4, <2>5 DEF TierRecord
<1> QED
  BY <1>4, <1>5

LEMMA StructureIsNatural ==
    ASSUME NEW config \in MarginConfig, NEW amount \in Nat, NEW score \in Scores, NEW recorded \in Int
    PROVE  StructureMargin(config, amount, score, recorded) \in Nat
<1>1. PICK base \in Nat : base = config.base
  BY ConfigurationIs
<1>2. TieredMargin(config, amount) \in Nat
  BY TieredIsNatural
<1>3. PerformanceMargin(config, score) \in Nat
  <2>1. CASE score = NoScore \/ config.multipliers = NoMultipliers
    BY <1>1, <2>1 DEF PerformanceMargin
  <2>2. CASE ~(score = NoScore \/ config.multipliers = NoMultipliers)
    <3>1. PICK multipliers \in MultiplierRecord : multipliers = config.multipliers
      BY <2>2, ConfigurationIs
    <3>2. multipliers.high \in Nat /\ multipliers.standard \in Nat /\ multipliers.low \in Nat
      BY DEF MultiplierRecord
    <3>3. PICK m \in Nat : m = PerformanceMultiplier(multipliers, score)
      BY <3>2 DEF PerformanceMultiplier, OrElse
    <3>4. base * m \in Nat
      OBVIOUS
    <3>5. (base * m) \div 10 \in Nat
      BY <3>4, QuotientIs
    <3> QED
      BY <1>1, <2>2, <3>1, <3>3, <3>5 DEF PerformanceMargin
  <2> QED
    BY <2>1, <2>2
<1>4. CustomMargin(config, recorded) \in Nat
  <2>1. PICK share \in {90, 95, 100, 105} :
            share = IF recorded >= 90 THEN 90 ELSE IF recorded >= 80 THEN 95
                    ELSE IF recorded >= 70 THEN 100 ELSE 105
    OBVIOUS
  <2>2. CustomMargin(config, recorded) = (base * share) \div 100
    BY <1>1, <2>1 DEF CustomMargin
  <2>3. base * share \in Nat
    OBVIOUS
  <2> QED
    BY <2>2, <2>3, QuotientIs
<1>5. config.type \in MarginKinds
  BY ConfigurationIs
<1> QED
  BY <1>1, <1>2, <1>3, <1>4, <1>5 DEF StructureMargin, MarginKinds

LEMMA AdjustedIsNatural ==
    ASSUME NEW margin \in Nat, NEW rule \in RuleRecord
    PROVE  Adjust(margin, rule) \in Nat
<1>1. PICK a \in Nat : a = rule.adjustment
  BY DEF RuleRecord
<1>2. rule.type \in AdjustmentKinds
  BY DEF RuleRecord
<1>3. margin + a \in Nat /\ margin * a \in Nat
  OBVIOUS
<1>4. (margin * a) \div 10 \in Nat
  BY <1>3, QuotientIs
<1> QED
  BY <1>1, <1>2, <1>3, <1>4 DEF Adjust, AdjustmentKinds

\* The recursive function that applies the rules: one such function exists, and all of its
\* values are natural numbers.
Adjusting(g, n, margin, amount, rules, score) ==
    IF n = 0 THEN margin
    ELSE IF Applies(rules[n], amount, score) THEN Adjust(g[n - 1], rules[n]) ELSE g[n - 1]
Adjusts(g, n, margin, amount, rules, score) ==
    g = [k \in 0..n |-> Adjusting(g, k, margin, amount, rules, score)]

LEMMA AdjustmentsExist ==
    ASSUME NEW margin, NEW amount, NEW rules, NEW score
    PROVE  \A n \in Nat : \E g : Adjusts(g, n, margin, amount, rules, score)
<1> DEFINE A == {n \in Nat : \E g : Adjusts(g, n, margin, amount, rules, score)}
<1>1. 0 \in A
  <2>1. PICK g : g = [k \in 0..0 |-> margin]
    OBVIOUS
  <2>2. \A k \in 0..0 : k = 0
    OBVIOUS
  <2>3. g = [k \in 0..0 |-> Adjusting(g, k, margin, amount, rules, score)]
    BY <2>1, <2>2 DEF Adjusting
  <2> QED
    BY <2>3 DEF Adjusts
<1>2. ASSUME NEW n \in Nat, n \in A PROVE n + 1 \in A
  <2>1. PICK g : g = [k \in 0..n |-> Adjusting(g, k, margin, amount, rules, score)]
    BY <1>2 DEF Adjusts
  <2>2. PICK v : v = IF Applies(rules[n + 1], amount, score) THEN Adjust(g[n], rules[n + 1]) ELSE g[n]
    OBVIOUS
  <2>3. PICK h : h = [k \in 0..(n + 1) |-> IF k = n + 1 THEN v ELSE g[k]]
    OBVIOUS
  <2>4. ASSUME NEW k \in 0..(n + 1) PROVE h[k] = Adjusting(h, k, margin, amount, rules, score)
    <3>1. CASE k = n + 1
      <4>1. h[n] = g[n] /\ k # 0 /\ k - 1 = n /\ h[k] = v
        BY <2>3, <3>1
      <4> QED
        BY <2>2, <3>1, <4>1 DEF Adjusting
    <3>2. CASE k # n + 1
      <4>1. k \in 0..n /\ h[k] = g[k] /\ (k # 0 => k - 1 \in 0..n /\ h[k - 1] = g[k - 1])
        BY <2>3, <3>2
      <4>2. g[k] = Adjusting(g, k, margin, amount, rules, score)
        BY <2>1, <4>1
      <4> QED
        BY <4>1, <4>2 DEF Adjusting
    <3> QED
      BY <3>1, <3>2
  <2>5. h = [k \in 0..(n + 1) |-> Adjusting(h, k, margin, amount, rules, score)]
    BY <2>3, <2>4
  <2> QED
    BY <2>5 DEF Adjusts
<1> HIDE DEF A
<1>3. Nat \subseteq A
  BY <1>1, <1>2, NatSetInduction
<1> QED
  BY <1>3 DEF A

LEMMA AdjustmentsAreNatural ==
    ASSUME NEW margin \in Nat, NEW amount, NEW rules \in Seq(RuleRecord), NEW score,
           NEW g, Adjusts(g, Len(rules), margin, amount, rules, score)
    PROVE  g[Len(rules)] \in Nat
<1>0. PICK m \in Nat : m = Len(rules)
  OBVIOUS
<1> DEFINE A == {n \in Nat : n <= m => g[n] \in Nat}
<1>1. \A k \in 0..m : g[k] = Adjusting(g, k, margin, amount, rules, score)
  BY <1>0 DEF Adjusts
<1>2. 0 \in A
  <2>1. 0 \in 0..m
    OBVIOUS
  <2>2. g[0] = margin
    BY <1>1, <2>1 DEF Adjusting
  <2> QED
    BY <2>2
<1>3. ASSUME NEW n \in Nat, n \in A PROVE n + 1 \in A
  <2> SUFFICES ASSUME n + 1 <= m PROVE g[n + 1] \in Nat
    OBVIOUS
  <2>1. PICK k \in 0..m : k = n + 1 /\ k # 0 /\ k - 1 = n /\ k \in 1..m
    <3>1. n + 1 \in 0..m
      OBVIOUS
    <3> QED
      BY <3>1
  <2>2. g[n] \in Nat /\ rules[k] \in RuleRecord
    BY <1>0, <1>3, <2>1
  <2>3. g[k] = Adjusting(g, k, margin, amount, rules, score)
    BY <1>1
  <2>4. Adjust(g[n], rules[k]) \in Nat
    BY <2>2, AdjustedIsNatural
  <2>5. Adjusting(g, k, margin, amount, rules, score) \in Nat
    BY <2>1, <2>2, <2>4 DEF Adjusting
  <2> QED
    BY <2>1, <2>3, <2>5
<1> HIDE DEF A
<1>4. Nat \subseteq A
  BY <1>2, <1>3, NatSetInduction
<1> QED
  BY <1>0, <1>4 DEF A

LEMMA RulesYieldNaturals ==
    ASSUME NEW margin \in Nat, NEW amount, NEW rules \in Seq(RuleRecord), NEW score
    PROVE  applyAdjustmentRules(margin, amount, rules, score) \in Nat
<1>1. PICK g : g = CHOOSE h : Adjusts(h, Len(rules), margin, amount, rules, score)
  OBVIOUS
<1>2. \E h : Adjusts(h, Len(rules), margin, amount, rules, score)
  <2>1. Len(rules) \in Nat
    OBVIOUS
  <2> QED
    BY <2>1, AdjustmentsExist
<1>3. Adjusts(g, Len(rules), margin, amount, rules, score)
  BY <1>1, <1>2
<1>4. applyAdjustmentRules(margin, amount, rules, score) = g[Len(rules)]
  BY <1>1 DEF applyAdjustmentRules, Adjusts, Adjusting
<1> QED
  BY <1>3, <1>4, AdjustmentsAreNatural

LEMMA ChargedWithinBounds ==
    ASSUME NEW config \in MarginConfig, NEW amount \in Nat, NEW score \in Scores, NEW recorded \in Int
    PROVE  LET charged == calculateMargin(config, amount, score, recorded)
           IN  /\ charged \in Nat /\ charged >= config.minimum
               /\ config.minimum < config.maximum => charged <= config.maximum
<1>1. PICK x \in Nat :
          x = applyAdjustmentRules(StructureMargin(config, amount, score, recorded), amount, config.rules, score)
  <2>1. PICK margin \in Nat : margin = StructureMargin(config, amount, score, recorded)
    BY StructureIsNatural
  <2>2. PICK rules \in Seq(RuleRecord) : rules = config.rules
    BY ConfigurationIs
  <2> QED
    BY <2>1, <2>2, RulesYieldNaturals
<1>2. calculateMargin(config, amount, score, recorded) = WithinBounds(config, x)
  BY <1>1 DEF calculateMargin
<1>3. config.minimum \in Nat /\ config.maximum \in Nat
  BY ConfigurationIs
<1> QED
  BY <1>2, <1>3 DEF WithinBounds, Greater, Lesser

\* Three months of a trend that goes up from ten leads.
GrowthOf(g, m, leads, trend) ==
    LET rate == CASE trend = "up" -> 105 [] trend = "down" -> 97 [] OTHER -> 100
    IN  IF m = 1 THEN leads * 1000 ELSE (g[m - 1] * rate) \div 100
Growth(g, m) == GrowthOf(g, m, 10, "up")

LEMMA GrowthStep == \A g, m : Growth(g, m) = IF m = 1 THEN 10000 ELSE (g[m - 1] * 105) \div 100
<1> SUFFICES ASSUME NEW g, NEW m PROVE Growth(g, m) = IF m = 1 THEN 10000 ELSE (g[m - 1] * 105) \div 100
  OBVIOUS
<1>1. 10 * 1000 = 10000
  OBVIOUS
<1> QED
  BY <1>1 DEF Growth, GrowthOf

LEMMA GrowthIs ==
    ASSUME NEW month \in 1..3
    PROVE  applyGrowthFactor(10, month, "up") \in Nat
<1>0. \A m \in 1..month : m = 1 \/ m = 2 \/ m = 3
  OBVIOUS
<1>1. \E h : h = [m \in 1..month |-> Growth(h, m)]
  <2> DEFINE values == <<10000, 10500, 11025>>
  <2>0. values[1] = 10000 /\ values[2] = 10500 /\ values[3] = 11025
    OBVIOUS
  <2> HIDE DEF values
  <2>1. PICK h : h = [m \in 1..month |-> values[m]]
    OBVIOUS
  <2>2. ASSUME NEW m \in 1..month PROVE h[m] = Growth(h, m)
    <3>1. CASE m = 1
      BY <2>0, <2>1, <3>1, GrowthStep
    <3>2. CASE m = 2
      <4>1. h[1] = 10000 /\ h[2] = 10500 /\ m - 1 = 1
        BY <2>0, <2>1, <3>2
      <4>2. (10000 * 105) \div 100 = 10500
        OBVIOUS
      <4> QED
        BY <3>2, <4>1, <4>2, GrowthStep
    <3>3. CASE m = 3
      <4>1. h[2] = 10500 /\ h[3] = 11025 /\ m - 1 = 2
        BY <2>0, <2>1, <3>3
      <4>2. (10500 * 105) \div 100 = 11025
        OBVIOUS
      <4> QED
        BY <3>3, <4>1, <4>2, GrowthStep
    <3> QED
      BY <1>0, <3>1, <3>2, <3>3
  <2> QED
    BY <2>1, <2>2
<1>2. PICK g : g = CHOOSE h : h = [m \in 1..month |-> Growth(h, m)]
  OBVIOUS
<1>3. g = [m \in 1..month |-> Growth(g, m)]
  BY <1>1, <1>2
<1>4. \A m \in 1..month : g[m] = Growth(g, m)
  BY <1>3
<1>5. g[1] = 10000
  <2>1. 1 \in 1..month
    OBVIOUS
  <2> QED
    BY <1>4, <2>1, GrowthStep
<1>6. month >= 2 => g[2] \in Nat
  <2> SUFFICES ASSUME month >= 2 PROVE g[2] \in Nat
    OBVIOUS
  <2>1. 2 \in 1..month /\ 2 - 1 = 1 /\ 2 # 1
    OBVIOUS
  <2>2. g[2] = (g[1] * 105) \div 100
    BY <1>4, <2>1, GrowthStep
  <2> QED
    BY <1>5, <2>2
<1>7. month = 3 => g[3] \in Nat
  <2> SUFFICES ASSUME month = 3 PROVE g[3] \in Nat
    OBVIOUS
  <2>1. 3 \in 1..month /\ 3 - 1 = 2 /\ 3 # 1
    OBVIOUS
  <2>2. g[3] = (g[2] * 105) \div 100 /\ g[2] \in Nat
    BY <1>4, <1>6, <2>1, GrowthStep
  <2> QED
    BY <2>2
<1>8. PICK grown \in Nat : grown = g[month]
  <2>1. month = 1 \/ month = 2 \/ month = 3
    OBVIOUS
  <2> QED
    BY <1>5, <1>6, <1>7, <2>1
<1>9. applyGrowthFactor(10, month, "up") = (grown + 500) \div 1000
  BY <1>2, <1>8 DEF applyGrowthFactor, Growth, GrowthOf
<1> QED
  BY <1>9

\* A margin, in thousandths and rounded down, of at most the maximum.
LEMMA SharesAreBounded ==
    ASSUME NEW revenue \in Nat, NEW charged \in Nat, NEW maximum \in Nat, charged <= maximum
    PROVE  ((revenue * charged) \div 1000) * 1000 <= revenue * maximum
<1>1. PICK a \in Nat : a = revenue * charged
  OBVIOUS
<1>2. (a \div 1000) * 1000 <= a
  OBVIOUS
<1>3. PICK k \in Nat : maximum = charged + k
  <2>1. maximum - charged \in Nat /\ maximum = charged + (maximum - charged)
    OBVIOUS
  <2> QED
    BY <2>1
<1>4. revenue * maximum = a + revenue * k /\ revenue * k \in Nat
  BY <1>1, <1>3
<1>5. a \div 1000 \in Nat
  BY QuotientIs
<1> QED
  BY <1>1, <1>2, <1>4, <1>5

LEMMA ProjectionIsBounded ==
    ASSUME NEW config \in MarginConfig, NEW amount \in Nat, NEW score \in Scores,
           config.minimum < config.maximum, NEW m \in 1..3
    PROVE  LET month == getMarginProjections(config, 10, amount, 3, score, "up")[m]
           IN  month.margin * 1000 <= month.revenue * config.maximum
<1>1. PICK leads \in Nat : leads = applyGrowthFactor(10, m, "up")
  BY GrowthIs
<1>2. PICK charged \in Nat : charged = calculateMargin(config, amount, score, score) /\ charged <= config.maximum
  <2>1. score \in Int
    BY DEF Scores, NoScore
  <2> QED
    BY <2>1, ChargedWithinBounds
<1>3. PICK maximum \in Nat : maximum = config.maximum
  BY ConfigurationIs
<1>4. PICK revenue \in Nat : revenue = leads * amount
  OBVIOUS
<1>5. PICK month : month = getMarginProjections(config, 10, amount, 3, score, "up")[m]
  OBVIOUS
<1>6. month.revenue = revenue /\ month.margin = (revenue * charged) \div 1000
  BY <1>1, <1>2, <1>4, <1>5 DEF getMarginProjections
<1>7. ((revenue * charged) \div 1000) * 1000 <= revenue * maximum
  BY <1>2, <1>3, SharesAreBounded
<1> QED
  BY <1>3, <1>5, <1>6, <1>7

\* Whoever's margin was validated has bounds that do not cross.
BoundsHold == \A p \in Lenders : p \notin unchecked /\ margins[p] # NoMargin => margins[p].minimum < margins[p].maximum

LEMMA BoundsStay ==
    \A config \in MarginConfig, active \in BOOLEAN, base \in Nat :
        /\ [config EXCEPT !.active = active].minimum = config.minimum
        /\ [config EXCEPT !.active = active].maximum = config.maximum
        /\ [config EXCEPT !.base = base].minimum = config.minimum
        /\ [config EXCEPT !.base = base].maximum = config.maximum
<1>1. PICK tiers, rules, multipliers :
          MarginConfig = [type : MarginKinds, base : Nat, tiers : tiers, multipliers : multipliers,
                          minimum : Nat, maximum : Nat, active : BOOLEAN, rules : rules]
  BY DEF MarginConfig
<1> QED
  BY <1>1

\* A margin that is put for one provider, whether or not it is validated.
LEMMA PuttingKeepsBounds ==
    ASSUME AdminTyped, BoundsHold, NEW p \in Lenders, NEW put, margins' = [margins EXCEPT ![p] = put],
           \A q \in Lenders \ {p} : q \in unchecked => q \in unchecked',
           p \notin unchecked' => put.minimum < put.maximum
    PROVE  BoundsHold'
<1>1. \A q \in Lenders : margins'[q] = IF q = p THEN put ELSE margins[q]
  BY DEF AdminTyped
<1> QED
  BY <1>1 DEF BoundsHold

LEMMA SameBounds == ASSUME BoundsHold, UNCHANGED <<margins, unchecked>> PROVE BoundsHold'
  BY DEF BoundsHold

LEMMA CreationsKeepBounds == ASSUME AdminTyped, BoundsHold, Creations PROVE BoundsHold'
<1>1. ASSUME NEW k \in Clients, NEW email \in ProviderEmails, NEW is \in Submissions, findByEmail(k, email, is)
      PROVE  BoundsHold'
  BY <1>1, SameBounds DEF findByEmail
<1>2. ASSUME NEW k \in Clients, NEW p \in Lenders, createProviderOnboarding(k, p) PROVE BoundsHold'
  <2>1. PICK put : margins' = [margins EXCEPT ![p] = put] /\ unchecked' = unchecked \union {p}
    BY <1>2 DEF createProviderOnboarding
  <2> QED
    BY <2>1, PuttingKeepsBounds
<1> QED
  BY <1>1, <1>2 DEF Creations

LEMMA ApprovingKeepsBounds ==
    ASSUME AdminTyped, BoundsHold, NEW p \in Lenders, approveProviderOnboarding(p)
    PROVE  BoundsHold'
<1>1. activateMarginConfiguration(p) /\ UNCHANGED unchecked
  BY DEF approveProviderOnboarding, Approve
<1>2. CASE margins[p] = NoMargin
  BY <1>1, <1>2, SameBounds DEF activateMarginConfiguration
<1>3. CASE margins[p] # NoMargin
  <2>1. PICK config \in MarginConfig : config = margins[p]
    BY <1>3 DEF AdminTyped
  <2>2. PICK put : put = [config EXCEPT !.active = TRUE]
    OBVIOUS
  <2>3. put.minimum = config.minimum /\ put.maximum = config.maximum
    BY <2>2, BoundsStay
  <2>4. margins' = [margins EXCEPT ![p] = put]
    BY <1>1, <1>3, <2>1, <2>2 DEF activateMarginConfiguration, AdminTyped
  <2>5. p \notin unchecked' => put.minimum < put.maximum
    BY <1>1, <1>3, <2>1, <2>3 DEF BoundsHold
  <2> QED
    BY <1>1, <2>4, <2>5, PuttingKeepsBounds
<1> QED
  BY <1>2, <1>3

LEMMA UpdatesKeepBounds ==
    ASSUME AdminTyped, BoundsHold, NEW p \in Lenders, NEW config \in MarginConfig,
           updateMarginConfiguration(p, config) \/ updateValidatedMargin(p, config)
    PROVE  BoundsHold'
<1>1. PutMargin(p, config)
  BY DEF updateMarginConfiguration, updateValidatedMargin
<1>2. PICK active \in BOOLEAN : active = IF margins[p] = NoMargin THEN FALSE ELSE margins[p].active
  BY MarginFields DEF AdminTyped
<1>3. PICK put : put = [config EXCEPT !.active = active]
  OBVIOUS
<1>4. margins' = [margins EXCEPT ![p] = put]
  BY <1>1, <1>2, <1>3 DEF PutMargin
<1>5. put.minimum = config.minimum /\ put.maximum = config.maximum
  <2>1. PICK base \in Nat : base = 0
    OBVIOUS
  <2> QED
    BY <1>3, <2>1, BoundsStay
<1>6. CASE updateMarginConfiguration(p, config)
  <2>1. unchecked' = unchecked \union {p}
    BY <1>6 DEF updateMarginConfiguration
  <2> QED
    BY <1>4, <2>1, PuttingKeepsBounds
<1>7. CASE updateValidatedMargin(p, config)
  <2>1. unchecked' = unchecked \ {p} /\ config.minimum < config.maximum
    BY <1>7 DEF updateValidatedMargin, validateMarginConfiguration
  <2> QED
    BY <1>4, <1>5, <2>1, PuttingKeepsBounds
<1> QED
  BY <1>6, <1>7

LEMMA OptimizingKeepsBounds ==
    ASSUME AdminTyped, BoundsHold, NEW p \in Lenders, NEW goal \in {0, Percent(40)},
           optimizeMarginConfiguration(p, goal)
    PROVE  BoundsHold'
<1>1. /\ margins[p] # NoMargin /\ UNCHANGED unchecked
      /\ margins' = [margins EXCEPT ![p].base = OptimizedBase(margins[p], goal)]
  BY DEF optimizeMarginConfiguration
<1>2. PICK config \in MarginConfig : config = margins[p]
  BY <1>1 DEF AdminTyped
<1>3. PICK base \in Nat : base = OptimizedBase(config, goal)
  BY OptimizedIsNatural
<1>4. PICK put : put = [config EXCEPT !.base = base]
  OBVIOUS
<1>5. put.minimum = config.minimum /\ put.maximum = config.maximum
  BY <1>4, BoundsStay
<1>6. margins' = [margins EXCEPT ![p] = put]
  BY <1>1, <1>2, <1>3, <1>4 DEF AdminTyped
<1>7. p \notin unchecked' => put.minimum < put.maximum
  BY <1>1, <1>2, <1>5 DEF BoundsHold
<1> QED
  BY <1>1, <1>6, <1>7, PuttingKeepsBounds

LEMMA EngineeringKeepsBounds ==
    ASSUME BoundsHold, EngineeringNext \/ clearNotificationQueue PROVE BoundsHold'
<1>1. UNCHANGED <<margins, unchecked>>
  BY DEF EngineeringNext, clearNotificationQueue, validateIntegrationSpec, createCustomIntegration,
         setupProviderAPI, createCustomerServiceRequest, deployIntegrationUpdate, executeDeployment
<1> QED
  BY <1>1, SameBounds

LEMMA BoundsKept == AdminInv /\ BoundsHold /\ [AdminNext]_AdminVars => BoundsHold'
<1> SUFFICES ASSUME AdminInv, BoundsHold, [AdminNext]_AdminVars PROVE BoundsHold'
  OBVIOUS
<1>1. AdminTyped /\ MarginUpdates \subseteq MarginConfig
  BY AdminAssumption DEF AdminInv
<1>2. CASE UNCHANGED AdminVars
  BY <1>2, SameBounds DEF AdminVars
<1>3. ASSUME NEW p \in Lenders, Decides(p) PROVE BoundsHold'
  <2>1. CASE rejectProviderOnboarding(p)
    BY <2>1, SameBounds DEF rejectProviderOnboarding
  <2> QED
    BY <1>1, <1>3, <2>1, ApprovingKeepsBounds DEF Decides
<1>4. CASE OnboardingsNext
  BY <1>1, <1>3, <1>4, CreationsKeepBounds, EngineeringKeepsBounds DEF OnboardingsNext
<1>5. CASE MarginsNext
  BY <1>1, <1>5, CreationsKeepBounds, ApprovingKeepsBounds, UpdatesKeepBounds, OptimizingKeepsBounds
  DEF MarginsNext
<1>6. CASE EngineeringNext
  BY <1>6, EngineeringKeepsBounds
<1> QED
  BY <1>2, <1>4, <1>5, <1>6 DEF AdminNext

LEMMA BoundsShow == AdminInv /\ BoundsHold => MarginsAreBounded
<1> SUFFICES ASSUME AdminTyped, BoundsHold, NEW p \in Lenders, margins[p] # NoMargin,
                    NEW amount \in LeadAmounts, NEW score \in {NoScore, 50, 78, 95}
             PROVE  LET charged == calculateMargin(margins[p], amount, score, 78) IN
                    /\ charged >= margins[p].minimum
                    /\ p \notin unchecked => charged <= margins[p].maximum
                    /\ p \notin unchecked => \A m \in 1..3 :
                           LET month == getMarginProjections(margins[p], 10, amount, 3, score, "up")[m]
                           IN month.margin * 1000 <= month.revenue * margins[p].maximum
  BY DEF AdminInv, MarginsAreBounded
<1>1. PICK config \in MarginConfig : config = margins[p]
  BY DEF AdminTyped
<1>2. amount \in Nat /\ score \in Scores /\ 78 \in Int
  BY AdminAssumption DEF Scores
<1>3. p \notin unchecked => config.minimum < config.maximum
  BY <1>1 DEF BoundsHold
<1>4. PICK charged : charged = calculateMargin(config, amount, score, 78)
  OBVIOUS
<1>5. charged >= config.minimum /\ (config.minimum < config.maximum => charged <= config.maximum)
  BY <1>2, <1>4, ChargedWithinBounds
<1>6. ASSUME p \notin unchecked, NEW m \in 1..3
      PROVE  LET month == getMarginProjections(config, 10, amount, 3, score, "up")[m]
             IN month.margin * 1000 <= month.revenue * config.maximum
  BY <1>2, <1>3, <1>6, ProjectionIsBounded
<1> QED
  BY <1>1, <1>3, <1>4, <1>5, <1>6

-----------------------------------------------------------------------------
\* The services side by side.
CustomerInv ==
    /\ OnboardingInv /\ UploadsInv /\ CollectionsInv /\ DisbursementInv /\ DeliveryInv /\ UsersInv
    /\ SecretsInv /\ AdminInv /\ BoundsHold

LEMMA CustomerInitially == CustomerInit => CustomerInv
<1>1. AdminInit => BoundsHold
  BY DEF AdminInit, BoundsHold
<1> QED
  BY <1>1, OnboardingInitially, UploadsInitially, CollectionsInitially, DisbursementInitially,
     DeliveryInitially, UsersInitially, SecretsInitially, AdminInitially
  DEF CustomerInit, CustomerInv

LEMMA OnboardingUntouched == OnboardingInv /\ UploadsInv /\ UNCHANGED OnboardingVars => OnboardingInv' /\ UploadsInv'
<1> SUFFICES ASSUME OnboardingInv, UploadsInv, UNCHANGED OnboardingVars PROVE OnboardingInv' /\ UploadsInv'
  OBVIOUS
<1>1. OnboardingInv'
  BY OnboardingKept
<1>2. UNCHANGED <<documents, documentList, uploading, contested>>
  BY DEF OnboardingVars, UploadVars
<1>3. UploadsInv'
  BY <1>2 DEF UploadsInv, HasList, Listing
<1> QED
  BY <1>1, <1>3

\* Each service's invariant outlives its own steps, and those that leave its state alone.
LEMMA ServicesKept ==
    ASSUME CustomerInv,
           \/ OnboardingNext \/ UploadsNext \/ UNCHANGED OnboardingVars,
           [CollectionsNext]_CollectionsVars, [DisbursementNext]_DisbursementVars,
           [DeliveryNext]_DeliveryVars, [UserSteps]_UsersVars, [AdminNext]_AdminVars
    PROVE  CustomerInv'
<1>1. OnboardingInv' /\ UploadsInv'
  BY EditsKeepBoth, UploadsKeepBoth, OnboardingUntouched DEF CustomerInv
<1>2. CollectionsInv'
  BY CollectionsKept DEF CustomerInv
<1>3. DeliveryInv'
  BY DeliveryKept DEF CustomerInv
<1>4. UsersInv' /\ SecretsInv'
  BY UsersKept, SecretsKept DEF CustomerInv
<1>5. AdminInv' /\ BoundsHold'
  BY AdminKept, BoundsKept DEF CustomerInv
<1>6. DisbursementInv'
  BY DisbursementKept DEF CustomerInv
<1> QED
  BY <1>1, <1>2, <1>3, <1>4, <1>5, <1>6 DEF CustomerInv

LEMMA CustomerKept == CustomerInv /\ [CustomerNext]_CustomerVars => CustomerInv'
<1> SUFFICES ASSUME CustomerInv, [CustomerNext]_CustomerVars PROVE CustomerInv'
  OBVIOUS
<1>1. CASE UNCHANGED CustomerVars
  BY <1>1, ServicesKept DEF CustomerVars
<1>2. CASE OnboardingNext /\ UNCHANGED <<CollectionsVars, DisbursementVars, DeliveryVars, UsersVars, AdminVars>>
  BY <1>2, ServicesKept
<1>3. CASE UploadsNext /\ UNCHANGED <<CollectionsVars, DisbursementVars, DeliveryVars, UsersVars, AdminVars>>
  BY <1>3, ServicesKept
<1>4. CASE CollectionsNext /\ UNCHANGED <<OnboardingVars, DisbursementVars, DeliveryVars, UsersVars, AdminVars>>
  BY <1>4, ServicesKept
<1>5. CASE DisbursementNext /\ UNCHANGED <<OnboardingVars, CollectionsVars, DeliveryVars, UsersVars, AdminVars>>
  BY <1>5, ServicesKept
<1>6. CASE DeliveryNext /\ UNCHANGED <<OnboardingVars, CollectionsVars, DisbursementVars, UsersVars, AdminVars>>
  BY <1>6, ServicesKept
<1>7. CASE UserSteps /\ UNCHANGED <<OnboardingVars, CollectionsVars, DisbursementVars, DeliveryVars, AdminVars>>
  BY <1>7, ServicesKept
<1>8. CASE AdminNext /\ UNCHANGED <<OnboardingVars, CollectionsVars, DisbursementVars, DeliveryVars, UsersVars>>
  BY <1>8, ServicesKept
<1> QED
  BY <1>1, <1>2, <1>3, <1>4, <1>5, <1>6, <1>7, <1>8
     DEF CustomerNext, AdminNext, UserSteps

LEMMA CustomerInvariant == CustomerSpec => []CustomerInv
  BY CustomerInitially, CustomerKept, PTL DEF CustomerSpec

\* Requests save whole documents without a lock (CacheService.set after get), yet an
\* application, a list of files, a case or the news of a message is lost only if two requests
\* held copies at once.
THEOREM UpdatesAreKept == CustomerSpec => []UpdatesLostOnlyByOverlap
<1>1. CustomerInv => UpdatesLostOnlyByOverlap
  <2> SUFFICES ASSUME CustomerInv PROVE UpdatesLostOnlyByOverlap
    OBVIOUS
  <2>1. ApplicationLostOnlyByOverlap
    BY OnboardingShows DEF CustomerInv
  <2>2. UploadedIsListed
    BY UploadsShow DEF CustomerInv
  <2>3. CaseLostOnlyByOverlap
    BY DEF CustomerInv, CollectionsInv, Reliable, CaseLostOnlyByOverlap
  <2>4. NewsLostOnlyByOverlap
    BY DeliveryShows DEF CustomerInv
  <2> QED
    BY <2>1, <2>2, <2>3, <2>4 DEF UpdatesLostOnlyByOverlap
<1> QED
  BY <1>1, CustomerInvariant, PTL

\* An application is approved without a reviewer only if it earned it, tokens are signed for
\* users who may log in, passwords hold, others are shown to the staff alone, addresses and keys
\* belong to one user, and a provider's project and margin begin with its one approval.
THEOREM AccessStaysEarned == CustomerSpec => []AccessIsEarned
<1>1. CustomerInv => AccessIsEarned
  <2> SUFFICES ASSUME CustomerInv PROVE AccessIsEarned
    OBVIOUS
  <2>1. AutoApprovalIsEarned
    BY OnboardingShows DEF CustomerInv
  <2>2. SessionsAreWelcome /\ UsersAreDistinct /\ PasswordsHold /\ ReadersAreEntitled
    BY SecretsShow DEF CustomerInv, UsersInv
  <2>3. ProvidersAreDistinct /\ ApprovalHappensOnce
    BY AdminShows DEF CustomerInv
  <2> QED
    BY <2>1, <2>2, <2>3 DEF AccessIsEarned
<1> QED
  BY <1>1, CustomerInvariant, PTL

\* A batch's answer accounts for what was paid, a message is handed over twice only by requests
\* that overlapped, providers hear what was decided and are charged within their bounds, for any
\* margins and rules, and a bad verdict on endpoints has reasons.
THEOREM ProvidersStayAccountedFor == CustomerSpec => []ProvidersAreAccountedFor
<1>1. CustomerInv => ProvidersAreAccountedFor
  <2> SUFFICES ASSUME CustomerInv PROVE ProvidersAreAccountedFor
    OBVIOUS
  <2>1. BatchAccountsForPayouts
    BY DisbursementShows DEF CustomerInv
  <2>2. HandedOverOnce
    BY DeliveryShows DEF CustomerInv
  <2>3. DecisionsAreTold
    BY AdminShows DEF CustomerInv
  <2>4. MarginsAreBounded
    BY BoundsShow DEF CustomerInv
  <2>5. VerdictsHaveReasons
    BY VerdictsHold
  <2> QED
    BY <2>1, <2>2, <2>3, <2>4, <2>5 DEF ProvidersAreAccountedFor
<1> QED
  BY <1>1, CustomerInvariant, PTL

\* Documents and rows are of the types the services declare.
THEOREM CustomerTypeCorrect == CustomerSpec => []CustomerTypeOK
<1>1. CustomerInv => CustomerTypeOK
  <2> SUFFICES ASSUME CustomerInv PROVE CustomerTypeOK
    OBVIOUS
  <2>1. OnboardingTypeOK
    BY OnboardingTyped DEF CustomerInv
  <2>2. CollectionsTypeOK /\ DeliveryTypeOK
    BY DEF CustomerInv, CollectionsInv, DeliveryInv
  <2>3. DisbursementTypeOK
    BY DisbursementShows DEF CustomerInv
  <2>4. UsersTypeOK
    BY UsersTyped DEF CustomerInv
  <2>5. AdminTypeOK
    BY AdminIsTyped DEF CustomerInv
  <2> QED
    BY <2>1, <2>2, <2>3, <2>4, <2>5 DEF CustomerTypeOK
<1> QED
  BY <1>1, CustomerInvariant, PTL
================================================================================
