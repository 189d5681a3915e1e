------------------------------ MODULE Collections ------------------------------
(***************************************************************************)
(* services/collections: the documents of delinquency cases and what is    *)
(* filed with them.  A request is a sequence of cache operations, one per  *)
(* step; requests of different clients interleave.  An update of a case    *)
(* saves the whole copy it read.  Event documents are written and never    *)
(* read, and are left out, as are the lists' order and the texts.          *)
(***************************************************************************)
EXTENDS Requests

CONSTANTS
    Cases, Actions,  \* uuids
    Delinquencies,   \* what a case can be opened with: [days, outstanding, overdue]
    MaxSteps         \* bounds the escalations counted of one case

ASSUME CollectionsAssumption ==
    /\ MaxSteps \in 1 .. 900
    /\ \A d \in Delinquencies : d.days \in Nat /\ d.outstanding \in Nat \ {0}
                                /\ d.overdue \in Nat \ {0}

VARIABLES
    cases,       \* case:<id>, or why there is none
    actions,     \* action:<id>
    filed,       \* <<kind, case>>: plans, promises, disputes and referrals stored
    listed,      \* <<kind, case>>: a document of that kind is on the case's list
    collecting,  \* the request each agent is in
    expected,    \* history: each case if every update had been applied to the last
    overlapped   \* history: cases of which two requests held a copy at once

CollectionsVars == <<cases, actions, filed, listed, collecting, expected, overlapped>>

LegalLevel == 999
Levels == (1 .. MaxSteps) \union (LegalLevel .. LegalLevel + MaxSteps)
Case == [status : {"early_delinquency", "delinquent", "default", "resolved"},
         severity : {"low", "medium", "high", "critical"},
         priority : {"low", "medium", "high", "urgent"},
         totalOwed : Nat, escalationLevel : Levels]
Outcomes == {"payment_received", "no_contact", "other"}   \* the rest change nothing
Action == [status : {"pending"}, case : Cases]
          \union [status : {"completed"}, case : Cases, outcome : Outcomes]
Kinds == {"action", "plan", "promise", "dispute", "referral"}

calculateSeverity(days, overdue) ==
    IF days >= 90 \/ overdue >= 100000 THEN "critical"
    ELSE IF days >= 60 \/ overdue >= 50000 THEN "high"
    ELSE IF days >= 30 \/ overdue >= 20000 THEN "medium" ELSE "low"

calculatePriority(severity, amount) ==
    IF severity = "critical" \/ amount >= 100000 THEN "urgent"
    ELSE IF severity = "high" \/ amount >= 50000 THEN "high"
    ELSE IF severity = "medium" \/ amount >= 20000 THEN "medium" ELSE "low"

\* 2.5% for every month begun.
calculateLateFees(overdue, days) == (overdue * 25 * ((days + 29) \div 30)) \div 1000

Opened(d) ==
    LET severity == calculateSeverity(d.days, d.overdue) IN
    [status |-> IF d.days <= 30 THEN "early_delinquency" ELSE "delinquent",
     severity |-> severity, priority |-> calculatePriority(severity, d.outstanding),
     totalOwed |-> d.outstanding + calculateLateFees(d.overdue, d.days),
     escalationLevel |-> 1]

\* Faulty variant: any contact reopens the case.
EffectReopening(why, case) ==
    CASE why = "payment_received" -> [case EXCEPT !.status = "resolved"]
      [] why = "no_contact" -> [case EXCEPT !.escalationLevel = @ + 1, !.status = "delinquent"]
      [] why = "referral" -> [case EXCEPT !.status = "default", !.escalationLevel = LegalLevel]

\* processPaymentReceived, escalateNoContact and the end of createLegalReferral.
Effect(why, case) ==
    CASE why = "payment_received" -> [case EXCEPT !.status = "resolved"]
      [] why = "no_contact" -> [case EXCEPT !.escalationLevel = @ + 1]
      [] why = "referral" -> [case EXCEPT !.status = "default", !.escalationLevel = LegalLevel]

\* What a client may rely on: settled is settled, contact that failed counts one
\* and changes nothing else, and a referral is beyond every other escalation.
Promised(why, case) ==
    [status |-> CASE why = "payment_received" -> "resolved" [] why = "referral" -> "default"
                  [] OTHER -> case.status,
     level |-> CASE why = "no_contact" -> case.level + 1 [] why = "referral" -> LegalLevel
                 [] OTHER -> case.level]
Standing(case) == [status |-> case.status, level |-> case.escalationLevel]

CollectionsInit ==
    /\ cases = [c \in Cases |-> Unused]
    /\ actions = [a \in Actions |-> Unused]
    /\ filed = {} /\ listed = {}
    /\ collecting = [k \in Clients |-> Resting]
    /\ expected = [c \in Cases |-> [status |-> "unused", level |-> 1]] /\ overlapped = {}

-----------------------------------------------------------------------------
Filed(c) == OnRecord(cases[c])
Rests(k) == collecting[k] = Resting
Doing(k, pc) == collecting[k].pc = pc
GoOn(k, call) == collecting' = [collecting EXCEPT ![k] = call]
Holding(k, c) == Doing(k, "save") /\ collecting[k].case = c

createDelinquencyCase(k, c, d) ==
    /\ cases[c].status = "unused"
    /\ cases' = [cases EXCEPT ![c] = Opened(d)]
    /\ expected' = [expected EXCEPT ![c] = Standing(Opened(d))]
    /\ UNCHANGED <<actions, filed, listed, collecting, overlapped>>

createCollectionAction(k, c, a) ==
    /\ actions[a].status = "unused"
    /\ actions' = [actions EXCEPT ![a] = [status |-> "pending", case |-> c]]
    /\ GoOn(k, [pc |-> "list", kind |-> "action", case |-> c])
    /\ UNCHANGED <<cases, filed, listed, expected, overlapped>>

\* getAction; an unknown action throws.
completeCollectionAction(k, a, outcome) ==
    /\ actions[a].status \in {"pending", "completed"}
    /\ GoOn(k, [pc |-> "complete", action |-> a, case |-> actions[a].case, outcome |-> outcome])
    /\ UNCHANGED <<cases, actions, filed, listed, expected, overlapped>>

\* An unknown case throws; the plan is stored before it is listed.
createHardshipPlan(k, c) ==
    /\ Filed(c)
    /\ GoOn(k, [pc |-> "file", kind |-> "plan", case |-> c])
    /\ UNCHANGED <<cases, actions, filed, listed, expected, overlapped>>

recordPaymentPromise(k, c) ==
    /\ filed' = filed \union {<<"promise", c>>}
    /\ GoOn(k, [pc |-> "list", kind |-> "promise", case |-> c])
    /\ UNCHANGED <<cases, actions, listed, expected, overlapped>>

\* pauseCollectionActivities only logs.
createDisputeCase(k, c) ==
    /\ filed' = filed \union {<<"dispute", c>>}
    /\ UNCHANGED <<cases, actions, listed, collecting, expected, overlapped>>

createLegalReferral(k, c) ==
    /\ filed' = filed \union {<<"referral", c>>}
    /\ GoOn(k, [pc |-> "read", why |-> "referral", case |-> c])
    /\ UNCHANGED <<cases, actions, listed, expected, overlapped>>

-----------------------------------------------------------------------------
\* The rest of a request, one cache operation at a time.
FilePlan(k) ==
    /\ Doing(k, "file")
    /\ filed' = filed \union {<<"plan", collecting[k].case>>}
    /\ GoOn(k, [collecting[k] EXCEPT !.pc = "list"])
    /\ UNCHANGED <<cases, actions, listed, expected, overlapped>>

AddToCase(k) ==
    /\ Doing(k, "list")
    /\ listed' = listed \union {<<collecting[k].kind, collecting[k].case>>}
    /\ GoOn(k, Resting)
    /\ UNCHANGED <<cases, actions, filed, expected, overlapped>>

\* The action is saved as completed, also when it was before or has expired.
processActionOutcome(k) ==
    LET call == collecting[k] IN
    /\ Doing(k, "complete")
    /\ actions' = [actions EXCEPT ![call.action] =
           [status |-> "completed", case |-> call.case, outcome |-> call.outcome]]
    /\ GoOn(k, IF call.outcome = "other" THEN Resting
               ELSE [pc |-> "read", why |-> call.outcome, case |-> call.case])
    /\ UNCHANGED <<cases, filed, listed, expected, overlapped>>

getCase(k) ==
    LET call == collecting[k] IN
    /\ Doing(k, "read")
    /\ IF Filed(call.case)
       THEN /\ GoOn(k, [pc |-> "save", why |-> call.why, case |-> call.case, copy |-> cases[call.case]])
            /\ overlapped' = IF \E j \in Clients : Holding(j, call.case)
                             THEN overlapped \union {call.case} ELSE overlapped
       ELSE GoOn(k, Resting) /\ UNCHANGED overlapped
    /\ UNCHANGED <<cases, actions, filed, listed, expected>>

saveCase(k) ==
    LET call == collecting[k] IN
    /\ Doing(k, "save")
    /\ Effect(call.why, call.copy).escalationLevel \in Levels    \* MaxSteps
    /\ Promised(call.why, expected[call.case]).level \in Levels
    /\ cases' = [cases EXCEPT ![call.case] = Effect(call.why, call.copy)]
    /\ expected' = [expected EXCEPT ![call.case] = Promised(call.why, @)]
    /\ GoOn(k, Resting)
    /\ UNCHANGED <<actions, filed, listed, overlapped>>

\* Redis drops a document that was not written for 90 (action: 30) days.
DocumentExpires ==
    /\ \/ \E c \in Cases : /\ Filed(c)
                           /\ cases' = [cases EXCEPT ![c] = Expired]
                           /\ UNCHANGED actions
       \/ \E a \in Actions : /\ actions[a].status \in {"pending", "completed"}
                             /\ actions' = [actions EXCEPT ![a] = Expired]
                             /\ UNCHANGED cases
    /\ UNCHANGED <<filed, listed, collecting, expected, overlapped>>

-----------------------------------------------------------------------------
\* collections-controller.ts: what each route checks before it calls the engine.
RequestCase(k) == \E c \in Cases, d \in Delinquencies : createDelinquencyCase(k, c, d)
RequestAction(k) == \E c \in Cases, a \in Actions : createCollectionAction(k, c, a)
RequestCompletion(k) ==
    \E a \in Actions, outcome \in Outcomes : completeCollectionAction(k, a, outcome)
RequestPlan(k) == \E c \in Cases : createHardshipPlan(k, c)
RequestPromise(k) == \E c \in Cases : recordPaymentPromise(k, c)
RequestDispute(k) == \E c \in Cases : createDisputeCase(k, c)
RequestReferral(k) == k \in Staff /\ \E c \in Cases : createLegalReferral(k, c)

CollectionsNext ==
    \/ DocumentExpires
    \/ \E k \in Clients :
        \/ /\ Rests(k)
           /\ \/ RequestCase(k) \/ RequestAction(k) \/ RequestCompletion(k) \/ RequestPlan(k)
              \/ RequestPromise(k) \/ RequestDispute(k) \/ RequestReferral(k)
        \/ FilePlan(k) \/ AddToCase(k) \/ processActionOutcome(k) \/ getCase(k) \/ saveCase(k)
CollectionsSpec == CollectionsInit /\ [][CollectionsNext]_CollectionsVars

-----------------------------------------------------------------------------
\* The documents are of the types of types/collections.ts.
CollectionsTypeOK ==
    /\ cases \in [Cases -> Case \union {Unused, Expired}]
    /\ actions \in [Actions -> Action \union {Unused, Expired}]
    /\ filed \subseteq Kinds \X Cases /\ listed \subseteq Kinds \X Cases
    /\ overlapped \subseteq Cases

\* An outcome or a referral that was applied to a case is lost only if two requests
\* held copies of the case at once: each update saves the whole case it read.
CaseLostOnlyByOverlap ==
    \A c \in Cases \ overlapped : Filed(c) => Standing(cases[c]) = expected[c]
=============================================================================
