--------------------------- MODULE IdealRepayment ---------------------------
(***************************************************************************)
(* What a borrower is promised of a repayment schedule, without calls,     *)
(* copies or a cache: money taken for an installment is settled against    *)
(* it, a settled installment stays settled, and a schedule closes when the *)
(* last of its installments is settled and stays closed.                   *)
(***************************************************************************)
CONSTANTS Schedules, Installments

VARIABLES
    charged,  \* [Schedules -> SUBSET Installments]: money was taken for these
    settled,  \* [Schedules -> SUBSET Installments]: these are marked paid
    closed    \* the schedules whose status is completed

vars == <<charged, settled, closed>>

Init ==
    /\ charged = [s \in Schedules |-> {}]
    /\ settled = [s \in Schedules |-> {}]
    /\ closed = {}

Charge(s, i) ==
    /\ charged' = [charged EXCEPT ![s] = @ \union {i}]
    /\ UNCHANGED <<settled, closed>>

Settle(s, i) ==
    /\ i \in charged[s]
    /\ settled' = [settled EXCEPT ![s] = @ \union {i}]
    /\ closed' = closed \union {x \in {s} : settled'[s] = Installments}
    /\ UNCHANGED charged

Next == \E s \in Schedules, i \in Installments : Charge(s, i) \/ Settle(s, i)

Spec ==
    /\ Init
    /\ [][Next]_vars
    /\ \A s \in Schedules, i \in Installments : WF_vars(Settle(s, i))
=============================================================================
