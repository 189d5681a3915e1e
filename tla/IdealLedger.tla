----------------------------- MODULE IdealLedger -----------------------------
(***************************************************************************)
(* The life cycle a journal entry is meant to have: recorded as a draft or *)
(* at once as posted, posted once, and reversed at most once by an entry   *)
(* that was recorded to undo it.                                           *)
(***************************************************************************)
CONSTANTS EntryIds

VARIABLES
    status,    \* [EntryIds -> {"none", "draft", "posted", "reversed"}]
    reversals  \* [EntryIds -> SUBSET EntryIds]: the entries that undo an entry

vars == <<status, reversals>>

Init ==
    /\ status = [e \in EntryIds |-> "none"]
    /\ reversals = [e \in EntryIds |-> {}]

Record(e) ==
    /\ status[e] = "none"
    /\ \E s \in {"draft", "posted"} : status' = [status EXCEPT ![e] = s]
    /\ UNCHANGED reversals

RecordReversal(r, e) ==
    /\ status[r] = "none"
    /\ status[e] = "posted"
    /\ reversals[e] = {}
    /\ status' = [status EXCEPT ![r] = "draft"]
    /\ reversals' = [reversals EXCEPT ![e] = {r}]

Post(e) ==
    /\ status[e] = "draft"
    /\ status' = [status EXCEPT ![e] = "posted"]
    /\ UNCHANGED reversals

MarkReversed(e) ==
    /\ status[e] = "posted"
    /\ reversals[e] # {}
    /\ status' = [status EXCEPT ![e] = "reversed"]
    /\ UNCHANGED reversals

Next ==
    \E e \in EntryIds :
        \/ Record(e)
        \/ \E r \in EntryIds : RecordReversal(r, e)
        \/ Post(e)
        \/ MarkReversed(e)

Spec ==
    /\ Init
    /\ [][Next]_vars
    /\ \A e \in EntryIds : WF_vars(MarkReversed(e))
=============================================================================
