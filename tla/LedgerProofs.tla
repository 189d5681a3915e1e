----------------------------- MODULE LedgerProofs -----------------------------
(***************************************************************************)
(* Safety of the ledger for any entries, users, accounts and line lists,   *)
(* with every interleaving of the calls' awaits.                           *)
(***************************************************************************)
EXTENDS Ledger, TLAPS

Unsaved == {"idle", "submitted", "numbering", "numbered", "valid", "rejected"}

\* A call has a request once it has begun, and its entry is stored, with the
\* requested lines, exactly from SaveEntry on.
CallsStored ==
    \A e \in EntryIds :
        /\ pc[e] # "idle" => request[e] \in Request
        /\ pc[e] \in Unsaved <=> ~Recorded(e)
        /\ Recorded(e) => /\ entries[e].lines = request[e].lines
                          /\ entries[e].origin = request[e].origin

\* Only a reversal call gets as far as marking its original.
ReversedCalls == \A r \in EntryIds : pc[r] = "reversed" => request[r].kind = "reversal"

\* A reversal call holds its original up to status and poster, and the call
\* was begun only because that original had been posted.
ReversalsHold ==
    \A r \in EntryIds : pc[r] # "idle" =>
        IF request[r].kind = "reversal"
        THEN /\ request[r].origin \in EntryIds
             /\ Recorded(request[r].origin)
             /\ entries[request[r].origin].status # "draft"
             /\ original[r] \in Entry
             /\ original[r].status = "posted"
             /\ original[r].lines = entries[request[r].origin].lines
             /\ original[r].origin = entries[request[r].origin].origin
             /\ original[r].approval => original[r].postedBy \in Users
             /\ request[r].lines = Mirror(original[r].lines)
        ELSE request[r].origin = NoEntry

PostsHold == \A p \in posting : Recorded(p[2])

SettledCalls == \A e \in settled : Recorded(e)

EventsTrue ==
    \A e \in EntryIds : <<"entry_reversed", e>> \in events
        => \E r \in EntryIds : Recorded(r) /\ entries[r].origin = e

Reversed ==
    \A e \in EntryIds : Recorded(e) /\ entries[e].status = "reversed"
        => \E r \in EntryIds : Recorded(r) /\ entries[r].origin = e

LInv == /\ TypeOK /\ CallsStored /\ ReversalsHold /\ PostsHold /\ SettledCalls
        /\ EventsTrue /\ Reversed /\ ReversedCalls /\ ApprovalRespected

-----------------------------------------------------------------------------
LEMMA MirrorSeq ==
    ASSUME NEW lines \in Seq(Item)
    PROVE  Mirror(lines) \in Seq(Item)
<1>1. /\ Len(lines) \in Nat /\ DOMAIN lines = 1..Len(lines)
      /\ \A k \in 1..Len(lines) : lines[k] \in Item
  OBVIOUS
<1>2. Mirror(lines) \in [1..Len(lines) -> Item]
  BY <1>1 DEF Mirror, Item
<1> QED
  BY <1>1, <1>2

LEMMA InitInv == Init => LInv
  BY SentinelAssumption
     DEF Init, LInv, TypeOK, CallsStored, ReversalsHold, PostsHold, SettledCalls,
         EventsTrue, Reversed, ReversedCalls, ApprovalRespected, Recorded, Unsaved

\* The steps that leave entries and calls alone.
Aside == UNCHANGED <<entries, callVars, posting, settled, events>>

LEMMA NextTypeOK == LInv /\ [Next]_vars => TypeOK'
<1> SUFFICES ASSUME LInv, [Next]_vars PROVE TypeOK'
  OBVIOUS
<1> USE DEF LInv, TypeOK
<1>1. ASSUME NEW a \in AccountIds, NEW c \in Codes, CheckCode(a, c) PROVE TypeOK'
  BY <1>1 DEF CheckCode, callVars
<1>2. ASSUME NEW a \in AccountIds, SaveAccount(a) PROVE TypeOK'
  BY <1>2 DEF SaveAccount, callVars
<1>3. ASSUME NEW a \in AccountIds, SaveAccountCode(a) PROVE TypeOK'
  BY <1>3 DEF SaveAccountCode, callVars
<1>4. ASSUME NEW e \in EntryIds, NEW kind \in Kinds \ {"reversal"},
             NEW lines \in Lines, Submit(e, kind, lines)
      PROVE  TypeOK'
  BY <1>4, LinesAssumption DEF Submit, accountVars, Request
<1>5. ASSUME NEW r \in EntryIds, NEW e \in EntryIds, BeginReverse(r, e) PROVE TypeOK'
  <2>1. entries[e] \in Entry
    BY <1>5 DEF BeginReverse
  <2>2. Mirror(entries[e].lines) \in Seq(Item)
    BY <2>1, MirrorSeq DEF Entry
  <2>3. [kind |-> "reversal", lines |-> Mirror(entries[e].lines), origin |-> e] \in Request
    BY <2>2 DEF Request, Kinds
  <2> QED
    BY <1>5, <2>1, <2>3 DEF BeginReverse, accountVars
<1>6. ASSUME NEW e \in EntryIds, ReadSequence(e) PROVE TypeOK'
  BY <1>6 DEF ReadSequence, accountVars
<1>7. ASSUME NEW e \in EntryIds, WriteSequence(e) PROVE TypeOK'
  BY <1>7 DEF WriteSequence, accountVars
<1>8. ASSUME NEW e \in EntryIds, Validate(e) PROVE TypeOK'
  BY <1>8 DEF Validate, accountVars
<1>9. ASSUME NEW e \in EntryIds, SaveEntry(e) PROVE TypeOK'
  <2>1. request[e] \in Request
    BY <1>9 DEF SaveEntry, CallsStored
  <2>2. entries'[e] \in Entry
    BY <1>9, <2>1 DEF SaveEntry, Entry, Request, requiresApproval
  <2> QED
    BY <1>9, <2>2 DEF SaveEntry, accountVars
<1>10. ASSUME NEW e \in EntryIds, AnnounceEntry(e) PROVE TypeOK'
  BY <1>10 DEF AnnounceEntry, accountVars
<1>11. ASSUME NEW e \in EntryIds, SaveTransaction(e) PROVE TypeOK'
  BY <1>11 DEF SaveTransaction, accountVars
<1>12. ASSUME NEW r \in EntryIds, SaveReversed(r) PROVE TypeOK'
  <2>1. request[r].origin \in EntryIds /\ original[r] \in Entry
    BY <1>12 DEF SaveReversed, ReversalsHold
  <2>2. [original[r] EXCEPT !.status = "reversed"] \in Entry
    BY <2>1 DEF Entry
  <2> QED
    BY <1>12, <2>1, <2>2 DEF SaveReversed, accountVars
<1>13. ASSUME NEW r \in EntryIds, AnnounceReversal(r) PROVE TypeOK'
  <2>1. request[r].origin \in EntryIds \union {NoEntry} /\ request[r] \in Request
    BY <1>13 DEF AnnounceReversal, CallsStored, Request
  <2>2. request[r].origin \in EntryIds
    BY <1>13 DEF AnnounceReversal, ReversalsHold, ReversedCalls
  <2> QED
    BY <1>13, <2>2 DEF AnnounceReversal, accountVars
<1>14. ASSUME NEW u \in Users, NEW e \in EntryIds, BeginPost(u, e) PROVE TypeOK'
  BY <1>14 DEF BeginPost, accountVars, callVars
<1>15. ASSUME NEW u \in Users, NEW e \in EntryIds, FinishPost(u, e) PROVE TypeOK'
  <2>1. entries[e] \in Entry
    BY <1>15 DEF FinishPost, PostsHold, Recorded
  <2>2. entries'[e] \in Entry /\ \A x \in EntryIds : x # e => entries'[x] = entries[x]
    BY <1>15, <2>1 DEF FinishPost, Entry
  <2> QED
    BY <1>15, <2>1, <2>2 DEF FinishPost, accountVars, callVars
<1>16. CASE UNCHANGED vars
  BY <1>16 DEF vars
<1> QED
  BY <1>1, <1>2, <1>3, <1>4, <1>5, <1>6, <1>7, <1>8, <1>9, <1>10, <1>11, <1>12,
     <1>13, <1>14, <1>15, <1>16 DEF Next, RecordStep, AccountStep

-----------------------------------------------------------------------------
\* What every step does to the stored entries: an entry is saved by its own
\* call, changed by its posting or by its reversal, or left alone.
LEMMA EntrySteps ==
    ASSUME LInv, [Next]_vars, NEW e \in EntryIds
    PROVE  \/ entries'[e] = entries[e]
           \/ SaveEntry(e)
           \/ \E u \in Users : FinishPost(u, e)
           \/ \E r \in EntryIds : SaveReversed(r) /\ request[r].origin = e
<1> USE DEF LInv, TypeOK
<1>1. \/ UNCHANGED entries
      \/ \E x \in EntryIds : SaveEntry(x) \/ SaveReversed(x)
      \/ \E u \in Users, x \in EntryIds : FinishPost(u, x)
  BY DEF Next, RecordStep, AccountStep, CheckCode, SaveAccount, SaveAccountCode, Submit,
         BeginReverse, ReadSequence, WriteSequence, Validate, AnnounceEntry,
         SaveTransaction, AnnounceReversal, BeginPost, vars
<1>2. ASSUME NEW x \in EntryIds, SaveEntry(x), x # e PROVE entries'[e] = entries[e]
  BY <1>2 DEF SaveEntry
<1>3. ASSUME NEW x \in EntryIds, SaveReversed(x), request[x].origin # e
      PROVE  entries'[e] = entries[e]
  BY <1>3 DEF SaveReversed
<1>4. ASSUME NEW u \in Users, NEW x \in EntryIds, FinishPost(u, x), x # e
      PROVE  entries'[e] = entries[e]
  BY <1>4 DEF FinishPost
<1> QED
  BY <1>1, <1>2, <1>3, <1>4

\* A stored entry stays stored, keeps its lines and its origin, and once it is
\* no draft it never is one again.
LEMMA EntriesGrow ==
    ASSUME LInv, [Next]_vars, NEW e \in EntryIds, Recorded(e)
    PROVE  /\ Recorded(e)'
           /\ entries'[e].lines = entries[e].lines
           /\ entries'[e].origin = entries[e].origin
           /\ entries[e].status # "draft" => entries'[e].status # "draft"
<1> USE DEF LInv, TypeOK, Recorded
<1>1. CASE entries'[e] = entries[e]
  BY <1>1
<1>2. ~SaveEntry(e)
  BY DEF SaveEntry, CallsStored, Unsaved
<1>3. ASSUME NEW u \in Users, FinishPost(u, e)
      PROVE  /\ Recorded(e)'
             /\ entries'[e].lines = entries[e].lines
             /\ entries'[e].origin = entries[e].origin
             /\ entries'[e].status = "posted"
  <2>1. entries[e] \in Entry
    OBVIOUS
  <2>2. /\ entries'[e] \in Entry
        /\ entries'[e].lines = entries[e].lines
        /\ entries'[e].origin = entries[e].origin
        /\ entries'[e].status = "posted"
    BY <1>3, <2>1 DEF FinishPost, Entry
  <2> QED
    BY <2>2, SentinelAssumption
<1>4. ASSUME NEW r \in EntryIds, SaveReversed(r), request[r].origin = e
      PROVE  /\ Recorded(e)'
             /\ entries'[e].lines = entries[e].lines
             /\ entries'[e].origin = entries[e].origin
             /\ entries'[e].status = "reversed"
  <2>1. /\ original[r] \in Entry
        /\ original[r].lines = entries[e].lines
        /\ original[r].origin = entries[e].origin
    BY <1>4 DEF SaveReversed, ReversalsHold
  <2>2. /\ entries'[e] = [original[r] EXCEPT !.status = "reversed"]
        /\ entries'[e] \in Entry
    BY <1>4, <2>1 DEF SaveReversed, Entry
  <2> QED
    BY <2>1, <2>2, SentinelAssumption DEF Entry
<1> QED
  BY <1>1, <1>2, <1>3, <1>4, EntrySteps

\* A call that has begun keeps its request and what it read.
LEMMA RequestsStay ==
    ASSUME LInv, [Next]_vars, NEW e \in EntryIds, pc[e] # "idle"
    PROVE  pc'[e] # "idle" /\ request'[e] = request[e] /\ original'[e] = original[e]
<1> USE DEF LInv, TypeOK
<1>1. ASSUME NEW x \in EntryIds, RecordStep(x)
      PROVE  pc'[e] # "idle" /\ request'[e] = request[e] /\ original'[e] = original[e]
  BY <1>1 DEF RecordStep, ReadSequence, WriteSequence, Validate, SaveEntry,
              AnnounceEntry, SaveTransaction, SaveReversed, AnnounceReversal
<1>2. ASSUME NEW x \in EntryIds, NEW kind, NEW lines, Submit(x, kind, lines)
      PROVE  pc'[e] # "idle" /\ request'[e] = request[e] /\ original'[e] = original[e]
  BY <1>2 DEF Submit
<1>3. ASSUME NEW x \in EntryIds, NEW y, BeginReverse(x, y)
      PROVE  pc'[e] # "idle" /\ request'[e] = request[e] /\ original'[e] = original[e]
  BY <1>3 DEF BeginReverse
<1>4. CASE UNCHANGED callVars
  BY <1>4 DEF callVars
<1> QED
  BY <1>1, <1>2, <1>3, <1>4
  DEF Next, AccountStep, CheckCode, SaveAccount, SaveAccountCode, BeginPost, FinishPost,
      vars, callVars

\* Only a submission or a reversal starts a call.
LEMMA CallsStart ==
    ASSUME LInv, [Next]_vars, NEW e \in EntryIds, pc[e] = "idle", pc'[e] # "idle"
    PROVE  \/ \E kind \in Kinds \ {"reversal"}, lines \in Lines : Submit(e, kind, lines)
           \/ \E y \in EntryIds : BeginReverse(e, y)
<1> USE DEF LInv, TypeOK
<1>1. ASSUME NEW x \in EntryIds, RecordStep(x) PROVE FALSE
  BY <1>1 DEF RecordStep, ReadSequence, WriteSequence, Validate, SaveEntry,
              AnnounceEntry, SaveTransaction, SaveReversed, AnnounceReversal
<1>2. ASSUME NEW x \in EntryIds, NEW kind, NEW lines, Submit(x, kind, lines) PROVE x = e
  BY <1>2 DEF Submit
<1>3. ASSUME NEW x \in EntryIds, NEW y, BeginReverse(x, y) PROVE x = e
  BY <1>3 DEF BeginReverse
<1>4. pc' # pc
  OBVIOUS
<1> QED
  BY <1>1, <1>2, <1>3, <1>4
  DEF Next, AccountStep, CheckCode, SaveAccount, SaveAccountCode, BeginPost, FinishPost,
      vars, callVars

\* Only SaveEntry takes a call out of the unsaved steps, and its own at that.
LEMMA SavedStep ==
    ASSUME LInv, [Next]_vars, NEW e \in EntryIds
    PROVE  \/ SaveEntry(e)
           \/ pc'[e] \in Unsaved <=> pc[e] \in Unsaved
<1> USE DEF LInv, TypeOK, Unsaved
<1>1. ASSUME NEW x \in EntryIds, RecordStep(x)
      PROVE  SaveEntry(e) \/ (pc'[e] \in Unsaved <=> pc[e] \in Unsaved)
  <2>1. CASE x # e
    BY <1>1, <2>1 DEF RecordStep, ReadSequence, WriteSequence, Validate, SaveEntry,
              AnnounceEntry, SaveTransaction, SaveReversed, AnnounceReversal
  <2>2. CASE x = e
    BY <1>1, <2>2 DEF RecordStep, ReadSequence, WriteSequence, Validate,
              AnnounceEntry, SaveTransaction, SaveReversed, AnnounceReversal
  <2> QED
    BY <2>1, <2>2
<1>2. ASSUME NEW x \in EntryIds, NEW kind, NEW lines, Submit(x, kind, lines)
      PROVE  pc'[e] \in Unsaved <=> pc[e] \in Unsaved
  BY <1>2 DEF Submit
<1>3. ASSUME NEW x \in EntryIds, NEW y, BeginReverse(x, y)
      PROVE  pc'[e] \in Unsaved <=> pc[e] \in Unsaved
  BY <1>3 DEF BeginReverse
<1>4. CASE UNCHANGED pc
  BY <1>4
<1> QED
  BY <1>1, <1>2, <1>3, <1>4
  DEF Next, AccountStep, CheckCode, SaveAccount, SaveAccountCode, BeginPost, FinishPost,
      vars, callVars

\* An entry that is not stored appears only by its own SaveEntry.
LEMMA UnsavedStays ==
    ASSUME LInv, [Next]_vars, NEW e \in EntryIds, ~Recorded(e)
    PROVE  SaveEntry(e) \/ ~Recorded(e)'
<1>1. ASSUME NEW u \in Users PROVE ~FinishPost(u, e)
  BY DEF LInv, FinishPost, PostsHold, Recorded
<1>2. ASSUME NEW r \in EntryIds, SaveReversed(r) PROVE request[r].origin # e
  BY <1>2 DEF LInv, SaveReversed, ReversalsHold, Recorded
<1> QED
  BY <1>1, <1>2, EntrySteps DEF Recorded

LEMMA CallsStoredStep == LInv /\ [Next]_vars => CallsStored'
<1> SUFFICES ASSUME LInv, [Next]_vars, NEW e \in EntryIds
             PROVE  /\ pc'[e] # "idle" => request'[e] \in Request
                    /\ pc'[e] \in Unsaved <=> ~Recorded(e)'
                    /\ Recorded(e)' => /\ entries'[e].lines = request'[e].lines
                                       /\ entries'[e].origin = request'[e].origin
  BY DEF CallsStored
<1> USE DEF LInv
<1>1. CASE SaveEntry(e)
  <2>1. request[e] \in Request /\ request' = request /\ pc'[e] = "saved"
    BY <1>1 DEF SaveEntry, CallsStored, TypeOK
  <2>2. /\ entries'[e].lines = request[e].lines
        /\ entries'[e].origin = request[e].origin
    BY <1>1 DEF SaveEntry, TypeOK
  <2>3. entries'[e] \in Entry
    BY <1>1, <2>1 DEF SaveEntry, TypeOK, Entry, Request, requiresApproval
  <2> QED
    BY <2>1, <2>2, <2>3, SentinelAssumption DEF Recorded, Unsaved
<1>2. CASE ~SaveEntry(e)
  <2>1. pc'[e] \in Unsaved <=> ~Recorded(e)'
    BY <1>2, SavedStep, UnsavedStays, EntriesGrow DEF CallsStored
  <2>2. ASSUME Recorded(e)'
        PROVE  /\ entries'[e].lines = request'[e].lines
               /\ entries'[e].origin = request'[e].origin
    <3>1. Recorded(e) /\ pc[e] # "idle"
      BY <1>2, <2>2, UnsavedStays DEF CallsStored, Unsaved
    <3> QED
      BY <3>1, EntriesGrow, RequestsStay DEF CallsStored
  <2>3. ASSUME pc'[e] # "idle" PROVE request'[e] \in Request
    <3>1. CASE pc[e] # "idle"
      BY <3>1, RequestsStay DEF CallsStored
    <3>2. CASE pc[e] = "idle"
      <4>1. \/ \E kind \in Kinds \ {"reversal"}, lines \in Lines : Submit(e, kind, lines)
            \/ \E y \in EntryIds : BeginReverse(e, y)
        BY <2>3, <3>2, CallsStart
      <4>2. request'[e] # NoEntry
        BY <4>1, SentinelAssumption, MirrorSeq, LinesAssumption
           DEF Submit, BeginReverse, TypeOK, Request, Kinds, Entry
      <4> QED
        BY <4>2, NextTypeOK DEF TypeOK
    <3> QED
      BY <3>1, <3>2
  <2> QED
    BY <2>1, <2>2, <2>3
<1> QED
  BY <1>1, <1>2

LEMMA ReversalsHoldStep == LInv /\ [Next]_vars => ReversalsHold'
<1> SUFFICES ASSUME LInv, [Next]_vars, NEW r \in EntryIds, pc'[r] # "idle"
             PROVE  IF request'[r].kind = "reversal"
                    THEN /\ request'[r].origin \in EntryIds
                         /\ Recorded(request[r].origin)'
                         /\ entries'[request'[r].origin].status # "draft"
                         /\ original'[r] \in Entry
                         /\ original'[r].status = "posted"
                         /\ original'[r].lines = entries'[request'[r].origin].lines
                         /\ original'[r].origin = entries'[request'[r].origin].origin
                         /\ original'[r].approval => original'[r].postedBy \in Users
                         /\ request'[r].lines = Mirror(original'[r].lines)
                    ELSE request'[r].origin = NoEntry
  BY DEF ReversalsHold
<1> USE DEF LInv
<1>1. CASE pc[r] # "idle" /\ request[r].kind = "reversal"
  <2>1. request'[r] = request[r] /\ original'[r] = original[r]
    BY <1>1, RequestsStay
  <2>2. PICK e \in EntryIds : e = request[r].origin
    BY <1>1 DEF ReversalsHold
  <2>3. /\ Recorded(e) /\ entries[e].status # "draft"
        /\ original[r] \in Entry /\ original[r].status = "posted"
        /\ original[r].lines = entries[e].lines
        /\ original[r].origin = entries[e].origin
        /\ original[r].approval => original[r].postedBy \in Users
        /\ request[r].lines = Mirror(original[r].lines)
    BY <1>1, <2>2 DEF ReversalsHold
  <2>4. /\ Recorded(e)' /\ entries'[e].status # "draft"
        /\ entries'[e].lines = entries[e].lines
        /\ entries'[e].origin = entries[e].origin
    BY <2>3, EntriesGrow
  <2>5. request'[r].kind = "reversal" /\ request'[r].origin = e
    BY <1>1, <2>1, <2>2
  <2>6. Recorded(request[r].origin)'
    BY <2>4, <2>5 DEF Recorded
  <2> QED
    BY <2>1, <2>3, <2>4, <2>5, <2>6, ZenonT(40)
<1>2. CASE pc[r] # "idle" /\ request[r].kind # "reversal"
  BY <1>2, RequestsStay DEF ReversalsHold
<1>3. CASE pc[r] = "idle"
  <2>1. \/ \E kind \in Kinds \ {"reversal"}, lines \in Lines : Submit(r, kind, lines)
        \/ \E e \in EntryIds : BeginReverse(r, e)
    BY <1>3, CallsStart
  <2>2. ASSUME NEW kind \in Kinds \ {"reversal"}, NEW lines \in Lines,
               Submit(r, kind, lines)
        PROVE  request'[r].kind # "reversal" /\ request'[r].origin = NoEntry
    BY <2>2 DEF Submit, TypeOK
  <2>3. ASSUME NEW e \in EntryIds, BeginReverse(r, e)
        PROVE  /\ request'[r].kind = "reversal" /\ request'[r].origin = e
               /\ request'[r].lines = Mirror(entries[e].lines)
               /\ original'[r] = entries[e] /\ entries[e] \in Entry
               /\ entries[e].status = "posted" /\ entries' = entries
               /\ Recorded(e)' /\ entries[e].approval => entries[e].postedBy \in Users
    BY <2>3 DEF BeginReverse, TypeOK, Recorded, ApprovalRespected
  <2>4. ASSUME NEW e \in EntryIds, BeginReverse(r, e)
        PROVE  Recorded(request[r].origin)'
    BY <2>3, <2>4 DEF BeginReverse, Recorded
  <2> QED
    BY <2>1, <2>2, <2>3, <2>4
<1> QED
  BY <1>1, <1>2, <1>3

LEMMA ApprovalStep == LInv /\ [Next]_vars => ApprovalRespected'
<1> SUFFICES ASSUME LInv, [Next]_vars, NEW e \in EntryIds, Recorded(e)',
                    entries'[e].approval, entries'[e].status # "draft"
             PROVE  entries'[e].postedBy \in Users
  BY DEF ApprovalRespected
<1> USE DEF LInv
<1>1. CASE entries'[e] = entries[e]
  BY <1>1 DEF ApprovalRespected, Recorded
<1>2. ~SaveEntry(e)
  BY DEF SaveEntry, TypeOK
<1>3. ASSUME NEW u \in Users, FinishPost(u, e) PROVE entries'[e].postedBy \in Users
  <2>1. entries[e] \in Entry
    BY <1>3 DEF FinishPost, PostsHold, Recorded, TypeOK
  <2> QED
    BY <1>3, <2>1 DEF FinishPost, TypeOK, Entry
<1>4. ASSUME NEW r \in EntryIds, SaveReversed(r), request[r].origin = e
      PROVE  entries'[e].postedBy \in Users
  <2>1. original[r] \in Entry /\ (original[r].approval => original[r].postedBy \in Users)
    BY <1>4 DEF SaveReversed, ReversalsHold
  <2>2. entries'[e] = [original[r] EXCEPT !.status = "reversed"]
    BY <1>4 DEF SaveReversed, TypeOK
  <2> QED
    BY <2>1, <2>2 DEF Entry
<1> QED
  BY <1>1, <1>2, <1>3, <1>4, EntrySteps

\* A stored reversal of an entry stays one.
LEMMA ReversalsStay ==
    ASSUME LInv, [Next]_vars, NEW e,
           \E r \in EntryIds : Recorded(r) /\ entries[r].origin = e
    PROVE  \E r \in EntryIds : Recorded(r)' /\ entries'[r].origin = e
  BY EntriesGrow

\* Past AnnounceEntry a reversal call's own entry is the stored reversal.
LEMMA OwnReversal ==
    ASSUME LInv, NEW r \in EntryIds, pc[r] \in {"created", "reversed"}
    PROVE  Recorded(r) /\ entries[r].origin = request[r].origin
  BY DEF LInv, CallsStored, Unsaved

LEMMA ReversedStep == LInv /\ [Next]_vars => Reversed'
<1> SUFFICES ASSUME LInv, [Next]_vars, NEW e \in EntryIds, Recorded(e)',
                    entries'[e].status = "reversed"
             PROVE  \E r \in EntryIds : Recorded(r)' /\ entries'[r].origin = e
  BY DEF Reversed
<1> USE DEF LInv
<1>1. CASE entries'[e] = entries[e]
  BY <1>1, ReversalsStay DEF Reversed, Recorded
<1>2. ~SaveEntry(e)
  BY DEF SaveEntry, TypeOK
<1>3. ASSUME NEW u \in Users PROVE ~FinishPost(u, e)
  <2> SUFFICES ASSUME FinishPost(u, e) PROVE FALSE
    OBVIOUS
  <2>1. entries[e] \in Entry
    BY DEF FinishPost, PostsHold, Recorded, TypeOK
  <2> QED
    BY <2>1 DEF FinishPost, TypeOK, Entry
<1>4. ASSUME NEW r \in EntryIds, SaveReversed(r), request[r].origin = e
      PROVE  \E x \in EntryIds : Recorded(x)' /\ entries'[x].origin = e
  <2>1. Recorded(r) /\ entries[r].origin = e
    BY <1>4, OwnReversal DEF SaveReversed
  <2> QED
    BY <2>1, ReversalsStay
<1> QED
  BY <1>1, <1>2, <1>3, <1>4, EntrySteps

LEMMA EventsStep == LInv /\ [Next]_vars => EventsTrue'
<1> SUFFICES ASSUME LInv, [Next]_vars, NEW e \in EntryIds,
                    <<"entry_reversed", e>> \in events'
             PROVE  \E r \in EntryIds : Recorded(r)' /\ entries'[r].origin = e
  BY DEF EventsTrue
<1> USE DEF LInv
<1>1. CASE <<"entry_reversed", e>> \in events
  BY <1>1, ReversalsStay DEF EventsTrue
<1>2. CASE <<"entry_reversed", e>> \notin events
  <2>1. PICK r \in EntryIds : AnnounceReversal(r) /\ request[r].origin = e
    <3>1. \/ UNCHANGED events
          \/ \E x \in EntryIds : AnnounceEntry(x) \/ AnnounceReversal(x)
      BY DEF Next, RecordStep, AccountStep, CheckCode, SaveAccount, SaveAccountCode,
         Submit, BeginReverse, ReadSequence, WriteSequence, Validate, SaveEntry,
         SaveTransaction, SaveReversed, BeginPost, FinishPost, vars
    <3>2. ASSUME NEW x \in EntryIds PROVE ~AnnounceEntry(x)
      BY <1>2 DEF AnnounceEntry
    <3>3. PICK r \in EntryIds : AnnounceReversal(r)
      BY <1>2, <3>1, <3>2
    <3> QED
      BY <1>2, <3>3 DEF AnnounceReversal
  <2>2. Recorded(r) /\ entries[r].origin = e
    BY <2>1, OwnReversal DEF AnnounceReversal
  <2> QED
    BY <2>2, ReversalsStay
<1> QED
  BY <1>1, <1>2

LEMMA RestStep ==
    LInv /\ [Next]_vars => PostsHold' /\ SettledCalls' /\ ReversedCalls'
<1> SUFFICES ASSUME LInv, [Next]_vars PROVE PostsHold' /\ SettledCalls' /\ ReversedCalls'
  OBVIOUS
<1> USE DEF LInv
<1>1. PostsHold'
  <2> SUFFICES ASSUME NEW p \in posting' PROVE Recorded(p[2])'
    BY DEF PostsHold
  <2>1. p \in posting \/ \E u \in Users, e \in EntryIds : BeginPost(u, e) /\ p = <<u, e>>
    <3>1. \/ UNCHANGED posting
          \/ \E u \in Users, e \in EntryIds : BeginPost(u, e) \/ FinishPost(u, e)
      BY DEF Next, RecordStep, AccountStep, CheckCode, SaveAccount, SaveAccountCode,
         Submit, BeginReverse, ReadSequence, WriteSequence, Validate, SaveEntry,
         AnnounceEntry, SaveTransaction, SaveReversed, AnnounceReversal, vars
    <3>2. ASSUME NEW u \in Users, NEW e \in EntryIds, BeginPost(u, e)
          PROVE  p \in posting \/ p = <<u, e>>
      BY <3>2 DEF BeginPost
    <3>3. ASSUME NEW u \in Users, NEW e \in EntryIds, FinishPost(u, e)
          PROVE  p \in posting
      BY <3>3 DEF FinishPost
    <3> QED
      BY <3>1, <3>2, <3>3
  <2>2. CASE p \in posting
    <3>1. p[2] \in EntryIds /\ Recorded(p[2])
      BY <2>2 DEF PostsHold, TypeOK
    <3> QED
      BY <3>1, EntriesGrow
  <2>3. ASSUME NEW u \in Users, NEW e \in EntryIds, BeginPost(u, e), p = <<u, e>>
        PROVE  Recorded(p[2])'
    BY <2>3 DEF BeginPost, Recorded
  <2> QED
    BY <2>1, <2>2, <2>3
<1>2. SettledCalls'
  <2> SUFFICES ASSUME NEW e \in settled' PROVE Recorded(e)'
    BY DEF SettledCalls
  <2>1. e \in settled \/ (e \in EntryIds /\ SaveTransaction(e))
    <3>1. UNCHANGED settled \/ \E x \in EntryIds : SaveTransaction(x)
      BY DEF Next, RecordStep, AccountStep, CheckCode, SaveAccount, SaveAccountCode,
         Submit, BeginReverse, ReadSequence, WriteSequence, Validate, SaveEntry,
         AnnounceEntry, SaveReversed, AnnounceReversal, BeginPost, FinishPost, vars
    <3>2. ASSUME NEW x \in EntryIds, SaveTransaction(x), e # x PROVE e \in settled
      BY <3>2 DEF SaveTransaction
    <3> QED
      BY <3>1, <3>2
  <2>2. e \in EntryIds /\ Recorded(e)
    BY <2>1 DEF SaveTransaction, SettledCalls, CallsStored, Unsaved, TypeOK
  <2> QED
    BY <2>2, EntriesGrow
<1>3. ReversedCalls'
  <2> SUFFICES ASSUME NEW r \in EntryIds, pc'[r] = "reversed"
               PROVE  request'[r].kind = "reversal"
    BY DEF ReversedCalls
  <2>1. pc[r] = "reversed" \/ SaveReversed(r)
    <3>1. ASSUME NEW x \in EntryIds, RecordStep(x)
          PROVE  pc[r] = "reversed" \/ SaveReversed(r)
      <4>1. CASE x # r
        BY <3>1, <4>1 DEF RecordStep, ReadSequence, WriteSequence, Validate, SaveEntry,
           AnnounceEntry, SaveTransaction, SaveReversed, AnnounceReversal, TypeOK
      <4>2. CASE x = r
        BY <3>1, <4>2 DEF RecordStep, ReadSequence, WriteSequence, Validate, SaveEntry,
           AnnounceEntry, SaveTransaction, AnnounceReversal, TypeOK
      <4> QED
        BY <4>1, <4>2
    <3> QED
      BY <3>1 DEF Next, AccountStep, CheckCode, SaveAccount, SaveAccountCode, Submit,
         BeginReverse, BeginPost, FinishPost, vars, callVars, TypeOK
  <2>2. pc[r] # "idle" /\ request[r].kind = "reversal"
    BY <2>1 DEF SaveReversed, ReversedCalls
  <2> QED
    BY <2>2, RequestsStay
<1> QED
  BY <1>1, <1>2, <1>3

-----------------------------------------------------------------------------
\* LInv is inductive under every interleaving of the ledger's calls.
THEOREM LedgerInductive == Spec => []LInv
<1>1. LInv /\ [Next]_vars => LInv'
  BY NextTypeOK, CallsStoredStep, ReversalsHoldStep, ApprovalStep, ReversedStep,
     EventsStep, RestStep DEF LInv
<1> QED
  BY InitInv, <1>1, PTL DEF Spec

\* Every variable of the ledger keeps its type.
THEOREM LedgerTypeCorrect == Spec => []TypeOK
  BY LedgerInductive, PTL DEF LInv

\* Nothing that needs approval leaves draft without a user posting it.
THEOREM ApprovalIsRespected == Spec => []ApprovalRespected
  BY LedgerInductive, PTL DEF LInv

\* What is marked or announced as reversed has a stored reversal.
THEOREM ReversedIsReversed == Spec => []ReversedHasReversal
<1>1. LInv => ReversedHasReversal
  BY DEF LInv, Reversed, EventsTrue, ReversedHasReversal
<1> QED
  BY <1>1, LedgerInductive, PTL

\* A reversal mirrors an original that has been posted.
THEOREM ReversalMirrors == Spec => []ReversalMirrorsOriginal
<1>1. LInv => ReversalMirrorsOriginal
  <2> SUFFICES ASSUME LInv, NEW r \in EntryIds, Recorded(r), entries[r].origin # NoEntry
               PROVE  LET e == entries[r].origin
                      IN  /\ Recorded(e) /\ entries[e].status # "draft"
                          /\ entries[r].lines = Mirror(entries[e].lines)
    BY DEF ReversalMirrorsOriginal
  <2>1. /\ pc[r] # "idle"
        /\ entries[r].lines = request[r].lines /\ entries[r].origin = request[r].origin
    BY DEF LInv, CallsStored, Unsaved
  <2>2. request[r].kind = "reversal"
    BY <2>1 DEF LInv, ReversalsHold
  <2> QED
    BY <2>1, <2>2 DEF LInv, ReversalsHold
<1> QED
  BY <1>1, LedgerInductive, PTL

\* A completed ledger transaction has the entry its rules ask for.
THEOREM CompletedHasEntry == Spec => []CompletedTransactionHasEntry
<1>1. LInv => CompletedTransactionHasEntry
  BY DEF LInv, SettledCalls, CallsStored, TypeOK, CompletedTransactionHasEntry
<1> QED
  BY <1>1, LedgerInductive, PTL

-----------------------------------------------------------------------------
\* The lines of an entry.  What was valid stays valid, since no code is ever taken
\* from its account again, and the mirror of valid lines is valid.

LinesValid ==
    \A e \in EntryIds :
        /\ Recorded(e) => Valid(entries[e].lines)
        /\ pc[e] = "valid" => Valid(request[e].lines)
        /\ pc[e] = "rejected" => request[e].kind # "reversal"

LEMMA MirrorSwaps ==
    ASSUME NEW lines
    PROVE  Debits(Mirror(lines)) = Credits(lines) /\ Credits(Mirror(lines)) = Debits(lines)
<1>1. /\ DOMAIN Mirror(lines) = DOMAIN lines
      /\ \A k \in DOMAIN lines : Mirror(lines)[k].debit = lines[k].credit /\ Mirror(lines)[k].credit = lines[k].debit
  BY DEF Mirror
<1>2. /\ [k \in DOMAIN Mirror(lines) |-> Mirror(lines)[k].debit] = [k \in DOMAIN lines |-> lines[k].credit]
      /\ [k \in DOMAIN Mirror(lines) |-> Mirror(lines)[k].credit] = [k \in DOMAIN lines |-> lines[k].debit]
  BY <1>1
<1> QED BY <1>2 DEF Debits, Credits

LEMMA MirrorIsValid ==
    ASSUME NEW lines \in Seq(Item), Valid(lines)
    PROVE  Valid(Mirror(lines))
<1>1. Balanced(Mirror(lines))
  BY MirrorSwaps DEF Valid, Balanced
<1>2. ASSUME NEW k \in DOMAIN Mirror(lines)
      PROVE  accountOf[Mirror(lines)[k].code] # NoAccount /\ OneSided(Mirror(lines)[k])
  <2>1. k \in DOMAIN lines /\ Mirror(lines)[k] = [code |-> lines[k].code, debit |-> lines[k].credit,
                                                 credit |-> lines[k].debit]
    BY <1>2 DEF Mirror
  <2>2. accountOf[lines[k].code] # NoAccount /\ OneSided(lines[k])
    BY <2>1 DEF Valid
  <2> QED BY <2>1, <2>2 DEF OneSided
<1> QED BY <1>1, <1>2 DEF Valid

LEMMA CodesStay ==
    ASSUME LInv, [Next]_vars, NEW c \in Codes, accountOf[c] # NoAccount
    PROVE  accountOf'[c] # NoAccount
<1>1. \/ UNCHANGED accountOf
      \/ \E a \in AccountIds : SaveAccountCode(a)
  BY DEF Next, AccountStep, RecordStep, CheckCode, SaveAccount, Submit, BeginReverse, ReadSequence, WriteSequence,
         Validate, SaveEntry, AnnounceEntry, SaveTransaction, SaveReversed, AnnounceReversal, BeginPost,
         FinishPost, vars, accountVars
<1>2. ASSUME NEW a \in AccountIds, SaveAccountCode(a) PROVE accountOf'[c] # NoAccount
  BY <1>2, SentinelAssumption DEF SaveAccountCode, LInv, TypeOK
<1> QED BY <1>1, <1>2

LEMMA ValidStays ==
    ASSUME LInv, [Next]_vars, NEW lines \in Seq(Item), Valid(lines)
    PROVE  Valid(lines)'
<1>1. ASSUME NEW k \in DOMAIN lines PROVE lines[k].code \in Codes
  <2>1. lines[k] \in Item
    OBVIOUS
  <2> QED BY <2>1 DEF Item
<1>2. \A k \in DOMAIN lines : accountOf'[lines[k].code] # NoAccount /\ OneSided(lines[k])
  BY <1>1, CodesStay DEF Valid
<1> QED BY <1>2 DEF Valid

LEMMA LinesValidStep ==
    ASSUME LInv, LInv', LinesValid, [Next]_vars
    PROVE  LinesValid'
<1> SUFFICES ASSUME NEW e \in EntryIds
             PROVE  /\ Recorded(e)' => Valid(entries[e].lines)'
                    /\ pc'[e] = "valid" => Valid(request[e].lines)'
                    /\ pc'[e] = "rejected" => request'[e].kind # "reversal"
  BY DEF LinesValid
<1>1. PICK lines, asked : lines = entries'[e].lines /\ asked = request'[e].lines
  OBVIOUS
<1>2. ASSUME Recorded(e)' PROVE Valid(entries[e].lines)'
  <2>1. lines \in Seq(Item)
    BY <1>1, <1>2 DEF LInv, TypeOK, Recorded, Entry
  <2>2. Valid(lines)
    <3>1. CASE Recorded(e)
      BY <1>1, <3>1, EntriesGrow DEF LinesValid
    <3>2. CASE ~Recorded(e)
      <4>1. SaveEntry(e)
        BY <1>2, <3>2, UnsavedStays
      <4>2. lines = request[e].lines /\ pc[e] = "valid"
        BY <1>1, <4>1 DEF SaveEntry, LInv, TypeOK
      <4> QED BY <4>2 DEF LinesValid
    <3> QED BY <3>1, <3>2
  <2>3. Valid(lines)'
    BY <2>1, <2>2, ValidStays
  <2> QED BY <1>1, <2>3 DEF Valid
<1>3. \/ pc'[e] \notin {"valid", "rejected"}
      \/ pc'[e] = pc[e] /\ request'[e] = request[e] /\ pc[e] # "idle"
      \/ Validate(e)
  <2>1. CASE pc[e] # "idle"
    <3>1. request'[e] = request[e]
      BY <2>1, RequestsStay
    <3>2. ASSUME NEW x \in EntryIds, RecordStep(x), x # e PROVE pc'[e] = pc[e]
      BY <3>2 DEF RecordStep, ReadSequence, WriteSequence, Validate, SaveEntry, AnnounceEntry,
                  SaveTransaction, SaveReversed, AnnounceReversal, LInv, TypeOK
    <3>3. ASSUME RecordStep(e), ~Validate(e) PROVE pc'[e] \notin {"valid", "rejected"}
      BY <3>3 DEF RecordStep, ReadSequence, WriteSequence, SaveEntry, AnnounceEntry,
                  SaveTransaction, SaveReversed, AnnounceReversal, LInv, TypeOK
    <3>4. ASSUME NEW x \in EntryIds, pc[x] = "idle",
                 \/ \E kind, y : Submit(x, kind, y)
                 \/ \E y : BeginReverse(x, y)
          PROVE  pc'[e] = pc[e]
      BY <2>1, <3>4 DEF Submit, BeginReverse, LInv, TypeOK
    <3>5. CASE UNCHANGED pc
      BY <2>1, <3>1, <3>5
    <3> QED BY <2>1, <3>1, <3>2, <3>3, <3>4, <3>5
        DEF Next, AccountStep, CheckCode, SaveAccount, SaveAccountCode, Submit, BeginReverse, BeginPost, FinishPost,
            vars, callVars
  <2>2. CASE pc[e] = "idle"
    <3>1. ASSUME NEW x \in EntryIds, RecordStep(x) PROVE pc'[e] = "idle"
      BY <2>2, <3>1 DEF RecordStep, ReadSequence, WriteSequence, Validate, SaveEntry, AnnounceEntry,
                  SaveTransaction, SaveReversed, AnnounceReversal, LInv, TypeOK
    <3>2. ASSUME NEW x \in EntryIds, (\E kind, y : Submit(x, kind, y)) \/ (\E y : BeginReverse(x, y))
          PROVE  pc'[e] \in {"idle", "submitted"}
      BY <2>2, <3>2 DEF Submit, BeginReverse, LInv, TypeOK
    <3>3. CASE UNCHANGED pc
      BY <2>2, <3>3
    <3> QED BY <3>1, <3>2, <3>3
        DEF Next, AccountStep, CheckCode, SaveAccount, SaveAccountCode, BeginPost, FinishPost, vars, callVars
  <2> QED BY <2>1, <2>2
<1>4. ASSUME pc'[e] = "valid" PROVE Valid(request[e].lines)'
  <2>1. asked \in Seq(Item)
    BY <1>1, <1>4 DEF LInv, CallsStored, Request
  <2>2. Valid(asked)
    BY <1>1, <1>3, <1>4 DEF LinesValid, Validate, LInv, TypeOK
  <2>3. Valid(asked)'
    BY <2>1, <2>2, ValidStays
  <2> QED BY <1>1, <2>3 DEF Valid
<1>5. ASSUME pc'[e] = "rejected" PROVE request'[e].kind # "reversal"
  <2>1. CASE pc[e] = "rejected" /\ request'[e] = request[e]
    BY <2>1 DEF LinesValid
  <2>2. CASE Validate(e)
    <3>1. pc[e] = "numbered" /\ request' = request /\ ~Valid(request[e].lines)
      BY <1>5, <2>2 DEF Validate, LInv, TypeOK
    <3>2. ASSUME request[e].kind = "reversal" PROVE FALSE
      <4>1. PICK l : l = original[e].lines
        OBVIOUS
      <4>2. /\ request[e].origin \in EntryIds /\ Recorded(request[e].origin)
            /\ l = entries[request[e].origin].lines /\ request[e].lines = Mirror(l) /\ original[e] \in Entry
        BY <3>1, <3>2, <4>1 DEF LInv, ReversalsHold
      <4>3. Valid(l) /\ l \in Seq(Item)
        BY <4>1, <4>2 DEF LinesValid, Entry
      <4> QED BY <3>1, <4>2, <4>3, MirrorIsValid
    <3> QED BY <3>1, <3>2
  <2> QED BY <1>3, <1>5, <2>1, <2>2
<1> QED BY <1>2, <1>4, <1>5

\* For any accounts, line lists, tolerance and interleaving of the calls: no entry is stored whose
\* debits and credits differ by more than the tolerance, and no reversal fails its validation.
THEOREM EntriesAreBalanced == Spec => []EntriesBalance
<1>1. Init => LinesValid
  BY DEF Init, LinesValid, Recorded
<1>2. LinesValid => EntriesBalance
  BY DEF LinesValid, EntriesBalance, Valid
<1> QED BY <1>1, <1>2, LinesValidStep, LedgerInductive, PTL DEF Spec
-----------------------------------------------------------------------------
(***************************************************************************)
(* Serial calls implement IdealLedger (its safety part: liveness stays     *)
(* with TLC).  Kept apart, a call finds the entry as it left it.           *)
(***************************************************************************)
\* The original of a reversal under way is still posted.
OriginalsWait ==
    \A e \in EntryIds : \A r \in Reversing(e) : entries[e].status = "posted"

\* The draft that is being posted is still a draft.
DraftsWait == \A e \in EntryIds : Posting(e) # {} => entries[e].status = "draft"

\* A stored reversal has marked its original, or its call is still to do so.
ReversalsFinish ==
    \A e, r \in EntryIds : Recorded(r) /\ entries[r].origin = e =>
        entries[e].status = "reversed" \/ r \in Reversing(e)

SerialInv == LInv /\ Apart /\ OriginalsWait /\ DraftsWait /\ ReversalsFinish

\* What a serial step does to the status of a stored entry.
LEMMA SerialChange ==
    ASSUME SerialInv, [Next]_vars, NEW e \in EntryIds, Recorded(e)
    PROVE  \/ entries'[e] = entries[e]
           \/ /\ \E u \in Posting(e) : FinishPost(u, e)
              /\ entries[e].status = "draft" /\ entries'[e].status = "posted"
           \/ /\ \E r \in Reversing(e) : SaveReversed(r)
              /\ entries[e].status = "posted" /\ entries'[e].status = "reversed"
<1> USE DEF SerialInv, LInv, TypeOK
<1>1. ~SaveEntry(e)
  BY DEF SaveEntry, CallsStored, Unsaved
<1>2. ASSUME NEW u \in Users, FinishPost(u, e)
      PROVE  /\ u \in Posting(e)
             /\ entries[e].status = "draft" /\ entries'[e].status = "posted"
  <2>1. u \in Posting(e) /\ entries[e] \in Entry
    BY <1>2 DEF FinishPost, Posting, Recorded
  <2>2. entries'[e].status = "posted"
    BY <1>2, <2>1 DEF FinishPost, Entry
  <2> QED
    BY <2>1, <2>2 DEF DraftsWait
<1>3. ASSUME NEW r \in EntryIds, SaveReversed(r), request[r].origin = e
      PROVE  /\ r \in Reversing(e)
             /\ entries[e].status = "posted" /\ entries'[e].status = "reversed"
  <2>1. r \in Reversing(e) /\ original[r] \in Entry
    BY <1>3 DEF SaveReversed, Reversing, ReversalsHold
  <2>2. entries'[e].status = "reversed"
    BY <1>3, <2>1 DEF SaveReversed, Entry
  <2> QED
    BY <2>1, <2>2 DEF OriginalsWait
<1> QED
  BY <1>1, <1>2, <1>3, EntrySteps

\* A reversal of an entry is under way from BeginReverse ...
LEMMA ReversalStarts ==
    ASSUME LInv, [Next]_vars, NEW e \in EntryIds, NEW r \in Reversing(e)',
           r \notin Reversing(e)
    PROVE  BeginReverse(r, e)
<1> USE DEF LInv, TypeOK, Reversing
<1>1. ASSUME pc[r] # "idle" PROVE FALSE
  <2>1. request'[r] = request[r]
    BY <1>1, RequestsStay
  <2>2. pc[r] \in {"rejected", "reversed", "done"}
    BY <1>1, <2>1
  <2>3. ASSUME NEW x \in EntryIds, RecordStep(x) PROVE FALSE
    BY <2>1, <2>2, <2>3 DEF RecordStep, ReadSequence, WriteSequence, Validate, SaveEntry,
              AnnounceEntry, SaveTransaction, SaveReversed, AnnounceReversal
  <2>4. ASSUME NEW x \in EntryIds, NEW kind, NEW lines, Submit(x, kind, lines) PROVE FALSE
    BY <2>2, <2>4 DEF Submit
  <2>5. ASSUME NEW x \in EntryIds, NEW y, BeginReverse(x, y) PROVE FALSE
    BY <2>2, <2>5 DEF BeginReverse
  <2>6. pc' # pc
    BY <2>1, <2>2
  <2> QED
    BY <2>3, <2>4, <2>5, <2>6
    DEF Next, AccountStep, CheckCode, SaveAccount, SaveAccountCode, BeginPost, FinishPost,
        vars, callVars
<1>2. CASE pc[r] = "idle"
  <2>1. ASSUME NEW kind \in Kinds \ {"reversal"}, NEW lines \in Lines, Submit(r, kind, lines)
        PROVE  FALSE
    BY <2>1 DEF Submit
  <2>2. ASSUME NEW y \in EntryIds, BeginReverse(r, y) PROVE y = e
    BY <2>2 DEF BeginReverse
  <2> QED
    BY <1>2, <2>1, <2>2, CallsStart
<1> QED
  BY <1>1, <1>2

\* ... until, once its entry is stored, SaveReversed has marked the original.
LEMMA ReversalEnds ==
    ASSUME LInv, [Next]_vars, NEW e \in EntryIds, NEW r \in Reversing(e), Recorded(r),
           r \notin Reversing(e)'
    PROVE  SaveReversed(r)
<1> USE DEF LInv, TypeOK, Reversing
<1>1. pc[r] \in {"saved", "created"} /\ request[r].kind = "reversal"
  BY DEF CallsStored, Unsaved
<1>2. request'[r] = request[r]
  BY <1>1, RequestsStay
<1>3. ASSUME NEW x \in EntryIds, RecordStep(x) PROVE SaveReversed(r)
  <2>1. pc'[x] # pc[x] /\ \A y \in EntryIds : y # x => pc'[y] = pc[y]
    BY <1>3 DEF RecordStep, ReadSequence, WriteSequence, Validate, SaveEntry,
                AnnounceEntry, SaveTransaction, SaveReversed, AnnounceReversal
  <2>2. x = r
    BY <1>1, <1>2, <2>1
  <2>3. ~ (ReadSequence(r) \/ WriteSequence(r) \/ Validate(r) \/ SaveEntry(r)
             \/ SaveTransaction(r) \/ AnnounceReversal(r))
    BY <1>1 DEF ReadSequence, WriteSequence, Validate, SaveEntry, SaveTransaction,
                AnnounceReversal
  <2>4. ~AnnounceEntry(r)
    BY <1>1, <1>2 DEF AnnounceEntry
  <2> QED
    BY <1>3, <2>2, <2>3, <2>4 DEF RecordStep
<1>4. ASSUME NEW x \in EntryIds, NEW kind, NEW lines, Submit(x, kind, lines) PROVE FALSE
  BY <1>1, <1>2, <1>4 DEF Submit
<1>5. ASSUME NEW x \in EntryIds, NEW y, BeginReverse(x, y) PROVE FALSE
  BY <1>1, <1>2, <1>5 DEF BeginReverse
<1>6. pc' # pc
  BY <1>1, <1>2
<1> QED
  BY <1>3, <1>4, <1>5, <1>6
  DEF Next, AccountStep, CheckCode, SaveAccount, SaveAccountCode, BeginPost, FinishPost,
      vars, callVars

LEMMA SerialStep == SerialInv /\ [SerialNext]_vars => SerialInv'
<1> SUFFICES ASSUME SerialInv, [SerialNext]_vars PROVE SerialInv'
  OBVIOUS
<1>1. LInv' /\ [Next]_vars
  BY NextTypeOK, CallsStoredStep, ReversalsHoldStep, ApprovalStep, ReversedStep,
     EventsStep, RestStep DEF SerialInv, LInv, SerialNext
<1>2. Apart'
  <2>1. CASE UNCHANGED vars
    BY <2>1 DEF SerialInv, Apart, Numbering, Reversing, Posting, vars
  <2> QED
    BY <2>1 DEF SerialNext
<1>3. OriginalsWait'
  <2> SUFFICES ASSUME NEW e \in EntryIds, NEW r \in Reversing(e)'
               PROVE  entries'[e].status = "posted"
    BY DEF OriginalsWait
  <2>1. CASE r \in Reversing(e)
    <3>1. Recorded(e) /\ entries[e].status = "posted" /\ r \in EntryIds
      BY <2>1 DEF SerialInv, LInv, ReversalsHold, Reversing, OriginalsWait
    <3>2. ASSUME NEW x \in Reversing(e), SaveReversed(x) PROVE FALSE
      <4>1. x = r
        BY <2>1 DEF SerialInv, Apart
      <4>2. pc'[r] = "reversed"
        BY <3>1, <3>2, <4>1 DEF SaveReversed, SerialInv, LInv, TypeOK
      <4> QED
        BY <4>2 DEF Reversing
    <3> QED
      BY <1>1, <3>1, <3>2, SerialChange
  <2>2. CASE r \notin Reversing(e)
    BY <1>1, <2>2, ReversalStarts DEF SerialInv, BeginReverse
  <2> QED
    BY <2>1, <2>2
<1>4. DraftsWait'
  <2> SUFFICES ASSUME NEW e \in EntryIds, NEW u \in Posting(e)'
               PROVE  entries'[e].status = "draft"
    BY DEF DraftsWait
  <2>1. CASE u \in Posting(e)
    <3>1. Recorded(e) /\ entries[e].status = "draft" /\ Reversing(e) = {}
      BY <2>1 DEF SerialInv, LInv, PostsHold, Posting, DraftsWait, Apart
    <3>2. ASSUME NEW v \in Posting(e), FinishPost(v, e) PROVE FALSE
      <4>1. v = u
        BY <2>1 DEF SerialInv, Apart
      <4> QED
        BY <3>2, <4>1 DEF FinishPost, Posting
    <3> QED
      BY <1>1, <3>1, <3>2, SerialChange
  <2>2. CASE u \notin Posting(e)
    <3>1. BeginPost(u, e)
      BY <1>1, <2>2 DEF Posting, Next, RecordStep, AccountStep, CheckCode, SaveAccount,
         SaveAccountCode, Submit, BeginReverse, ReadSequence, WriteSequence, Validate,
         SaveEntry, AnnounceEntry, SaveTransaction, SaveReversed, AnnounceReversal,
         BeginPost, FinishPost, vars
    <3> QED
      BY <3>1 DEF BeginPost
  <2> QED
    BY <2>1, <2>2
<1>5. ReversalsFinish'
  <2> SUFFICES ASSUME NEW e \in EntryIds, NEW r \in EntryIds,
                      Recorded(r)', entries'[r].origin = e
               PROVE  entries'[e].status = "reversed" \/ r \in Reversing(e)'
    BY DEF ReversalsFinish
  <2>1. CASE Recorded(r)
    <3>1. entries[r].origin = e
      BY <1>1, <2>1, EntriesGrow DEF SerialInv
    <3>2. request[r].origin = e /\ request[r].kind = "reversal" /\ Recorded(e)
      BY <2>1, <3>1, SentinelAssumption
         DEF SerialInv, LInv, CallsStored, ReversalsHold, Unsaved
    <3>3. CASE entries[e].status = "reversed"
      BY <1>1, <3>2, <3>3, SerialChange
    <3>4. CASE r \in Reversing(e) /\ r \notin Reversing(e)'
      <4>1. SaveReversed(r) /\ original[r] \in Entry
        BY <1>1, <2>1, <3>4, ReversalEnds DEF SerialInv, LInv, ReversalsHold, Reversing
      <4> QED
        BY <3>2, <4>1 DEF SaveReversed, SerialInv, LInv, TypeOK, Entry
    <3> QED
      BY <2>1, <3>1, <3>3, <3>4 DEF SerialInv, ReversalsFinish
  <2>2. CASE ~Recorded(r)
    <3>1. SaveEntry(r)
      BY <1>1, <2>2, UnsavedStays DEF SerialInv
    <3>2. /\ request'[r] = request[r] /\ request[r].origin = e
          /\ pc'[r] = "saved" /\ pc[r] = "valid"
      BY <3>1 DEF SaveEntry, SerialInv, LInv, TypeOK
    <3>3. request[r].kind = "reversal"
      BY <3>2, SentinelAssumption DEF SerialInv, LInv, ReversalsHold
    <3> QED
      BY <3>2, <3>3 DEF Reversing
  <2> QED
    BY <2>1, <2>2
<1> QED
  BY <1>1, <1>2, <1>3, <1>4, <1>5 DEF SerialInv

LEMMA SerialInit == Init => SerialInv
<1> SUFFICES ASSUME Init PROVE SerialInv
  OBVIOUS
<1>1. /\ Numbering = {}
      /\ \A e \in EntryIds : Reversing(e) = {} /\ Posting(e) = {} /\ ~Recorded(e)
  BY DEF Init, Numbering, Reversing, Posting, Recorded
<1> QED
  BY <1>1, InitInv DEF SerialInv, Apart, OriginalsWait, DraftsWait, ReversalsFinish

-----------------------------------------------------------------------------
\* Only SaveEntry adds a reversal, and only to its own original.
LEMMA ReversalsChange ==
    ASSUME LInv, [Next]_vars, ~ \E x \in EntryIds : SaveEntry(x)
    PROVE  UNCHANGED ReversalOf
<1>1. ASSUME NEW r \in EntryIds, NEW e \in EntryIds
      PROVE  (Recorded(r)' /\ entries'[r].origin = e) <=> (Recorded(r) /\ entries[r].origin = e)
  BY EntriesGrow, UnsavedStays
<1> QED
  BY <1>1 DEF ReversalOf

\* Recording an entry is the abstract Record, or RecordReversal of its original.
LEMMA SaveRefines ==
    ASSUME SerialInv, NEW r \in EntryIds, SaveEntry(r)
    PROVE  Ideal!Next
<1> USE DEF SerialInv, LInv, TypeOK
<1>1. /\ pc[r] = "valid" /\ ~Recorded(r) /\ request[r] \in Request
      /\ \A x \in EntryIds : x # r => entries'[x] = entries[x]
      /\ entries'[r].origin = request[r].origin
      /\ entries'[r].status = IF requiresApproval(request[r]) THEN "draft" ELSE "posted"
  BY DEF SaveEntry, CallsStored, Unsaved
<1>2. Recorded(r)'
  BY CallsStoredStep DEF CallsStored, SaveEntry, Unsaved, Next, RecordStep
<1>3. StatusOf' = [StatusOf EXCEPT ![r] = entries'[r].status]
  <2>1. \A x \in EntryIds : StatusOf'[x] = IF x = r THEN entries'[r].status ELSE StatusOf[x]
    BY <1>1, <1>2 DEF StatusOf, Recorded
  <2> QED
    BY <2>1 DEF StatusOf
<1>4. StatusOf[r] = "none"
  BY <1>1 DEF StatusOf
<1>5. \A x, e \in EntryIds : Recorded(x)' /\ entries'[x].origin = e <=>
         \/ Recorded(x) /\ entries[x].origin = e
         \/ x = r /\ request[r].origin = e
  BY <1>1, <1>2 DEF Recorded
<1>6. CASE request[r].kind # "reversal"
  <2>1. request[r].origin = NoEntry
    BY <1>1, <1>6 DEF ReversalsHold
  <2>2. UNCHANGED ReversalOf
    BY <1>5, <2>1, SentinelAssumption DEF ReversalOf
  <2>3. Ideal!Record(r)
    BY <1>1, <1>3, <1>4, <2>2 DEF Ideal!Record
  <2> QED
    BY <2>3 DEF Ideal!Next
<1>7. CASE request[r].kind = "reversal"
  <2>1. PICK e \in EntryIds : e = request[r].origin
    BY <1>1, <1>7 DEF ReversalsHold
  <2>2. Recorded(e) /\ r \in Reversing(e)
    BY <1>1, <1>7, <2>1 DEF ReversalsHold, Reversing
  <2>3. entries[e].status = "posted"
    BY <2>2 DEF OriginalsWait
  <2>4. ASSUME NEW x \in EntryIds, Recorded(x), entries[x].origin = e PROVE FALSE
    <3>1. x \in Reversing(e)
      BY <2>3, <2>4 DEF ReversalsFinish
    <3> QED
      BY <1>1, <2>2, <2>4, <3>1 DEF Apart
  <2>5. ReversalOf[e] = {} /\ StatusOf[e] = "posted"
    BY <2>2, <2>3, <2>4 DEF ReversalOf, StatusOf
  <2>6. ReversalOf' = [ReversalOf EXCEPT ![e] = {r}]
    <3>1. \A y \in EntryIds : ReversalOf'[y] = IF y = e THEN {r} ELSE ReversalOf[y]
      BY <1>5, <2>1, <2>4 DEF ReversalOf
    <3> QED
      BY <3>1 DEF ReversalOf
  <2>7. entries'[r].status = "draft"
    BY <1>1, <1>7 DEF requiresApproval
  <2>8. Ideal!RecordReversal(r, e)
    BY <1>3, <1>4, <2>5, <2>6, <2>7 DEF Ideal!RecordReversal
  <2> QED
    BY <2>8 DEF Ideal!Next
<1> QED
  BY <1>6, <1>7

\* Posting a draft and marking a reversed original are the abstract steps.
LEMMA ChangeRefines ==
    ASSUME SerialInv, [Next]_vars, NEW e \in EntryIds, Recorded(e),
           \/ \E u \in Users : FinishPost(u, e)
           \/ \E r \in EntryIds : SaveReversed(r) /\ request[r].origin = e
    PROVE  Ideal!Post(e) \/ Ideal!MarkReversed(e) \/ UNCHANGED <<StatusOf, ReversalOf>>
<1> USE DEF SerialInv, LInv, TypeOK
<1>1. ~ \E x \in EntryIds : SaveEntry(x)
  <2> SUFFICES ASSUME NEW x \in EntryIds, SaveEntry(x) PROVE FALSE
    OBVIOUS
  <2>1. pc[x] = "valid" /\ pc'[x] = "saved"
    BY DEF SaveEntry
  <2>2. ASSUME NEW u \in Users, FinishPost(u, e) PROVE FALSE
    BY <2>1, <2>2 DEF FinishPost, callVars
  <2>3. ASSUME NEW r \in EntryIds, SaveReversed(r) PROVE FALSE
    BY <2>1, <2>3 DEF SaveReversed
  <2> QED
    BY <2>2, <2>3
<1>2. UNCHANGED ReversalOf
  BY <1>1, ReversalsChange
<1>3. Recorded(e)' /\ \A x \in EntryIds : x # e => entries'[x] = entries[x]
  <2>1. ASSUME NEW x \in EntryIds, x # e, NEW u \in Users, FinishPost(u, e)
        PROVE  entries'[x] = entries[x]
    BY <2>1 DEF FinishPost
  <2>2. ASSUME NEW x \in EntryIds, x # e, NEW r \in EntryIds,
               SaveReversed(r), request[r].origin = e
        PROVE  entries'[x] = entries[x]
    BY <2>2 DEF SaveReversed
  <2>3. Recorded(e)'
    BY EntriesGrow
  <2> QED
    BY <2>1, <2>2, <2>3
<1>4. StatusOf' = [StatusOf EXCEPT ![e] = entries'[e].status]
  <2>1. \A x \in EntryIds : StatusOf'[x] = IF x = e THEN entries'[e].status ELSE StatusOf[x]
    BY <1>3 DEF StatusOf, Recorded
  <2> QED
    BY <2>1 DEF StatusOf
<1>5. StatusOf[e] = entries[e].status
  BY DEF StatusOf
<1>6. CASE entries'[e] = entries[e]
  <2>1. \A x \in EntryIds : StatusOf'[x] = StatusOf[x]
    BY <1>4, <1>5, <1>6 DEF StatusOf
  <2>2. UNCHANGED StatusOf
    BY <2>1 DEF StatusOf
  <2> QED
    BY <1>2, <2>2
<1>7. CASE entries[e].status = "draft" /\ entries'[e].status = "posted"
  BY <1>2, <1>4, <1>5, <1>7 DEF Ideal!Post
<1>8. CASE /\ \E r \in Reversing(e) : SaveReversed(r)
           /\ entries[e].status = "posted" /\ entries'[e].status = "reversed"
  <2>1. PICK r \in Reversing(e) : SaveReversed(r)
    BY <1>8
  <2>2. r \in ReversalOf[e]
    BY <2>1, OwnReversal DEF SaveReversed, Reversing, ReversalOf
  <2> QED
    BY <1>2, <1>4, <1>5, <1>8, <2>2 DEF Ideal!MarkReversed
<1> QED
  BY <1>6, <1>7, <1>8, SerialChange

\* Kept apart, the calls drive every entry through the life cycle of IdealLedger: no entry
\* is posted twice, reversed twice or taken back, and a reversal is recorded only of a posted
\* entry that has none.
THEOREM SerialLedgerRefinesIdeal == SerialSpec => Ideal!Init /\ [][Ideal!Next]_Ideal!vars
<1>1. Init => Ideal!Init
  <2> SUFFICES ASSUME Init PROVE Ideal!Init
    OBVIOUS
  <2>1. \A e \in EntryIds : ~Recorded(e)
    BY DEF Init, Recorded
  <2>2. StatusOf = [e \in EntryIds |-> "none"]
    BY <2>1 DEF StatusOf
  <2>3. ReversalOf = [e \in EntryIds |-> {}]
    BY <2>1 DEF ReversalOf
  <2> QED
    BY <2>2, <2>3 DEF Ideal!Init
<1>2. SerialInv /\ [SerialNext]_vars => [Ideal!Next]_Ideal!vars
  <2> SUFFICES ASSUME SerialInv, [Next]_vars PROVE [Ideal!Next]_Ideal!vars
    BY DEF SerialNext
  <2>1. ASSUME NEW r \in EntryIds, SaveEntry(r) PROVE Ideal!Next
    BY <2>1, SaveRefines
  <2>2. ASSUME NEW e \in EntryIds,
               \/ \E u \in Users : FinishPost(u, e)
               \/ \E r \in EntryIds : SaveReversed(r) /\ request[r].origin = e
        PROVE  [Ideal!Next]_Ideal!vars
    <3>1. Recorded(e)
      BY <2>2 DEF FinishPost, SaveReversed, SerialInv, LInv, PostsHold, ReversalsHold
    <3> QED
      BY <2>2, <3>1, ChangeRefines DEF Ideal!Next, Ideal!vars
  <2>3. CASE \A e \in EntryIds : entries'[e] = entries[e]
    BY <2>3 DEF Ideal!vars, StatusOf, ReversalOf, Recorded
  <2> QED
    BY <2>1, <2>2, <2>3, EntrySteps DEF SerialInv
<1> QED
  BY <1>1, <1>2, SerialInit, SerialStep, PTL DEF SerialSpec
=============================================================================
