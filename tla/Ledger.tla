-------------------------------- MODULE Ledger --------------------------------
(***************************************************************************)
(* The double-entry ledger (services/ledger): accounts, journal entries,   *)
(* their posting and reversal, and ledger transactions.                    *)
(*                                                                         *)
(* Everything lives in Redis and no operation takes a lock: an entry is    *)
(* read, changed in memory and saved whole, the entry sequence is read and *)
(* written back, an account code is looked up and later taken.  A call     *)
(* that records an entry is named by the entry id it draws first.          *)
(* Amounts are counted in a unit of which Tolerance is the largest number  *)
(* the 0.01 of the balance check lets pass.                                *)
(***************************************************************************)
EXTENDS Integers, Sequences, FiniteSets, SequencesExt

CONSTANTS
    Codes,      \* account codes
    AccountIds, \* ids createAccount may draw
    EntryIds,   \* ids createJournalEntry may draw
    Users,      \* who posts entries
    Lines,      \* the line item lists that clients submit
    Tolerance,  \* imbalance that createJournalEntry accepts
    Threshold,  \* requireApprovalThreshold
    NoAccount, NoEntry, NoUser

VARIABLES
    codeOf,     \* key account:<id>, the code of the account
    accountOf,  \* key account:code:<code>
    opening,    \* the code a createAccount call found free, by account id
    acctPc,     \* where each createAccount call stands
    sequence,   \* key sequence:journal_entry_<year>
    entries,    \* key journalentry:<id>
    pc,         \* where each call that records an entry stands
    request,    \* what such a call records
    original,   \* the entry a reverseJournalEntry call read
    number,     \* the sequence number a call has computed
    posting,    \* postJournalEntry calls that have read their draft
    settled,    \* entries with a completed ledger transaction stored
    events      \* stored ledger events

accountVars == <<codeOf, accountOf, opening, acctPc>>
callVars == <<pc, request, original, number>>
vars == <<codeOf, accountOf, opening, acctPc, sequence, entries, pc, request,
          original, number, posting, settled, events>>

Item == [code : Codes, debit : Nat, credit : Nat]

ASSUME LinesAssumption ==
    /\ Lines \subseteq Seq(Item)
    /\ \A lines \in Lines : Len(lines) >= 2
    /\ Tolerance \in Nat /\ Threshold \in Nat

\* postedBy: who posted the draft with postJournalEntry.
Kinds == {"manual", "automated", "transaction", "reversal"}
Request == [kind : Kinds, lines : Seq(Item), origin : EntryIds \union {NoEntry}]
Entry == [lines : Seq(Item), number : Nat, status : {"draft", "posted", "reversed"},
          approval : BOOLEAN, origin : EntryIds \union {NoEntry},
          postedBy : Users \union {NoUser}]

ASSUME SentinelAssumption ==
    /\ NoAccount \notin AccountIds \union Codes
    /\ NoEntry \notin EntryIds \union Entry \union Request
    /\ NoUser \notin Users

-----------------------------------------------------------------------------
\* A reversal flips the debit and the credit of every line.
Mirror(lines) == [k \in DOMAIN lines |->
    [code |-> lines[k].code, debit |-> lines[k].credit, credit |-> lines[k].debit]]

Debits(lines) == SumFunction([k \in DOMAIN lines |-> lines[k].debit])
Credits(lines) == SumFunction([k \in DOMAIN lines |-> lines[k].credit])

OneSided(item) == (item.debit > 0) # (item.credit > 0)
\* Faulty variant: the difference is compared without its absolute value.
BalancedOneWay(lines) == Debits(lines) - Credits(lines) <= Tolerance
Balanced(lines) ==
    /\ Debits(lines) - Credits(lines) <= Tolerance
    /\ Credits(lines) - Debits(lines) <= Tolerance

requiresApproval(req) ==
    req.kind \in {"manual", "reversal"} \/ Debits(req.lines) > Threshold

-----------------------------------------------------------------------------
Init ==
    /\ codeOf = [a \in AccountIds |-> NoAccount]
    /\ accountOf = [c \in Codes |-> NoAccount]
    /\ opening = [a \in AccountIds |-> NoAccount]
    /\ acctPc = [a \in AccountIds |-> "idle"]
    /\ sequence = 0
    /\ entries = [e \in EntryIds |-> NoEntry]
    /\ pc = [e \in EntryIds |-> "idle"]
    /\ request = [e \in EntryIds |-> NoEntry]
    /\ original = [e \in EntryIds |-> NoEntry]
    /\ number = [e \in EntryIds |-> 0]
    /\ posting = {}
    /\ settled = {}
    /\ events = {}

\* createAccount, by a client or by initializeChartOfAccounts: the code is
\* looked up, and the call throws when an account has it.
CheckCode(a, c) ==
    /\ acctPc[a] = "idle"
    /\ accountOf[c] = NoAccount
    /\ acctPc' = [acctPc EXCEPT ![a] = "free"]
    /\ opening' = [opening EXCEPT ![a] = c]
    /\ UNCHANGED <<codeOf, accountOf, sequence, entries, callVars, posting, settled, events>>

\* saveAccount: the account under its id, then under its code.
SaveAccount(a) ==
    /\ acctPc[a] = "free"
    /\ acctPc' = [acctPc EXCEPT ![a] = "saved"]
    /\ codeOf' = [codeOf EXCEPT ![a] = opening[a]]
    /\ UNCHANGED <<accountOf, opening, sequence, entries, callVars, posting, settled, events>>

SaveAccountCode(a) ==
    /\ acctPc[a] = "saved"
    /\ acctPc' = [acctPc EXCEPT ![a] = "done"]
    /\ accountOf' = [accountOf EXCEPT ![opening[a]] = a]
    /\ UNCHANGED <<codeOf, opening, sequence, entries, callVars, posting, settled, events>>

-----------------------------------------------------------------------------
\* createJournalEntry called by a client (manual or automated source) or by
\* createLedgerTransaction.
Submit(e, kind, lines) ==
    /\ pc[e] = "idle"
    /\ pc' = [pc EXCEPT ![e] = "submitted"]
    /\ request' = [request EXCEPT ![e] = [kind |-> kind, lines |-> lines, origin |-> NoEntry]]
    /\ UNCHANGED <<accountVars, sequence, entries, original, number, posting, settled, events>>

\* Faulty variant: a draft can be reversed.
BeginReverseAny(r, e) ==
    /\ pc[r] = "idle"
    /\ entries[e] # NoEntry
    /\ pc' = [pc EXCEPT ![r] = "submitted"]
    /\ original' = [original EXCEPT ![r] = entries[e]]
    /\ request' = [request EXCEPT ![r] =
           [kind |-> "reversal", lines |-> Mirror(entries[e].lines), origin |-> e]]
    /\ UNCHANGED <<accountVars, sequence, entries, number, posting, settled, events>>

\* reverseJournalEntry reads the original, throws unless it is posted, and
\* calls createJournalEntry with the mirrored lines.
BeginReverse(r, e) ==
    /\ pc[r] = "idle"
    /\ entries[e] # NoEntry
    /\ entries[e].status = "posted"
    /\ pc' = [pc EXCEPT ![r] = "submitted"]
    /\ original' = [original EXCEPT ![r] = entries[e]]
    /\ request' = [request EXCEPT ![r] =
           [kind |-> "reversal", lines |-> Mirror(entries[e].lines), origin |-> e]]
    /\ UNCHANGED <<accountVars, sequence, entries, number, posting, settled, events>>

\* getNextSequenceNumber: the counter is read, and written back incremented.
ReadSequence(e) ==
    /\ pc[e] = "submitted"
    /\ pc' = [pc EXCEPT ![e] = "numbering"]
    /\ number' = [number EXCEPT ![e] = sequence + 1]
    /\ UNCHANGED <<accountVars, sequence, entries, request, original, posting, settled, events>>

WriteSequence(e) ==
    /\ pc[e] = "numbering"
    /\ pc' = [pc EXCEPT ![e] = "numbered"]
    /\ sequence' = number[e]
    /\ UNCHANGED <<accountVars, entries, request, original, number, posting, settled, events>>

\* The line items: known accounts, one side each, and equal totals.  A call
\* that fails has used up its number.
Valid(lines) ==
    /\ \A k \in DOMAIN lines : accountOf[lines[k].code] # NoAccount /\ OneSided(lines[k])
    /\ Balanced(lines)

Validate(e) ==
    /\ pc[e] = "numbered"
    /\ pc' = [pc EXCEPT ![e] = IF Valid(request[e].lines) THEN "valid" ELSE "rejected"]
    /\ UNCHANGED <<accountVars, sequence, entries, request, original, number, posting,
                   settled, events>>

\* Faulty variants: every entry is posted at once; an unknown status.
SaveEntryPosted(e) ==
    /\ pc[e] = "valid"
    /\ pc' = [pc EXCEPT ![e] = "saved"]
    /\ entries' = [entries EXCEPT ![e] =
           [lines |-> request[e].lines, number |-> number[e], status |-> "posted",
            approval |-> requiresApproval(request[e]),
            origin |-> request[e].origin, postedBy |-> NoUser]]
    /\ UNCHANGED <<accountVars, sequence, request, original, number, posting, settled, events>>

SaveEntryPending(e) ==
    /\ pc[e] = "valid"
    /\ pc' = [pc EXCEPT ![e] = "saved"]
    /\ entries' = [entries EXCEPT ![e] =
           [lines |-> request[e].lines, number |-> number[e], status |-> "pending",
            approval |-> requiresApproval(request[e]),
            origin |-> request[e].origin, postedBy |-> NoUser]]
    /\ UNCHANGED <<accountVars, sequence, request, original, number, posting, settled, events>>

SaveEntry(e) ==
    /\ pc[e] = "valid"
    /\ pc' = [pc EXCEPT ![e] = "saved"]
    /\ entries' = [entries EXCEPT ![e] =
           [lines    |-> request[e].lines,
            number   |-> number[e],
            status   |-> IF requiresApproval(request[e]) THEN "draft" ELSE "posted",
            approval |-> requiresApproval(request[e]),
            origin   |-> request[e].origin,
            postedBy |-> NoUser]]
    /\ UNCHANGED <<accountVars, sequence, request, original, number, posting, settled, events>>

\* createJournalEntry ends with an entry_posted event, for a draft as well.
AnnounceEntry(e) ==
    /\ pc[e] = "saved"
    /\ pc' = [pc EXCEPT ![e] =
           IF request[e].kind \in {"transaction", "reversal"} THEN "created" ELSE "done"]
    /\ events' = events \union {<<"entry_posted", e>>}
    /\ UNCHANGED <<accountVars, sequence, entries, request, original, number, posting, settled>>

\* Faulty variant: stored as completed without waiting for the entry.
SaveTransactionEarly(e) ==
    /\ pc[e] = "numbered"
    /\ request[e].kind = "transaction"
    /\ pc' = [pc EXCEPT ![e] = "done"]
    /\ settled' = settled \union {e}
    /\ UNCHANGED <<accountVars, sequence, entries, request, original, number, posting, events>>

\* createLedgerTransaction stores itself as completed, entry posted or not.
SaveTransaction(e) ==
    /\ pc[e] = "created"
    /\ request[e].kind = "transaction"
    /\ pc' = [pc EXCEPT ![e] = "done"]
    /\ settled' = settled \union {e}
    /\ UNCHANGED <<accountVars, sequence, entries, request, original, number, posting, events>>

\* Faulty variant: the original is marked before its reversal is recorded.
SaveReversedFirst(r) ==
    /\ pc[r] = "submitted"
    /\ request[r].kind = "reversal"
    /\ entries' = [entries EXCEPT ![request[r].origin] =
                      [original[r] EXCEPT !.status = "reversed"]]
    /\ UNCHANGED <<accountVars, sequence, callVars, posting, settled, events>>

\* reverseJournalEntry, back from createJournalEntry: the original as it was
\* read is saved as reversed, then an entry_reversed event.
SaveReversed(r) ==
    /\ pc[r] = "created"
    /\ request[r].kind = "reversal"
    /\ pc' = [pc EXCEPT ![r] = "reversed"]
    /\ entries' = [entries EXCEPT ![request[r].origin] =
                      [original[r] EXCEPT !.status = "reversed"]]
    /\ UNCHANGED <<accountVars, sequence, request, original, number, posting, settled, events>>

AnnounceReversal(r) ==
    /\ pc[r] = "reversed"
    /\ pc' = [pc EXCEPT ![r] = "done"]
    /\ events' = events \union {<<"entry_reversed", request[r].origin>>}
    /\ UNCHANGED <<accountVars, sequence, entries, request, original, number, posting, settled>>

-----------------------------------------------------------------------------
\* Faulty variant: whatever its status, an entry can be posted.
BeginPostAny(u, e) ==
    /\ entries[e] # NoEntry
    /\ posting' = posting \union {<<u, e>>}
    /\ UNCHANGED <<accountVars, sequence, entries, callVars, settled, events>>

\* postJournalEntry reads the entry and throws unless it is a draft ...
BeginPost(u, e) ==
    /\ entries[e] # NoEntry
    /\ entries[e].status = "draft"
    /\ posting' = posting \union {<<u, e>>}
    /\ UNCHANGED <<accountVars, sequence, entries, callVars, settled, events>>

\* ... and saves that draft as posted.  Only status and postedBy of a stored
\* entry ever change, so the draft it read is the stored entry but for these.
FinishPost(u, e) ==
    /\ <<u, e>> \in posting
    /\ posting' = posting \ {<<u, e>>}
    /\ entries' = [entries EXCEPT ![e].status = "posted", ![e].postedBy = u]
    /\ UNCHANGED <<accountVars, sequence, callVars, settled, events>>

RecordStep(e) ==
    \/ ReadSequence(e)
    \/ WriteSequence(e)
    \/ Validate(e)
    \/ SaveEntry(e)
    \/ AnnounceEntry(e)
    \/ SaveTransaction(e)
    \/ SaveReversed(e)
    \/ AnnounceReversal(e)

AccountStep(a) == SaveAccount(a) \/ SaveAccountCode(a)

Next ==
    \/ \E a \in AccountIds, c \in Codes : CheckCode(a, c)
    \/ \E a \in AccountIds : AccountStep(a)
    \/ \E e \in EntryIds, kind \in Kinds \ {"reversal"}, lines \in Lines :
          Submit(e, kind, lines)
    \/ \E r \in EntryIds, e \in EntryIds : BeginReverse(r, e)
    \/ \E e \in EntryIds : RecordStep(e)
    \/ \E u \in Users, e \in EntryIds : BeginPost(u, e) \/ FinishPost(u, e)

Spec == Init /\ [][Next]_vars

\* As Spec, when callers keep operations on one entry, and numbering, apart.
Numbering == {e \in EntryIds : pc[e] = "numbering"}
Reversing(e) ==
    {r \in EntryIds : /\ pc[r] \in {"submitted", "numbering", "numbered", "valid",
                                    "saved", "created"}
                      /\ request[r].kind = "reversal"
                      /\ request[r].origin = e}
Posting(e) == {u \in Users : <<u, e>> \in posting}

Apart ==
    /\ \A e1, e2 \in Numbering : e1 = e2
    /\ \A e \in EntryIds :
          /\ \A r1, r2 \in Reversing(e) : r1 = r2
          /\ \A u1, u2 \in Posting(e) : u1 = u2
          /\ Reversing(e) = {} \/ Posting(e) = {}

SerialNext == Next /\ Apart'
SerialSpec ==
    /\ Init
    /\ [][SerialNext]_vars
    /\ \A e \in EntryIds : WF_vars(RecordStep(e) /\ Apart')
-----------------------------------------------------------------------------
TypeOK ==
    /\ codeOf \in [AccountIds -> Codes \union {NoAccount}]
    /\ accountOf \in [Codes -> AccountIds \union {NoAccount}]
    /\ opening \in [AccountIds -> Codes \union {NoAccount}]
    /\ acctPc \in [AccountIds -> {"idle", "free", "saved", "done"}]
    /\ sequence \in Nat
    /\ entries \in [EntryIds -> Entry \union {NoEntry}]
    /\ pc \in [EntryIds -> {"idle", "submitted", "numbering", "numbered", "valid",
                            "rejected", "saved", "created", "reversed", "done"}]
    /\ request \in [EntryIds -> Request \union {NoEntry}]
    /\ original \in [EntryIds -> Entry \union {NoEntry}]
    /\ number \in [EntryIds -> Nat]
    /\ posting \subseteq Users \X EntryIds
    /\ settled \subseteq EntryIds
    /\ events \subseteq {"entry_posted", "entry_reversed"} \X EntryIds

Recorded(e) == entries[e] # NoEntry

\* The double entry: the debits and credits of every stored entry agree within
\* the tolerance, in whichever direction, so that the mirror of an entry that was
\* accepted is accepted too: a reversal never fails its validation.
EntriesBalance ==
    \A e \in EntryIds :
        /\ Recorded(e) => Balanced(entries[e].lines)
        /\ pc[e] = "rejected" => request[e].kind # "reversal"

\* A reversal undoes exactly its original, which has been posted, whatever
\* other calls did to the original since it was read.
ReversalMirrorsOriginal ==
    \A r \in EntryIds : Recorded(r) /\ entries[r].origin # NoEntry =>
        LET e == entries[r].origin
        IN  /\ Recorded(e) /\ entries[e].status # "draft"
            /\ entries[r].lines = Mirror(entries[e].lines)

\* Even when a call dies between two of its writes, an entry marked reversed,
\* or announced as reversed, has a stored reversal.
ReversedHasReversal ==
    \A e \in EntryIds :
        \/ Recorded(e) /\ entries[e].status = "reversed"
        \/ <<"entry_reversed", e>> \in events
        => \E r \in EntryIds : Recorded(r) /\ entries[r].origin = e

\* An entry that needs approval is a draft until a user has posted it.
ApprovalRespected ==
    \A e \in EntryIds :
        Recorded(e) /\ entries[e].approval /\ entries[e].status # "draft"
            => entries[e].postedBy \in Users

\* A completed ledger transaction has its journal entry, whose lines are the
\* transaction's accounting rules.
CompletedTransactionHasEntry ==
    \A e \in settled : Recorded(e) /\ entries[e].lines = request[e].lines

\* Kept apart, calls drive every entry through the life cycle of IdealLedger.
StatusOf == [e \in EntryIds |-> IF Recorded(e) THEN entries[e].status ELSE "none"]
ReversalOf == [e \in EntryIds |-> {r \in EntryIds : Recorded(r) /\ entries[r].origin = e}]
Ideal == INSTANCE IdealLedger WITH status <- StatusOf, reversals <- ReversalOf
\* Serial calls implement IdealLedger: no entry is posted twice, reversed
\* twice or taken back, and a recorded reversal does mark its original.
ImplementsIdeal == Ideal!Spec
=============================================================================
