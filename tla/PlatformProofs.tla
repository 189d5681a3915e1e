---------------------------- MODULE PlatformProofs -----------------------------
(***************************************************************************)
(* What holds of the parts of the platform, for every value of their       *)
(* constants, and therefore of the composition, whose other parts leave    *)
(* the variables of a part alone.                                          *)
(***************************************************************************)
EXTENDS PlatformServices, Sums, FiniteSetTheorems, SequenceTheorems, TLAPS

-----------------------------------------------------------------------------
(***************************************************************************)
(* The rows of apps/api, for any applications, payments, clients and       *)
(* amounts, with every interleaving of the handlers' statements.           *)
(***************************************************************************)
\* What a handler holds between its statements.
HeldSetLoan(c) == c.pc = "setLoan" /\ c.app \in Loans /\ c.status \in LoanStates
HeldDeletion(c) ==
    /\ c.pc = "deleteLoan" /\ c.app \in Loans
    /\ c.app \in overtaken \/ ~OnFile(c.app) \/ loanRows[c.app].status \notin AcceptsPayments
HeldPayment(c) ==
    /\ c.pc = "insertPayment" /\ c.row \in PaymentRow /\ c.row.of = "none"
    /\ loanRows[c.row.loan] # Unused
    /\ OnFile(c.row.loan) => loanRows[c.row.loan].user = c.row.user
HeldStatus(c) ==
    /\ c.pc = "setPayment" /\ c.payment \in PaymentIds /\ paymentRows[c.payment] \in PaymentRow
    /\ \/ c.by = "hand" /\ c.status \in PaymentStates
       \/ c.by = "refund" /\ c.status = "refunded"
HeldRefund(c) ==
    /\ c.pc = "insertRefund" /\ c.row \in PaymentRow /\ c.row.of \in PaymentIds
    /\ LET payment == paymentRows[c.row.of] IN
       /\ payment \in PaymentRow /\ c.row.loan = payment.loan /\ c.row.user = payment.user
       /\ c.full <=> (c.row.amount = -payment.amount)
HeldRows == \A k \in Clients :
            LET c == asking[k] IN
            c = Resting \/ HeldSetLoan(c) \/ HeldDeletion(c) \/ HeldPayment(c) \/ HeldStatus(c) \/ HeldRefund(c)

\* The tables, row by row.
RowTypes ==
    /\ loanRows = [a \in Loans |-> loanRows[a]]
    /\ \A a \in Loans : loanRows[a] \in LoanRow \/ loanRows[a] = Unused \/ loanRows[a].status = "deleted"
    /\ paymentRows = [p \in PaymentIds |-> paymentRows[p]]
    /\ \A p \in PaymentIds : paymentRows[p] \in PaymentRow \/ paymentRows[p] = Unused
    /\ asking = [k \in Clients |-> asking[k]]
    /\ booked \subseteq Loans /\ overtaken \subseteq Loans /\ excused \subseteq PaymentIds

\* The database's references.
References ==
    /\ \A a \in booked : OnFile(a)
    /\ \A p \in PaymentIds : paymentRows[p] \in PaymentRow =>
           LET row == paymentRows[p] IN
           /\ row.loan \in booked /\ loanRows[row.loan].user = row.user
           /\ row.of # "none" => paymentRows[row.of] \in PaymentRow /\ paymentRows[row.of].loan = row.loan

IsFullRefund(r, p) ==
    /\ paymentRows[r] \in PaymentRow /\ paymentRows[r].of = p /\ paymentRows[r].amount = -paymentRows[p].amount
\* What keeps a payment from being refunded twice.
RefundsAlone(p) ==
    /\ \A j, k \in Clients : Refunding(j, p) /\ Refunding(k, p) => j = k
    /\ \A r, s \in PaymentIds : IsFullRefund(r, p) /\ IsFullRefund(s, p) => r = s
    /\ \A r \in PaymentIds : IsFullRefund(r, p) =>
           /\ \A k \in Clients : ~(Asking(k, "insertRefund") /\ asking[k].row.of = p)
           /\ \/ paymentRows[p].status # "completed"
              \/ \E k \in Clients : Asking(k, "setPayment") /\ asking[k].by = "refund" /\ asking[k].payment = p

LoansInv ==
    /\ RowTypes /\ HeldRows /\ References /\ DeletedWasIdle
    /\ \A p \in PaymentIds \ excused : RefundsAlone(p)

-----------------------------------------------------------------------------
\* What tells rows apart.
LEMMA RowFacts ==
    /\ Unused \notin LoanRow /\ Unused \notin PaymentRow
    /\ \A r \in LoanRow : r.status # "deleted" /\ r.status # "unused"
    /\ \A r \in LoanRow : Deleted(r).status = "deleted" /\ Deleted(r).last = r.status /\ Deleted(r) \notin LoanRow
    /\ Unused.status = "unused" /\ \A r \in LoanRow : Deleted(r) # Unused
<1>1. \A r \in LoanRow : r.status # "deleted" /\ r.status # "unused"
  BY DEF LoanRow
<1>2. Unused.status = "unused"
  BY DEF Unused
<1>3. Unused \notin LoanRow
  BY <1>1, <1>2
<1>4. Unused \notin PaymentRow
  <2>1. \A r \in PaymentRow : r.status # "unused"
    BY DEF PaymentRow
  <2> QED BY <2>1, <1>2
<1>5. \A r \in LoanRow : Deleted(r).status = "deleted" /\ Deleted(r).last = r.status
  BY DEF Deleted
<1> QED BY <1>1, <1>2, <1>3, <1>4, <1>5

LEMMA CallFacts ==
    ASSUME NEW c
    PROVE  c = Resting => c.pc = "resting"
BY DEF Resting

LEMMA LoansInitially == LoansInit => LoansInv
<1> SUFFICES ASSUME LoansInit PROVE LoansInv
  OBVIOUS
<1> USE RowFacts DEF LoansInit
<1>1. RowTypes
  BY DEF RowTypes
<1>2. HeldRows
  BY DEF HeldRows
<1>3. References
  BY DEF References
<1>4. DeletedWasIdle
  BY DEF DeletedWasIdle
<1>5. ASSUME NEW p \in PaymentIds PROVE RefundsAlone(p)
  BY DEF RefundsAlone, IsFullRefund, Refunding, Asking, Resting
<1> QED BY <1>1, <1>2, <1>3, <1>4, <1>5 DEF LoansInv

\* A handler's first statement changes nothing but what it holds.
HeldOne(c) ==
    c = Resting \/ HeldSetLoan(c) \/ HeldDeletion(c) \/ HeldPayment(c) \/ HeldStatus(c) \/ HeldRefund(c)

LEMMA AskKeeps ==
    ASSUME LoansInv, NEW k \in Clients, asking[k] = Resting, NEW c, HeldOne(c), Ask(k, c),
           excused \subseteq excused', excused' \subseteq PaymentIds,
           c.pc = "setPayment" => c.by = "hand",
           \A p \in PaymentIds \ excused' : (c.pc = "insertRefund" /\ c.row.of = p) =>
               (\A j \in Clients : ~Refunding(j, p)) /\ paymentRows[p].status = "completed"
    PROVE  LoansInv'
<1> USE DEF LoansInv
<1>1. UNCHANGED <<loanRows, booked, paymentRows, overtaken>>
  BY DEF Ask
<1>2. asking'[k] = c /\ \A j \in Clients \ {k} : asking'[j] = asking[j]
  BY DEF Ask, RowTypes
<1>3. RowTypes'
  BY <1>1 DEF Ask, RowTypes, OnFile
<1>4. HeldRows'
  <2> SUFFICES ASSUME NEW j \in Clients PROVE HeldOne(asking[j])'
    BY DEF HeldRows, HeldOne
  <2>1. HeldOne(asking'[j])
    BY <1>2 DEF HeldRows, HeldOne
  <2> QED BY <1>1, <2>1 DEF HeldOne, HeldSetLoan, HeldDeletion, HeldPayment, HeldStatus, HeldRefund, OnFile
<1>5. References'
  BY <1>1 DEF References, OnFile
<1>6. DeletedWasIdle'
  BY <1>1 DEF DeletedWasIdle
<1>7. ASSUME NEW p \in PaymentIds, p \notin excused' PROVE RefundsAlone(p)'
  <2>1. RefundsAlone(p)
    BY <1>7
  <2>2. \A r \in PaymentIds : IsFullRefund(r, p)' <=> IsFullRefund(r, p)
    BY <1>1 DEF IsFullRefund
  <2>3. \A j \in Clients \ {k} : Refunding(j, p)' <=> Refunding(j, p)
    BY <1>2 DEF Refunding, Asking
  <2>4. Refunding(k, p)' <=> c.pc = "insertRefund" /\ c.row.of = p
    BY <1>2 DEF Refunding, Asking
  <2>5. ~Refunding(k, p)
    BY DEF Refunding, Asking, Resting
  <2>6. \A i, j \in Clients : Refunding(i, p)' /\ Refunding(j, p)' => i = j
    BY <1>7, <2>1, <2>3, <2>4 DEF RefundsAlone
  <2>7. \A r, s \in PaymentIds : IsFullRefund(r, p)' /\ IsFullRefund(s, p)' => r = s
    BY <2>1, <2>2 DEF RefundsAlone
  <2>8. ASSUME NEW r \in PaymentIds, IsFullRefund(r, p)'
        PROVE  /\ \A j \in Clients : ~(Asking(j, "insertRefund") /\ asking[j].row.of = p)'
               /\ \/ paymentRows[p].status # "completed"
                  \/ \E j \in Clients : Asking(j, "setPayment") /\ asking[j].by = "refund" /\ asking[j].payment = p
    BY <2>1, <2>2, <2>8, <1>2, <1>7 DEF RefundsAlone, Refunding, Asking, Resting
  <2>9. ASSUME NEW j \in Clients, Asking(j, "setPayment"), asking[j].by = "refund", asking[j].payment = p
        PROVE  (Asking(j, "setPayment") /\ asking[j].by = "refund" /\ asking[j].payment = p)'
    BY <2>9, <1>2 DEF Asking, Resting
  <2> QED BY <1>1, <2>6, <2>7, <2>8, <2>9 DEF RefundsAlone
<1> QED BY <1>3, <1>4, <1>5, <1>6, <1>7

LEMMA FirstStatementsKeep ==
    ASSUME LoansInv, NEW k \in Clients, asking[k] = Resting,
           \/ updateLoanStatus(k) \/ deleteLoan(k) \/ createPayment(k) \/ processPayment(k) \/ refundPayment(k)
    PROVE  LoansInv'
<1> USE LoanRoutesAssumption, RowFacts
<1>0. excused \subseteq PaymentIds
  BY DEF LoansInv, RowTypes
<1>1. CASE updateLoanStatus(k)
  <2>1. PICK a \in Loans, s \in LoanStates : Ask(k, [pc |-> "setLoan", app |-> a, status |-> s]) /\ UNCHANGED excused
    BY <1>1 DEF updateLoanStatus
  <2> DEFINE c == [pc |-> "setLoan", app |-> a, status |-> s]
  <2>2. HeldOne(c) /\ c.pc = "setLoan"
    BY DEF HeldOne, HeldSetLoan
  <2> QED BY <1>0, <2>1, <2>2, AskKeeps
<1>2. CASE deleteLoan(k)
  <2>1. PICK a \in Loans : /\ loanRows[a].status \notin AcceptsPayments
                           /\ Ask(k, [pc |-> "deleteLoan", app |-> a]) /\ UNCHANGED excused
    BY <1>2 DEF deleteLoan
  <2> DEFINE c == [pc |-> "deleteLoan", app |-> a]
  <2>2. HeldOne(c) /\ c.pc = "deleteLoan"
    BY <2>1 DEF HeldOne, HeldDeletion
  <2> QED BY <1>0, <2>1, <2>2, AskKeeps
<1>3. CASE createPayment(k)
  <2>1. PICK a \in Loans, x \in PaidAmounts :
            /\ OnFile(a) /\ UNCHANGED excused
            /\ Ask(k, [pc |-> "insertPayment",
                       row |-> [loan |-> a, user |-> loanRows[a].user, amount |-> x,
                                status |-> "pending", of |-> "none"]])
    BY <1>3 DEF createPayment
  <2>2. PICK row : row = [loan |-> a, user |-> loanRows[a].user, amount |-> x, status |-> "pending", of |-> "none"]
    OBVIOUS
  <2> DEFINE c == [pc |-> "insertPayment", row |-> row]
  <2>3. row \in PaymentRow /\ row.of = "none" /\ row.loan = a /\ row.user = loanRows[a].user
    BY <2>1, <2>2 DEF PaymentRow, OnFile, LoanRow
  <2>4. HeldOne(c) /\ c.pc = "insertPayment"
    BY <2>1, <2>3 DEF HeldOne, HeldPayment, OnFile
  <2> QED BY <1>0, <2>1, <2>2, <2>4, AskKeeps
<1>4. CASE processPayment(k)
  <2>1. PICK p \in PaymentIds, s \in PaymentStates :
            /\ OnRecord(paymentRows[p]) /\ UNCHANGED excused
            /\ Ask(k, [pc |-> "setPayment", payment |-> p, status |-> s, by |-> "hand"])
    BY <1>4 DEF processPayment
  <2> DEFINE c == [pc |-> "setPayment", payment |-> p, status |-> s, by |-> "hand"]
  <2>2. paymentRows[p] \in PaymentRow
    BY <2>1 DEF LoansInv, RowTypes, OnRecord
  <2>3. HeldOne(c) /\ c.pc = "setPayment" /\ c.by = "hand"
    BY <2>2 DEF HeldOne, HeldStatus
  <2> QED BY <1>0, <2>1, <2>3, AskKeeps
<1>5. CASE refundPayment(k)
  <2>1. PICK p \in PaymentIds :
            /\ OnRecord(paymentRows[p]) /\ paymentRows[p].status = "completed"
            /\ excused' = IF \E j \in Clients : Refunding(j, p) THEN excused \union {p} ELSE excused
            /\ \E x \in PaidAmounts \union {paymentRows[p].amount} :
                   Ask(k, [pc |-> "insertRefund",
                           row |-> [paymentRows[p] EXCEPT !.amount = -x, !.status = "refunded", !.of = p],
                           full |-> x = paymentRows[p].amount])
    BY <1>5 DEF refundPayment
  <2>2. paymentRows[p] \in PaymentRow
    BY <2>1 DEF LoansInv, RowTypes, OnRecord
  <2>3. PICK x \in PaidAmounts \union {paymentRows[p].amount} :
            Ask(k, [pc |-> "insertRefund",
                    row |-> [paymentRows[p] EXCEPT !.amount = -x, !.status = "refunded", !.of = p],
                    full |-> x = paymentRows[p].amount])
    BY <2>1
  <2>4. PICK row, full : /\ row = [paymentRows[p] EXCEPT !.amount = -x, !.status = "refunded", !.of = p]
                         /\ full = (x = paymentRows[p].amount)
    OBVIOUS
  <2> DEFINE c == [pc |-> "insertRefund", row |-> row, full |-> full]
  <2>5. x \in Int /\ paymentRows[p].amount \in Int
    BY <2>2 DEF PaymentRow
  <2>6. /\ row \in PaymentRow /\ row.of = p /\ row.amount = -x
        /\ row.loan = paymentRows[p].loan /\ row.user = paymentRows[p].user
    <3> HIDE LoanRoutesAssumption, RowFacts DEF c
    <3>1. PICK q \in PaymentRow : q = paymentRows[p]
      BY <2>2
    <3>2. row = [q EXCEPT !.amount = -x, !.status = "refunded", !.of = p]
      BY <2>4, <3>1, Zenon
    <3>3. row = [loan |-> q.loan, user |-> q.user, amount |-> -x, status |-> "refunded", of |-> p]
      BY <3>2 DEF PaymentRow
    <3>4. q.loan \in Loans /\ q.user \in Clients /\ -x \in Int
      BY <2>5 DEF PaymentRow
    <3>5. row \in PaymentRow
      BY <3>3, <3>4 DEF PaymentRow
    <3> QED BY <3>1, <3>3, <3>5
  <2>7. full <=> (row.amount = -paymentRows[p].amount)
    <3>1. (x = paymentRows[p].amount) <=> (-x = -paymentRows[p].amount)
      BY <2>5
    <3> QED BY <2>4, <2>6, <3>1, Zenon
  <2>8. HeldOne(c) /\ c.pc = "insertRefund" /\ c.row.of = p
    BY <2>2, <2>6, <2>7 DEF HeldOne, HeldRefund
  <2>9. Ask(k, c)
    BY <2>3, <2>4
  <2>10. excused \subseteq excused' /\ excused' \subseteq PaymentIds
    BY <1>0, <2>1
  <2>11. \A q \in PaymentIds \ excused' : (c.pc = "insertRefund" /\ c.row.of = q) =>
             (\A j \in Clients : ~Refunding(j, q)) /\ paymentRows[q].status = "completed"
    BY <2>1, <2>8
  <2> HIDE DEF c
  <2> QED BY <2>8, <2>9, <2>10, <2>11, AskKeeps
<1> QED BY <1>1, <1>2, <1>3, <1>4, <1>5

-----------------------------------------------------------------------------
\* As long as no payment changes, ending a request leaves refunds as they are, unless it was
\* one that still had to mark its payment.
LEMMA RefundsKept ==
    ASSUME LoansInv, UNCHANGED <<paymentRows, excused>>, NEW k \in Clients,
           \A j \in Clients \ {k} : asking'[j] = asking[j],
           \/ asking'[k] = asking[k]
           \/ asking'[k] = Resting /\ ~Asking(k, "setPayment"),
           NEW p \in PaymentIds, p \notin excused
    PROVE  RefundsAlone(p)'
<1>1. RefundsAlone(p)
  BY DEF LoansInv
<1>2. \A r \in PaymentIds : IsFullRefund(r, p)' <=> IsFullRefund(r, p)
  BY DEF IsFullRefund
<1>3. \A j \in Clients : Refunding(j, p)' => Refunding(j, p)
  BY DEF Refunding, Asking, Resting
<1>4. \A j \in Clients : (Asking(j, "insertRefund") /\ asking[j].row.of = p)' => Asking(j, "insertRefund") /\ asking[j].row.of = p
  BY DEF Asking, Resting
<1>5. \A j \in Clients : Asking(j, "setPayment") /\ asking[j].by = "refund" /\ asking[j].payment = p
                          => (Asking(j, "setPayment") /\ asking[j].by = "refund" /\ asking[j].payment = p)'
  BY DEF Asking
<1>6. \A i, j \in Clients : Refunding(i, p)' /\ Refunding(j, p)' => i = j
  BY <1>1, <1>3 DEF RefundsAlone
<1>7. \A r, s \in PaymentIds : IsFullRefund(r, p)' /\ IsFullRefund(s, p)' => r = s
  BY <1>1, <1>2 DEF RefundsAlone
<1>8. \A r \in PaymentIds : IsFullRefund(r, p)' =>
          /\ \A j \in Clients : ~(Asking(j, "insertRefund") /\ asking[j].row.of = p)'
          /\ \/ paymentRows'[p].status # "completed"
             \/ \E j \in Clients : (Asking(j, "setPayment") /\ asking[j].by = "refund" /\ asking[j].payment = p)'
  BY <1>1, <1>2, <1>4, <1>5 DEF RefundsAlone
<1> QED BY <1>6, <1>7, <1>8 DEF RefundsAlone

LEMMA CreationKeeps ==
    ASSUME LoansInv, NEW k \in Clients, createLoanApplication(k)
    PROVE  LoansInv'
<1> USE RowFacts DEF LoansInv
<1>1. PICK a \in Loans :
          /\ loanRows[a] = Unused /\ loanRows' = [loanRows EXCEPT ![a] = [user |-> k, status |-> "pending"]]
          /\ UNCHANGED <<booked, paymentRows, asking, overtaken, excused>>
  BY DEF createLoanApplication
<1>2. /\ loanRows'[a] \in LoanRow /\ loanRows'[a].status = "pending"
      /\ \A b \in Loans \ {a} : loanRows'[b] = loanRows[b]
  BY <1>1 DEF RowTypes, LoanRow
<1>3. RowTypes'
  BY <1>1, <1>2 DEF RowTypes
<1>4. HeldRows'
  <2> SUFFICES ASSUME NEW j \in Clients PROVE HeldOne(asking[j])'
    BY DEF HeldRows, HeldOne
  <2>1. HeldOne(asking[j]) /\ asking'[j] = asking[j]
    BY <1>1 DEF HeldRows, HeldOne
  <2>2. CASE HeldDeletion(asking[j])
    BY <1>1, <1>2, <2>1, <2>2 DEF HeldOne, HeldDeletion, OnFile, AcceptsPayments
  <2>3. CASE HeldPayment(asking[j])
    BY <1>1, <1>2, <2>1, <2>3 DEF HeldOne, HeldPayment, OnFile, PaymentRow
  <2> QED BY <1>1, <2>1, <2>2, <2>3 DEF HeldOne, HeldSetLoan, HeldStatus, HeldRefund
<1>5. References'
  BY <1>1, <1>2 DEF References, OnFile, RowTypes
<1>6. DeletedWasIdle'
  BY <1>1, <1>2 DEF DeletedWasIdle
<1>7. ASSUME NEW p \in PaymentIds, p \notin excused' PROVE RefundsAlone(p)'
  BY <1>1, <1>7, RefundsKept
<1> QED BY <1>3, <1>4, <1>5, <1>6, <1>7

LEMMA SetLoanKeeps ==
    ASSUME LoansInv, NEW k \in Clients, SetLoan(k)
    PROVE  LoansInv'
<1> USE RowFacts, LoanRoutesAssumption DEF LoansInv
<1> DEFINE a == asking[k].app
<1>1. asking[k].pc = "setLoan" /\ a \in Loans /\ asking[k].status \in LoanStates
  BY DEF SetLoan, Asking, HeldRows, HeldSetLoan, HeldDeletion, HeldPayment, HeldStatus, HeldRefund, Resting
<1>2. /\ asking'[k] = Resting /\ \A j \in Clients \ {k} : asking'[j] = asking[j]
      /\ UNCHANGED <<booked, paymentRows, excused>>
  BY DEF SetLoan, RowTypes
<1>3. /\ OnFile(a) => /\ loanRows'[a] \in LoanRow /\ loanRows'[a].user = loanRows[a].user
                      /\ \A j \in Clients : Asking(j, "deleteLoan") /\ asking[j].app = a => a \in overtaken'
      /\ ~OnFile(a) => loanRows'[a] = loanRows[a]
      /\ \A b \in Loans \ {a} : loanRows'[b] = loanRows[b]
      /\ overtaken \subseteq overtaken' /\ overtaken' \subseteq Loans
  <2>1. CASE ~OnFile(a)
    BY <2>1 DEF SetLoan, RowTypes
  <2>2. CASE OnFile(a)
    <3>1. loanRows' = [loanRows EXCEPT ![a].status = asking[k].status]
      BY <2>2 DEF SetLoan
    <3>2. loanRows'[a] = [loanRows[a] EXCEPT !.status = asking[k].status]
      BY <1>1, <3>1 DEF RowTypes
    <3>3. loanRows'[a] \in LoanRow /\ loanRows'[a].user = loanRows[a].user
      BY <1>1, <2>2, <3>2 DEF OnFile, LoanRow
    <3>4. \A b \in Loans \ {a} : loanRows'[b] = loanRows[b]
      BY <3>1 DEF RowTypes
    <3>5. /\ \A j \in Clients : Asking(j, "deleteLoan") /\ asking[j].app = a => a \in overtaken'
          /\ overtaken \subseteq overtaken' /\ overtaken' \subseteq Loans
      BY <1>1, <2>2 DEF SetLoan, RowTypes
    <3> QED BY <2>2, <3>3, <3>4, <3>5
  <2> QED BY <2>1, <2>2
<1> HIDE DEF a
<1>4. loanRows' = [b \in Loans |-> loanRows'[b]] /\ asking' = [j \in Clients |-> asking'[j]]
  <2>1. loanRows' = loanRows \/ loanRows' = [loanRows EXCEPT ![asking[k].app].status = asking[k].status]
    BY DEF SetLoan
  <2>2. asking' = [asking EXCEPT ![k] = Resting]
    BY DEF SetLoan
  <2>3. loanRows = [b \in Loans |-> loanRows[b]] /\ asking = [j \in Clients |-> asking[j]]
    BY DEF RowTypes
  <2>4. loanRows' = [b \in Loans |-> loanRows'[b]]
    BY <2>1, <2>3
  <2>5. asking' = [j \in Clients |-> asking'[j]]
    BY <2>2, <2>3
  <2> QED BY <2>4, <2>5
<1>5. RowTypes'
  <2>1. /\ \A b \in Loans : loanRows'[b] \in LoanRow \/ loanRows'[b] = loanRows[b]
        /\ booked' = booked /\ paymentRows' = paymentRows /\ excused' = excused /\ overtaken' \subseteq Loans
    BY <1>2, <1>3 DEF OnFile
  <2>2. \A b \in Loans : loanRows'[b] \in LoanRow \/ loanRows'[b] = Unused \/ loanRows'[b].status = "deleted"
    BY <2>1 DEF RowTypes
  <2> QED BY <1>4, <2>1, <2>2 DEF RowTypes
<1>6. HeldRows'
  <2> SUFFICES ASSUME NEW j \in Clients PROVE HeldOne(asking[j])'
    BY DEF HeldRows, HeldOne
  <2>1. CASE j = k
    BY <1>2, <2>1 DEF HeldOne
  <2>2. CASE j # k
    <3>1. HeldOne(asking[j]) /\ asking'[j] = asking[j]
      BY <1>2, <2>2 DEF HeldRows, HeldOne
    <3>2. CASE HeldDeletion(asking[j])
      BY <1>3, <3>1, <3>2 DEF HeldOne, HeldDeletion, OnFile, Asking
    <3>3. CASE HeldPayment(asking[j])
      BY <1>3, <3>1, <3>3 DEF HeldOne, HeldPayment, OnFile, PaymentRow
    <3> QED BY <1>2, <3>1, <3>2, <3>3 DEF HeldOne, HeldSetLoan, HeldStatus, HeldRefund
  <2> QED BY <2>1, <2>2
<1>7. References'
  <2>1. \A b \in Loans : OnFile(b) => OnFile(b)' /\ loanRows'[b].user = loanRows[b].user
    BY <1>3 DEF OnFile
  <2>2. booked' = booked /\ paymentRows' = paymentRows /\ booked \subseteq Loans
    BY <1>2 DEF RowTypes
  <2>3. \A b \in booked : OnFile(b)' /\ loanRows'[b].user = loanRows[b].user
    BY <2>1, <2>2 DEF References
  <2> QED BY <2>2, <2>3 DEF References
<1>8. DeletedWasIdle'
  BY <1>3 DEF DeletedWasIdle, RowTypes, OnFile
<1>9. ASSUME NEW p \in PaymentIds, p \notin excused' PROVE RefundsAlone(p)'
  BY <1>1, <1>2, <1>9, RefundsKept DEF Asking
<1> QED BY <1>5, <1>6, <1>7, <1>8, <1>9

LEMMA RemovalKeeps ==
    ASSUME LoansInv, NEW k \in Clients, RemoveLoan(k)
    PROVE  LoansInv'
<1> USE RowFacts DEF LoansInv
<1> DEFINE a == asking[k].app
<1>1. HeldDeletion(asking[k]) /\ a \in Loans
  BY DEF RemoveLoan, Asking, HeldRows, HeldSetLoan, HeldDeletion, HeldPayment, HeldStatus, HeldRefund, Resting
<1>2. /\ asking'[k] = Resting /\ \A j \in Clients \ {k} : asking'[j] = asking[j]
      /\ UNCHANGED <<booked, paymentRows, overtaken, excused>>
      /\ loanRows' = [b \in Loans |-> loanRows'[b]] /\ asking' = [j \in Clients |-> asking'[j]]
  BY DEF RemoveLoan, RowTypes
<1>3. \A b \in Loans :
          \/ loanRows'[b] = loanRows[b]
          \/ /\ b = a /\ a \notin booked /\ loanRows[a] \in LoanRow
             /\ loanRows'[a] = Deleted(loanRows[a])
  BY <1>1 DEF RemoveLoan, RowTypes, OnFile
<1>4. loanRows[a] \in LoanRow => a \in overtaken \/ loanRows[a].status \notin AcceptsPayments
  BY <1>1 DEF HeldDeletion, OnFile
<1> HIDE DEF a
<1>5. RowTypes'
  BY <1>2, <1>3 DEF RowTypes
<1>6. HeldRows'
  <2> SUFFICES ASSUME NEW j \in Clients PROVE HeldOne(asking[j])'
    BY DEF HeldRows, HeldOne
  <2>1. CASE j = k
    BY <1>2, <2>1 DEF HeldOne
  <2>2. CASE j # k
    <3>1. HeldOne(asking[j]) /\ asking'[j] = asking[j]
      BY <1>2, <2>2 DEF HeldRows, HeldOne
    <3>2. CASE HeldDeletion(asking[j])
      BY <1>2, <1>3, <3>1, <3>2 DEF HeldOne, HeldDeletion, OnFile
    <3>3. CASE HeldPayment(asking[j])
      BY <1>3, <3>1, <3>3 DEF HeldOne, HeldPayment, OnFile, PaymentRow
    <3> QED BY <1>2, <3>1, <3>2, <3>3 DEF HeldOne, HeldSetLoan, HeldStatus, HeldRefund
  <2> QED BY <2>1, <2>2
<1>7. References'
  <2>1. booked' = booked /\ paymentRows' = paymentRows /\ booked \subseteq Loans
    BY <1>2 DEF RowTypes
  <2>2. \A b \in booked : loanRows'[b] = loanRows[b]
    BY <1>3, <2>1
  <2> QED BY <2>1, <2>2 DEF References, OnFile
<1>8. DeletedWasIdle'
  BY <1>2, <1>3, <1>4 DEF DeletedWasIdle
<1>9. ASSUME NEW p \in PaymentIds, p \notin excused' PROVE RefundsAlone(p)'
  BY <1>1, <1>2, <1>9, RefundsKept DEF Asking, HeldDeletion
<1> QED BY <1>5, <1>6, <1>7, <1>8, <1>9

LEMMA BookingKeeps ==
    ASSUME LoansInv, NEW a \in Loans, BookLoan(a)
    PROVE  LoansInv'
<1> USE DEF LoansInv
<1>1. booked' = booked \union {a} /\ OnFile(a) /\ UNCHANGED <<loanRows, paymentRows, asking, overtaken, excused>>
  BY DEF BookLoan
<1>2. RowTypes'
  BY <1>1 DEF RowTypes
<1>3. HeldRows'
  BY <1>1 DEF HeldRows, HeldSetLoan, HeldDeletion, HeldPayment, HeldStatus, HeldRefund, OnFile
<1>4. References'
  BY <1>1 DEF References, OnFile
<1>5. DeletedWasIdle'
  BY <1>1 DEF DeletedWasIdle
<1>6. ASSUME NEW p \in PaymentIds, p \notin excused' PROVE RefundsAlone(p)'
  BY <1>1, <1>6 DEF RefundsAlone, IsFullRefund, Refunding, Asking
<1> QED BY <1>2, <1>3, <1>4, <1>5, <1>6

-----------------------------------------------------------------------------
\* A row that is inserted takes an id nothing refers to.
LEMMA NewIdFacts ==
    ASSUME NewIds # {}
    PROVE  NewId \in PaymentIds /\ paymentRows[NewId] = Unused
BY DEF NewIds, NewId

LEMMA InsertionKeepsReferences ==
    ASSUME LoansInv, NEW n \in PaymentIds, paymentRows[n] = Unused, NEW row \in PaymentRow,
           paymentRows' = [paymentRows EXCEPT ![n] = row], UNCHANGED <<loanRows, booked>>,
           row.loan \in booked, loanRows[row.loan].user = row.user,
           row.of # "none" => paymentRows[row.of] \in PaymentRow /\ paymentRows[row.of].loan = row.loan
    PROVE  /\ References'
           /\ paymentRows'[n] = row /\ \A p \in PaymentIds \ {n} : paymentRows'[p] = paymentRows[p]
           /\ paymentRows' = [p \in PaymentIds |-> paymentRows'[p]]
<1> USE RowFacts, LoanRoutesAssumption DEF LoansInv
<1>1. /\ paymentRows'[n] = row /\ \A p \in PaymentIds \ {n} : paymentRows'[p] = paymentRows[p]
      /\ paymentRows' = [p \in PaymentIds |-> paymentRows'[p]]
  BY DEF RowTypes
<1>2. \A a \in booked' : OnFile(a)'
  BY DEF References, OnFile
<1>3. ASSUME NEW p \in PaymentIds, paymentRows'[p] \in PaymentRow
      PROVE  LET r == paymentRows'[p] IN
             /\ r.loan \in booked' /\ loanRows'[r.loan].user = r.user
             /\ r.of # "none" => paymentRows'[r.of] \in PaymentRow /\ paymentRows'[r.of].loan = r.loan
  <2> DEFINE r == paymentRows'[p]
  <2>1. r.of # "none" => r.of \in PaymentIds
    BY <1>3 DEF PaymentRow
  <2>2. CASE p = n
    BY <1>1, <2>1, <2>2
  <2>3. CASE p # n
    <3>1. paymentRows[p] = r /\ r \in PaymentRow
      BY <1>1, <1>3, <2>3
    <3>2. /\ r.loan \in booked /\ loanRows[r.loan].user = r.user
          /\ r.of # "none" => paymentRows[r.of] \in PaymentRow /\ paymentRows[r.of].loan = r.loan
      BY <3>1 DEF References
    <3> QED BY <1>1, <2>1, <3>2
  <2> QED BY <2>2, <2>3
<1> QED BY <1>1, <1>2, <1>3 DEF References

\* Who holds a payment or a refund is not disturbed by the insertion of a row.
LEMMA InsertionKeepsHeld ==
    ASSUME LoansInv, NEW n \in PaymentIds, paymentRows[n] = Unused, UNCHANGED <<loanRows, booked, overtaken>>,
           \A p \in PaymentIds \ {n} : paymentRows'[p] = paymentRows[p],
           NEW c, HeldOne(c)
    PROVE  HeldOne(c)'
BY RowFacts DEF HeldOne, HeldSetLoan, HeldDeletion, HeldPayment, HeldStatus, HeldRefund, OnFile

LEMMA InsertPaymentKeeps ==
    ASSUME LoansInv, NEW k \in Clients, InsertPayment(k)
    PROVE  LoansInv'
<1> USE RowFacts, LoanRoutesAssumption DEF LoansInv
<1>1. HeldPayment(asking[k])
  BY DEF InsertPayment, Asking, HeldRows, HeldSetLoan, HeldDeletion, HeldPayment, HeldStatus, HeldRefund, Resting
<1>2. PICK row : row = asking[k].row
  OBVIOUS
<1>3. /\ asking'[k] = Resting /\ \A j \in Clients \ {k} : asking'[j] = asking[j]
      /\ UNCHANGED <<loanRows, booked, overtaken, excused>> /\ asking' = [j \in Clients |-> asking'[j]]
  BY DEF InsertPayment, RowTypes
<1>4. CASE row.loan \notin booked
  <2>1. UNCHANGED paymentRows
    BY <1>2, <1>4 DEF InsertPayment
  <2>2. RowTypes'
    BY <1>3, <2>1 DEF RowTypes
  <2>3. HeldRows'
    BY <1>3, <2>1 DEF HeldRows, HeldSetLoan, HeldDeletion, HeldPayment, HeldStatus, HeldRefund, OnFile
  <2>4. References' /\ DeletedWasIdle'
    BY <1>3, <2>1 DEF References, DeletedWasIdle, OnFile
  <2>5. ASSUME NEW p \in PaymentIds, p \notin excused' PROVE RefundsAlone(p)'
    BY <1>1, <1>3, <2>1, <2>5, RefundsKept DEF Asking, HeldPayment
  <2> QED BY <2>2, <2>3, <2>4, <2>5
<1>5. CASE row.loan \in booked
  <2>1. PICK n : n = NewId
    OBVIOUS
  <2>2. NewIds # {} /\ paymentRows' = [paymentRows EXCEPT ![n] = row]
    BY <1>2, <1>5, <2>1 DEF InsertPayment
  <2>3. n \in PaymentIds /\ paymentRows[n] = Unused
    BY <2>1, <2>2, NewIdFacts
  <2>4. row \in PaymentRow /\ row.of = "none"
    BY <1>1, <1>2 DEF HeldPayment
  <2>5. loanRows[row.loan].user = row.user
    BY <1>1, <1>2, <1>5 DEF HeldPayment, References
  <2>6. /\ References' /\ paymentRows'[n] = row
        /\ \A p \in PaymentIds \ {n} : paymentRows'[p] = paymentRows[p]
        /\ paymentRows' = [p \in PaymentIds |-> paymentRows'[p]]
    BY <1>3, <1>5, <2>2, <2>3, <2>4, <2>5, InsertionKeepsReferences
  <2>7. RowTypes'
    BY <1>3, <2>4, <2>6 DEF RowTypes
  <2>8. HeldRows'
    <3> SUFFICES ASSUME NEW j \in Clients PROVE HeldOne(asking[j])'
      BY DEF HeldRows, HeldOne
    <3>1. PICK c : c = asking'[j]
      OBVIOUS
    <3>2. HeldOne(c)
      BY <1>3, <3>1 DEF HeldRows, HeldOne
    <3>3. HeldOne(c)'
      BY <1>3, <2>3, <2>6, <3>2, InsertionKeepsHeld
    <3> QED BY <3>1, <3>3 DEF HeldOne, HeldSetLoan, HeldDeletion, HeldPayment, HeldStatus, HeldRefund
  <2>9. DeletedWasIdle'
    BY <1>3 DEF DeletedWasIdle
  <2>10. ASSUME NEW p \in PaymentIds, p \notin excused' PROVE RefundsAlone(p)'
    <3>1. RefundsAlone(p)
      BY <1>3, <2>10
    <3>2. ASSUME NEW r \in PaymentIds, IsFullRefund(r, p)' PROVE IsFullRefund(r, p) /\ p # n
      <4>1. r # n
        BY <2>4, <2>6, <3>2 DEF IsFullRefund
      <4>2. paymentRows[r] \in PaymentRow /\ paymentRows[r].of = p
        BY <2>6, <3>2, <4>1 DEF IsFullRefund
      <4>3. paymentRows[p] \in PaymentRow
        BY <4>2 DEF References
      <4> QED BY <2>3, <2>6, <3>2, <4>1, <4>2, <4>3 DEF IsFullRefund
    <3>3. \A j \in Clients : Refunding(j, p)' => Refunding(j, p)
      BY <1>3 DEF Refunding, Asking, Resting
    <3>4. \A j \in Clients : (Asking(j, "insertRefund") /\ asking[j].row.of = p)' => Asking(j, "insertRefund") /\ asking[j].row.of = p
      BY <1>3 DEF Asking, Resting
    <3>5. \A j \in Clients : Asking(j, "setPayment") /\ asking[j].by = "refund" /\ asking[j].payment = p
                              => (Asking(j, "setPayment") /\ asking[j].by = "refund" /\ asking[j].payment = p)'
      BY <1>1, <1>3 DEF Asking, HeldPayment
    <3>6. \A i, j \in Clients : Refunding(i, p)' /\ Refunding(j, p)' => i = j
      BY <3>1, <3>3 DEF RefundsAlone
    <3>7. \A r, s \in PaymentIds : IsFullRefund(r, p)' /\ IsFullRefund(s, p)' => r = s
      BY <3>1, <3>2 DEF RefundsAlone
    <3>8. ASSUME NEW r \in PaymentIds, IsFullRefund(r, p)'
          PROVE  /\ \A j \in Clients : ~(Asking(j, "insertRefund") /\ asking[j].row.of = p)'
                 /\ \/ paymentRows'[p].status # "completed"
                    \/ \E j \in Clients : (Asking(j, "setPayment") /\ asking[j].by = "refund" /\ asking[j].payment = p)'
      BY <2>6, <3>1, <3>2, <3>4, <3>5, <3>8 DEF RefundsAlone
    <3> QED BY <3>6, <3>7, <3>8 DEF RefundsAlone
  <2> QED BY <2>6, <2>7, <2>8, <2>9, <2>10
<1> QED BY <1>4, <1>5

LEMMA InsertRefundKeeps ==
    ASSUME LoansInv, NEW k \in Clients, InsertRefund(k)
    PROVE  LoansInv'
<1> USE RowFacts, LoanRoutesAssumption DEF LoansInv
<1>1. HeldRefund(asking[k]) /\ asking[k].pc = "insertRefund"
  BY DEF InsertRefund, Asking, HeldRows, HeldSetLoan, HeldDeletion, HeldPayment, HeldStatus, HeldRefund, Resting
<1>2. PICK row, full, n : row = asking[k].row /\ full = asking[k].full /\ n = NewId
  OBVIOUS
<1>3. NewIds # {} /\ paymentRows' = [paymentRows EXCEPT ![n] = row]
  BY <1>2 DEF InsertRefund
<1>4. n \in PaymentIds /\ paymentRows[n] = Unused
  BY <1>2, <1>3, NewIdFacts
<1> DEFINE old == row.of
<1>5. /\ row \in PaymentRow /\ old \in PaymentIds /\ paymentRows[old] \in PaymentRow
      /\ row.loan = paymentRows[old].loan /\ row.user = paymentRows[old].user
      /\ full <=> (row.amount = -paymentRows[old].amount)
  BY <1>1, <1>2 DEF HeldRefund
<1>6. /\ UNCHANGED <<loanRows, booked, overtaken, excused>> /\ asking' = [j \in Clients |-> asking'[j]]
      /\ \A j \in Clients \ {k} : asking'[j] = asking[j]
      /\ full => asking'[k] = [pc |-> "setPayment", payment |-> old, status |-> "refunded", by |-> "refund"]
      /\ ~full => asking'[k] = Resting
  BY <1>2 DEF InsertRefund, RowTypes
<1>7. row.loan \in booked /\ loanRows[row.loan].user = row.user
  BY <1>5 DEF References
<1>8. /\ References' /\ paymentRows'[n] = row
      /\ \A p \in PaymentIds \ {n} : paymentRows'[p] = paymentRows[p]
      /\ paymentRows' = [p \in PaymentIds |-> paymentRows'[p]]
  BY <1>3, <1>4, <1>5, <1>6, <1>7, InsertionKeepsReferences
<1>9. RowTypes'
  BY <1>5, <1>6, <1>8 DEF RowTypes
<1>10. old # n
  BY <1>4, <1>5
<1> HIDE DEF old
<1>11. HeldRows'
  <2> SUFFICES ASSUME NEW j \in Clients PROVE HeldOne(asking[j])'
    BY DEF HeldRows, HeldOne
  <2>1. CASE j # k
    <3>1. PICK c : c = asking'[j]
      OBVIOUS
    <3>2. HeldOne(c)
      BY <1>6, <2>1, <3>1 DEF HeldRows, HeldOne
    <3>3. HeldOne(c)'
      BY <1>4, <1>6, <1>8, <3>2, InsertionKeepsHeld
    <3> QED BY <3>1, <3>3 DEF HeldOne, HeldSetLoan, HeldDeletion, HeldPayment, HeldStatus, HeldRefund
  <2>2. CASE j = k /\ ~full
    BY <1>6, <2>2 DEF HeldOne
  <2>3. CASE j = k /\ full
    <3>1. paymentRows'[old] \in PaymentRow
      BY <1>5, <1>8, <1>10
    <3> QED BY <1>5, <1>6, <2>3, <3>1 DEF HeldOne, HeldStatus
  <2> QED BY <2>1, <2>2, <2>3
<1>12. DeletedWasIdle'
  BY <1>6 DEF DeletedWasIdle
<1>13. ASSUME NEW p \in PaymentIds, p \notin excused' PROVE RefundsAlone(p)'
  <2>1. RefundsAlone(p)
    BY <1>6, <1>13
  <2>2. ASSUME NEW r \in PaymentIds, r # n, IsFullRefund(r, p)' PROVE IsFullRefund(r, p) /\ p # n
    <3>1. paymentRows[r] \in PaymentRow /\ paymentRows[r].of = p
      BY <1>8, <2>2 DEF IsFullRefund
    <3>2. paymentRows[p] \in PaymentRow
      BY <3>1 DEF References
    <3> QED BY <1>4, <1>8, <2>2, <3>1, <3>2 DEF IsFullRefund
  <2>3. IsFullRefund(n, p)' => p = old /\ full
    BY <1>5, <1>8, <1>10 DEF IsFullRefund, old
  <2>4. p = old => \A r \in PaymentIds : ~IsFullRefund(r, p)
    BY <1>1, <1>2, <2>1 DEF RefundsAlone, Asking, old
  <2>5. \A j \in Clients : Refunding(j, p)' => Refunding(j, p)
    BY <1>1, <1>2, <1>6 DEF Refunding, Asking, Resting, old
  <2>6. \A i, j \in Clients : Refunding(i, p)' /\ Refunding(j, p)' => i = j
    BY <2>1, <2>5 DEF RefundsAlone
  <2>7. \A r, s \in PaymentIds : IsFullRefund(r, p)' /\ IsFullRefund(s, p)' => r = s
    BY <2>1, <2>2, <2>3, <2>4 DEF RefundsAlone
  <2>8. ASSUME NEW r \in PaymentIds, IsFullRefund(r, p)'
        PROVE  /\ \A j \in Clients : ~(Asking(j, "insertRefund") /\ asking[j].row.of = p)'
               /\ \/ paymentRows'[p].status # "completed"
                  \/ \E j \in Clients : (Asking(j, "setPayment") /\ asking[j].by = "refund" /\ asking[j].payment = p)'
    <3>1. CASE r = n
      <4>1. p = old /\ full
        BY <2>3, <2>8, <3>1
      <4>2. (Asking(k, "setPayment") /\ asking[k].by = "refund" /\ asking[k].payment = p)'
        BY <1>6, <4>1 DEF Asking
      <4>3. ASSUME NEW j \in Clients, (Asking(j, "insertRefund") /\ asking[j].row.of = p)' PROVE FALSE
        <5>1. j # k
          BY <1>6, <4>1, <4>3 DEF Asking
        <5>2. Refunding(j, p) /\ Refunding(k, p)
          BY <1>1, <1>2, <1>6, <4>1, <4>3, <5>1 DEF Refunding, Asking, old
        <5> QED BY <2>1, <5>1, <5>2 DEF RefundsAlone
      <4> QED BY <4>2, <4>3
    <3>2. CASE r # n
      <4>1. IsFullRefund(r, p) /\ p # n
        BY <2>2, <2>8, <3>2
      <4>2. \A j \in Clients : (Asking(j, "insertRefund") /\ asking[j].row.of = p)' => Asking(j, "insertRefund") /\ asking[j].row.of = p
        BY <1>6 DEF Asking, Resting
      <4>3. \A j \in Clients : Asking(j, "setPayment") /\ asking[j].by = "refund" /\ asking[j].payment = p
                                => (Asking(j, "setPayment") /\ asking[j].by = "refund" /\ asking[j].payment = p)'
        BY <1>1, <1>6 DEF Asking
      <4> QED BY <1>8, <2>1, <4>1, <4>2, <4>3 DEF RefundsAlone
    <3> QED BY <3>1, <3>2
  <2> QED BY <2>6, <2>7, <2>8 DEF RefundsAlone
<1> QED BY <1>8, <1>9, <1>11, <1>12, <1>13

LEMMA SetPaymentKeeps ==
    ASSUME LoansInv, NEW k \in Clients, SetPayment(k)
    PROVE  LoansInv'
<1> USE RowFacts, LoanRoutesAssumption DEF LoansInv
<1>1. HeldStatus(asking[k]) /\ asking[k].pc = "setPayment"
  BY DEF SetPayment, Asking, HeldRows, HeldSetLoan, HeldDeletion, HeldPayment, HeldStatus, HeldRefund, Resting
<1>2. PICK n, fate, by : n = asking[k].payment /\ fate = asking[k].status /\ by = asking[k].by
  OBVIOUS
<1>3. /\ n \in PaymentIds /\ paymentRows[n] \in PaymentRow
      /\ fate \in {"pending", "completed", "failed", "cancelled", "refunded"}
      /\ by = "refund" => fate = "refunded"
      /\ by \in {"hand", "refund"}
  BY <1>1, <1>2 DEF HeldStatus
<1>4. paymentRows' = [paymentRows EXCEPT ![n].status = fate]
  BY <1>2 DEF SetPayment
<1>5. /\ paymentRows'[n] = [paymentRows[n] EXCEPT !.status = fate]
      /\ \A p \in PaymentIds \ {n} : paymentRows'[p] = paymentRows[p]
      /\ paymentRows' = [p \in PaymentIds |-> paymentRows'[p]]
  BY <1>3, <1>4 DEF RowTypes
<1>6. /\ paymentRows'[n] \in PaymentRow /\ paymentRows'[n].status = fate
      /\ paymentRows'[n].loan = paymentRows[n].loan /\ paymentRows'[n].user = paymentRows[n].user
      /\ paymentRows'[n].of = paymentRows[n].of /\ paymentRows'[n].amount = paymentRows[n].amount
  BY <1>3, <1>5 DEF PaymentRow
<1>7. \A p \in PaymentIds : /\ paymentRows'[p] \in PaymentRow <=> paymentRows[p] \in PaymentRow
                            /\ paymentRows'[p].loan = paymentRows[p].loan /\ paymentRows'[p].user = paymentRows[p].user
                            /\ paymentRows'[p].of = paymentRows[p].of /\ paymentRows'[p].amount = paymentRows[p].amount
  BY <1>3, <1>5, <1>6
<1>8. /\ UNCHANGED <<loanRows, booked, overtaken>> /\ asking' = [j \in Clients |-> asking'[j]]
      /\ asking'[k] = Resting /\ \A j \in Clients \ {k} : asking'[j] = asking[j]
      /\ excused \subseteq excused' /\ excused' \subseteq PaymentIds
  BY <1>2, <1>3 DEF SetPayment, RowTypes
<1>9. RowTypes'
  BY <1>5, <1>6, <1>8 DEF RowTypes
<1>10. HeldRows'
  <2> SUFFICES ASSUME NEW j \in Clients PROVE HeldOne(asking[j])'
    BY DEF HeldRows, HeldOne
  <2>1. CASE j = k
    BY <1>8, <2>1 DEF HeldOne
  <2>2. CASE j # k
    <3>1. HeldOne(asking[j]) /\ asking'[j] = asking[j]
      BY <1>8, <2>2 DEF HeldRows, HeldOne
    <3>2. CASE HeldRefund(asking[j])
      BY <1>7, <3>1, <3>2 DEF HeldOne, HeldRefund
    <3>3. CASE HeldStatus(asking[j])
      BY <1>7, <3>1, <3>3 DEF HeldOne, HeldStatus
    <3> QED BY <1>8, <3>1, <3>2, <3>3 DEF HeldOne, HeldSetLoan, HeldDeletion, HeldPayment, OnFile
  <2> QED BY <2>1, <2>2
<1>11. References'
  <2>1. ASSUME NEW p \in PaymentIds, paymentRows'[p] \in PaymentRow
        PROVE  LET r == paymentRows'[p] IN
               /\ r.loan \in booked' /\ loanRows'[r.loan].user = r.user
               /\ r.of # "none" => paymentRows'[r.of] \in PaymentRow /\ paymentRows'[r.of].loan = r.loan
    <3>1. paymentRows[p].of # "none" => paymentRows[p].of \in PaymentIds
      BY <1>7, <2>1 DEF PaymentRow
    <3> QED BY <1>7, <1>8, <2>1, <3>1 DEF References
  <2> QED BY <1>8, <2>1 DEF References, OnFile
<1>12. DeletedWasIdle'
  BY <1>8 DEF DeletedWasIdle
<1>13. ASSUME NEW p \in PaymentIds, p \notin excused' PROVE RefundsAlone(p)'
  <2>1. RefundsAlone(p)
    BY <1>8, <1>13
  <2>2. \A r \in PaymentIds : IsFullRefund(r, p)' <=> IsFullRefund(r, p)
    BY <1>7 DEF IsFullRefund
  <2>3. \A j \in Clients : Refunding(j, p)' => Refunding(j, p)
    BY <1>8 DEF Refunding, Asking, Resting
  <2>4. \A j \in Clients : (Asking(j, "insertRefund") /\ asking[j].row.of = p)' => Asking(j, "insertRefund") /\ asking[j].row.of = p
    BY <1>8 DEF Asking, Resting
  <2>5. \A i, j \in Clients : Refunding(i, p)' /\ Refunding(j, p)' => i = j
    BY <2>1, <2>3 DEF RefundsAlone
  <2>6. \A r, s \in PaymentIds : IsFullRefund(r, p)' /\ IsFullRefund(s, p)' => r = s
    BY <2>1, <2>2 DEF RefundsAlone
  <2>7. ASSUME NEW r \in PaymentIds, IsFullRefund(r, p)
        PROVE  \/ paymentRows'[p].status # "completed"
               \/ \E j \in Clients : (Asking(j, "setPayment") /\ asking[j].by = "refund" /\ asking[j].payment = p)'
    <3>1. CASE p = n /\ by = "refund"
      BY <1>3, <1>6, <3>1
    <3>2. CASE p = n /\ by # "refund"
      <4>1. OnRecord(paymentRows[r]) /\ paymentRows[r].of = p
        BY <2>7 DEF IsFullRefund, OnRecord, PaymentRow, Unused, Expired
      <4>2. p \in excused'
        BY <1>2, <1>3, <3>2, <4>1 DEF SetPayment
      <4> QED BY <1>13, <4>2
    <3>3. CASE p # n
      <4>1. ASSUME NEW j \in Clients, Asking(j, "setPayment"), asking[j].by = "refund", asking[j].payment = p
            PROVE  (Asking(j, "setPayment") /\ asking[j].by = "refund" /\ asking[j].payment = p)'
        BY <1>2, <1>8, <3>3, <4>1 DEF Asking
      <4> QED BY <1>5, <2>1, <2>7, <3>3, <4>1 DEF RefundsAlone
    <3> QED BY <3>1, <3>2, <3>3
  <2>8. \A r \in PaymentIds : IsFullRefund(r, p) =>
            \A j \in Clients : ~(Asking(j, "insertRefund") /\ asking[j].row.of = p)'
    BY <2>1, <2>4 DEF RefundsAlone
  <2> QED BY <2>2, <2>5, <2>6, <2>7, <2>8 DEF RefundsAlone
<1> QED BY <1>9, <1>10, <1>11, <1>12, <1>13

-----------------------------------------------------------------------------
LEMMA LoansStep ==
    ASSUME LoansInv, LoansNext
    PROVE  LoansInv'
<1>1. CASE \E a \in Loans : BookLoan(a)
  BY <1>1, BookingKeeps
<1>2. ASSUME NEW k \in Clients, asking[k] = Resting,
             \/ createLoanApplication(k) \/ updateLoanStatus(k) \/ deleteLoan(k)
             \/ createPayment(k) \/ processPayment(k) \/ refundPayment(k)
      PROVE  LoansInv'
  BY <1>2, CreationKeeps, FirstStatementsKeep
<1>3. ASSUME NEW k \in Clients,
             SetLoan(k) \/ RemoveLoan(k) \/ InsertPayment(k) \/ SetPayment(k) \/ InsertRefund(k)
      PROVE  LoansInv'
  BY <1>3, SetLoanKeeps, RemovalKeeps, InsertPaymentKeeps, SetPaymentKeeps, InsertRefundKeeps
<1> QED BY <1>1, <1>2, <1>3 DEF LoansNext

LEMMA LoansStutter ==
    ASSUME LoansInv, UNCHANGED LoansVars
    PROVE  LoansInv'
<1>1. UNCHANGED <<loanRows, booked, paymentRows, asking, overtaken, excused>>
  BY DEF LoansVars
<1>2. RowTypes'
  BY <1>1 DEF LoansInv, RowTypes
<1>3. HeldRows'
  <2>1. ASSUME NEW c, HeldOne(c) PROVE HeldOne(c)'
    BY <1>1, <2>1 DEF HeldOne, HeldSetLoan, HeldDeletion, HeldPayment, HeldStatus, HeldRefund, OnFile
  <2>2. ASSUME NEW k \in Clients PROVE HeldOne(asking[k])'
    <3>1. PICK c : c = asking[k]
      OBVIOUS
    <3>2. HeldOne(c)
      BY <3>1 DEF LoansInv, HeldRows, HeldOne
    <3>3. HeldOne(c)' /\ c = asking'[k]
      BY <1>1, <2>1, <3>1, <3>2
    <3> QED BY <3>3 DEF HeldOne, HeldSetLoan, HeldDeletion, HeldPayment, HeldStatus, HeldRefund
  <2> QED BY <2>2 DEF HeldRows, HeldOne
<1>4. References' /\ DeletedWasIdle'
  BY <1>1 DEF LoansInv, References, DeletedWasIdle, OnFile
<1>5. ASSUME NEW p \in PaymentIds, p \notin excused' PROVE RefundsAlone(p)'
  <2>1. RefundsAlone(p)
    BY <1>1, <1>5 DEF LoansInv
  <2> QED BY <1>1, <2>1 DEF RefundsAlone, IsFullRefund, Refunding, Asking
<1> QED BY <1>2, <1>3, <1>4, <1>5 DEF LoansInv

LEMMA LoansInvSuffices ==
    ASSUME LoansInv
    PROVE  DeletedWasIdle /\ PaymentsKeepTheirLoan /\ RefundedOnce
<1> USE RowFacts DEF LoansInv
<1>1. ASSUME NEW p \in PaymentIds PROVE OnRecord(paymentRows[p]) <=> paymentRows[p] \in PaymentRow
  <2>1. \A r \in PaymentRow : r # Expired
    BY DEF PaymentRow, Expired
  <2> QED BY <2>1 DEF OnRecord, RowTypes
<1>2. PaymentsKeepTheirLoan
  <2> SUFFICES ASSUME NEW p \in PaymentIds, OnRecord(paymentRows[p])
               PROVE  LET row == paymentRows[p] IN
                      /\ OnFile(row.loan) /\ loanRows[row.loan].user = row.user
                      /\ LoanShown(row.user, row.loan) /\ PaymentShown(row.user, p)
                      /\ row.of # "none" => OnRecord(paymentRows[row.of]) /\ paymentRows[row.of].loan = row.loan
    BY DEF PaymentsKeepTheirLoan
  <2> DEFINE row == paymentRows[p]
  <2>1. row \in PaymentRow
    BY <1>1
  <2>2. /\ row.loan \in booked /\ loanRows[row.loan].user = row.user
        /\ row.of # "none" => paymentRows[row.of] \in PaymentRow /\ paymentRows[row.of].loan = row.loan
    BY <2>1 DEF References
  <2>3. OnFile(row.loan)
    BY <2>2 DEF References
  <2>4. row.of # "none" => OnRecord(paymentRows[row.of])
    BY <1>1, <2>1, <2>2 DEF PaymentRow
  <2> QED BY <2>2, <2>3, <2>4 DEF LoanShown, PaymentShown, ListedPayments
<1>3. RefundedOnce
  <2> SUFFICES ASSUME NEW p \in PaymentIds \ excused
               PROVE  Cardinality({r \in PaymentIds : OnRecord(paymentRows[r]) /\ paymentRows[r].of = p
                                                      /\ paymentRows[r].amount = -paymentRows[p].amount}) <= 1
    BY DEF RefundedOnce
  <2> DEFINE S == {r \in PaymentIds : OnRecord(paymentRows[r]) /\ paymentRows[r].of = p
                                      /\ paymentRows[r].amount = -paymentRows[p].amount}
  <2>1. \A r, s \in S : r = s
    <3>1. RefundsAlone(p)
      OBVIOUS
    <3>2. \A r \in S : r \in PaymentIds /\ IsFullRefund(r, p)
      BY <1>1 DEF IsFullRefund
    <3> QED BY <3>1, <3>2 DEF RefundsAlone
  <2> HIDE DEF S
  <2>2. S = {} => Cardinality(S) = 0
    BY FS_EmptySet
  <2>3. ASSUME S # {} PROVE Cardinality(S) = 1
    <3>1. PICK r : r \in S
      BY <2>3
    <3>2. S = {r}
      BY <2>1, <3>1
    <3>3. Cardinality({r}) = 1
      BY FS_Singleton
    <3> QED BY <3>2, <3>3
  <2>4. Cardinality(S) <= 1
    BY <2>2, <2>3
  <2> QED BY <2>4 DEF S
<1> QED BY <1>2, <1>3

\* Whatever the handlers' statements interleave with: an application is deleted while idle or
\* overtaken, payments and refunds keep their application and its borrower, and a payment is
\* refunded in full once, but for the exceptions the properties name.
THEOREM LoanRowsAreKept == LoansSpec => [](DeletedWasIdle /\ PaymentsKeepTheirLoan /\ RefundedOnce)
<1>1. LoansInit => LoansInv
  BY LoansInitially
<1>2. LoansInv /\ [LoansNext]_LoansVars => LoansInv'
  BY LoansStep, LoansStutter
<1>3. LoansInv => DeletedWasIdle /\ PaymentsKeepTheirLoan /\ RefundedOnce
  BY LoansInvSuffices
<1> QED BY <1>1, <1>2, <1>3, PTL DEF LoansSpec

-----------------------------------------------------------------------------
(***************************************************************************)
(* What is believed of a service rests on checks that ended: in the health *)
(* monitor, in the gateway's registry and in the deployment scripts, for   *)
(* any services, checks in flight, histories, instances and images.        *)
(***************************************************************************)
\* The health monitor.

CheckInFlight == [pc : {"check"}, service : Services, attempt : Nat]

HealthTypes ==
    /\ registered \subseteq Services
    /\ health \in [Services -> Health \union {NoHealth}]
    /\ results \in [Services -> Seq(BOOLEAN)]
    /\ checking \in [Checks -> {Resting} \union CheckInFlight]

\* Of f failures and the results r: the last f failed, the one before them did not.
Counted(f, r) ==
    /\ \A i \in 1 .. Len(r) : i > Len(r) - f => ~r[i]
    /\ f < Len(r) => r[Len(r) - f]

\* What is known of a service is what its results say.
Recorded(h, r) == IF h = NoHealth THEN Len(r) = 0 ELSE Len(r) > 0 /\ Counted(h.failures, r)

\* What a check in flight will file is about a service that is registered, or crossed.
ChecksAreWatched == \A c \in InFlight : checking[c].service \in registered \union crossed

HealthInv == HealthTypes /\ ChecksAreWatched /\ FailuresAreCounted /\ OnlyWatchedCount

LEMMA HealthFacts ==
    /\ NoHealth \notin Health
    /\ Resting \notin CheckInFlight
    /\ \A c \in CheckInFlight : c.service \in Services /\ c.attempt \in Nat
    /\ \A c \in CheckInFlight : LET next == [c EXCEPT !.attempt = @ + 1] IN
                                next \in CheckInFlight /\ next.service = c.service
    /\ \A h \in Health : h.failures \in Nat
<1>1. NoHealth \notin Health
  <2> SUFFICES ASSUME NoHealth \in Health PROVE FALSE
    OBVIOUS
  <2>1. NoHealth.status \in Statuses
    BY DEF Health
  <2> QED BY <2>1 DEF NoHealth, Statuses
<1>2. Resting \notin CheckInFlight
  <2> SUFFICES ASSUME Resting \in CheckInFlight PROVE FALSE
    OBVIOUS
  <2>1. Resting.pc = "check"
    BY DEF CheckInFlight
  <2> QED BY <2>1 DEF Resting
<1> QED BY <1>1, <1>2 DEF CheckInFlight, Health

LEMMA TailIsCounted ==
    ASSUME NEW a \in Seq(BOOLEAN), Len(a) > 1, NEW g \in Nat, Counted(g, a)
    PROVE  Tail(a) \in Seq(BOOLEAN) /\ Len(Tail(a)) > 0 /\ Counted(g, Tail(a))
<1> DEFINE b == Tail(a)
<1>1. Len(a) \in Nat /\ a # <<>>
  OBVIOUS
<1>2. b \in Seq(BOOLEAN) /\ Len(b) = Len(a) - 1 /\ \A i \in 1 .. Len(b) : b[i] = a[i + 1]
  BY <1>1, HeadTailProperties
<1> HIDE DEF b
<1>3. ASSUME NEW i \in 1 .. Len(b), i > Len(b) - g PROVE ~b[i]
  <2>1. i + 1 \in 1 .. Len(a) /\ i + 1 > Len(a) - g
    BY <1>1, <1>2, <1>3
  <2> QED BY <1>2, <2>1 DEF Counted
<1>4. ASSUME g < Len(b) PROVE b[Len(b) - g]
  <2>1. g < Len(a) /\ Len(a) - g = Len(b) - g + 1 /\ Len(b) - g \in 1 .. Len(b)
    BY <1>1, <1>2, <1>4
  <2>2. b[Len(b) - g] = a[Len(a) - g]
    BY <1>2, <2>1
  <2> QED BY <2>1, <2>2 DEF Counted
<1>5. Len(b) > 0
  BY <1>1, <1>2
<1>6. b \in Seq(BOOLEAN) /\ Len(b) > 0 /\ Counted(g, b)
  BY <1>2, <1>3, <1>4, <1>5 DEF Counted
<1> QED BY <1>6 DEF b

\* A result filed behind the others, of which the oldest may go, is counted.
LEMMA FiledIsCounted ==
    ASSUME NEW r \in Seq(BOOLEAN), NEW f \in Nat, Counted(f, r), NEW answered \in BOOLEAN,
           NEW filed,
           filed = IF Len(Append(r, answered)) > KeptResults THEN Tail(Append(r, answered)) ELSE Append(r, answered)
    PROVE  filed \in Seq(BOOLEAN) /\ Len(filed) > 0 /\ Counted(IF answered THEN 0 ELSE f + 1, filed)
<1> DEFINE a == Append(r, answered)
           g == IF answered THEN 0 ELSE f + 1
<1>1. a \in Seq(BOOLEAN) /\ Len(a) = Len(r) + 1 /\ a[Len(r) + 1] = answered /\ \A i \in 1 .. Len(r) : a[i] = r[i]
  OBVIOUS
<1>2. Len(r) \in Nat /\ g \in Nat
  OBVIOUS
<1>3. Counted(g, a)
  <2>1. ASSUME NEW i \in 1 .. Len(a), i > Len(a) - g PROVE ~a[i]
    <3>1. ~answered /\ g = f + 1
      BY <1>1, <1>2, <2>1
    <3>2. CASE i = Len(r) + 1
      BY <1>1, <3>1, <3>2
    <3>3. CASE i # Len(r) + 1
      <4>1. i \in 1 .. Len(r) /\ i > Len(r) - f
        BY <1>1, <1>2, <2>1, <3>1, <3>3
      <4> QED BY <1>1, <4>1 DEF Counted
    <3> QED BY <3>2, <3>3
  <2>2. ASSUME g < Len(a) PROVE a[Len(a) - g]
    <3>1. CASE answered
      <4>1. Len(a) - g = Len(r) + 1
        BY <1>1, <1>2, <3>1
      <4> QED BY <1>1, <4>1, <3>1
    <3>2. CASE ~answered
      <4>1. Len(a) - g = Len(r) - f /\ f < Len(r) /\ Len(r) - f \in 1 .. Len(r)
        BY <1>1, <1>2, <2>2, <3>2
      <4> QED BY <1>1, <4>1 DEF Counted
    <3> QED BY <3>1, <3>2
  <2> QED BY <2>1, <2>2 DEF Counted
<1>4. CASE ~(Len(a) > KeptResults)
  BY <1>1, <1>2, <1>3, <1>4
<1>5. CASE Len(a) > KeptResults
  <2>1. filed = Tail(a)
    BY <1>5
  <2>2. Len(a) > 1
    BY <1>1, <1>2, <1>5, HealthAssumption
  <2> HIDE DEF a, g
  <2>3. filed \in Seq(BOOLEAN) /\ Len(filed) > 0 /\ Counted(g, filed)
    BY <1>1, <1>2, <1>3, <2>1, <2>2, TailIsCounted
  <2> QED BY <2>3 DEF g
<1> QED BY <1>4, <1>5

LEMMA HealthInitially == HealthInit => HealthInv
<1> SUFFICES ASSUME HealthInit PROVE HealthInv
  OBVIOUS
<1>1. HealthTypes
  BY DEF HealthInit, HealthTypes
<1>2. ChecksAreWatched
  BY DEF HealthInit, ChecksAreWatched, InFlight
<1>3. FailuresAreCounted
  BY DEF HealthInit, FailuresAreCounted
<1>4. OnlyWatchedCount
  BY DEF HealthInit, OnlyWatchedCount
<1> QED BY <1>1, <1>2, <1>3, <1>4 DEF HealthInv

\* A check that begins does so for a service that is registered.
LEMMA BeginKeeps ==
    ASSUME HealthInv, NEW s \in Services, Begin(s), s \in registered', registered \subseteq registered',
           registered' \subseteq Services, UNCHANGED <<health, results, crossed>>
    PROVE  HealthInv'
<1> USE HealthFacts DEF HealthInv
<1>1. PICK c \in Checks : checking' = [checking EXCEPT ![c] = [pc |-> "check", service |-> s, attempt |-> 0]]
  BY DEF Begin
<1>2. [pc |-> "check", service |-> s, attempt |-> 0] \in CheckInFlight
  BY DEF CheckInFlight
<1>3. HealthTypes'
  BY <1>1, <1>2 DEF HealthTypes
<1>4. ChecksAreWatched'
  <2> SUFFICES ASSUME NEW d \in InFlight' PROVE checking'[d].service \in registered' \union crossed'
    BY DEF ChecksAreWatched
  <2>1. CASE d = c
    BY <1>1, <2>1 DEF HealthTypes
  <2>2. CASE d # c
    <3>1. d \in InFlight /\ checking'[d] = checking[d]
      BY <1>1, <2>2 DEF InFlight, HealthTypes
    <3> QED BY <3>1 DEF ChecksAreWatched
  <2> QED BY <2>1, <2>2
<1>5. FailuresAreCounted'
  BY DEF FailuresAreCounted
<1>6. OnlyWatchedCount'
  BY DEF OnlyWatchedCount
<1> QED BY <1>3, <1>4, <1>5, <1>6

LEMMA UnregisterKeeps ==
    ASSUME HealthInv, NEW s \in Services, unregisterService(s)
    PROVE  HealthInv'
<1> USE HealthFacts DEF HealthInv
<1>1. /\ registered' = registered \ {s} /\ health' = [health EXCEPT ![s] = NoHealth]
      /\ results' = [results EXCEPT ![s] = <<>>] /\ checking' = checking
      /\ crossed \subseteq crossed' /\ ((\E c \in InFlight : checking[c].service = s) => s \in crossed')
  BY DEF unregisterService
<1>2. HealthTypes'
  BY <1>1 DEF HealthTypes
<1>3. InFlight' = InFlight
  BY <1>1 DEF InFlight
<1>4. ChecksAreWatched'
  BY <1>1, <1>3 DEF ChecksAreWatched
<1>5. FailuresAreCounted'
  <2> SUFFICES ASSUME NEW x \in Services
               PROVE  Recorded(health'[x], results'[x])
    BY DEF FailuresAreCounted, Recorded, Counted
  <2>1. CASE x = s
    BY <1>1, <2>1 DEF HealthTypes, Recorded
  <2>2. CASE x # s
    <3>1. health'[x] = health[x] /\ results'[x] = results[x]
      BY <1>1, <2>2 DEF HealthTypes
    <3> QED BY <3>1 DEF FailuresAreCounted, Recorded, Counted
  <2> QED BY <2>1, <2>2
<1>6. OnlyWatchedCount'
  <2> SUFFICES ASSUME NEW x \in Services, health'[x] # NoHealth PROVE x \in registered' \union crossed'
    BY DEF OnlyWatchedCount
  <2>1. x # s /\ health'[x] = health[x]
    BY <1>1 DEF HealthTypes
  <2> QED BY <1>1, <2>1 DEF OnlyWatchedCount
<1> QED BY <1>2, <1>4, <1>5, <1>6

\* What a check in flight files when it ends.
LEMMA FilingKeeps ==
    ASSUME HealthInv, NEW c \in InFlight, NEW outcome \in Statuses, NEW answered \in BOOLEAN,
           updateHealthCheck(checking[c].service, outcome, answered),
           checking' = [checking EXCEPT ![c] = Resting], UNCHANGED <<registered, crossed>>
    PROVE  HealthInv'
<1> USE HealthFacts DEF HealthInv
<1> DEFINE s == checking[c].service
           f == IF health[s] = NoHealth THEN 0 ELSE health[s].failures
           g == IF answered THEN 0 ELSE f + 1
           a == Append(results[s], answered)
           filed == IF Len(a) > KeptResults THEN Tail(a) ELSE a
<1>1. c \in Checks /\ checking[c] \in CheckInFlight /\ s \in Services /\ s \in registered \union crossed
  BY DEF InFlight, HealthTypes, ChecksAreWatched
<1>2. /\ health' = [health EXCEPT ![s] = [status |-> outcome, failures |-> g]]
      /\ results' = [results EXCEPT ![s] = filed]
  BY DEF updateHealthCheck
<1>3. f \in Nat /\ g \in Nat /\ results[s] \in Seq(BOOLEAN)
  BY <1>1 DEF HealthTypes
<1>4. Counted(f, results[s])
  <2>1. CASE health[s] = NoHealth
    <3>1. f = 0 /\ Len(results[s]) = 0
      BY <1>1, <2>1 DEF FailuresAreCounted
    <3> QED BY <3>1 DEF Counted
  <2>2. CASE health[s] # NoHealth
    BY <1>1, <2>2 DEF FailuresAreCounted, Counted
  <2> QED BY <2>1, <2>2
<1>5. filed \in Seq(BOOLEAN) /\ Len(filed) > 0 /\ Counted(g, filed)
  <2> HIDE DEF s
  <2>1. filed = IF Len(Append(results[s], answered)) > KeptResults THEN Tail(Append(results[s], answered))
               ELSE Append(results[s], answered)
    OBVIOUS
  <2> HIDE DEF filed
  <2> QED BY <1>3, <1>4, <2>1, FiledIsCounted
<1> HIDE DEF filed, g, f
<1>6. [status |-> outcome, failures |-> g] \in Health /\ [status |-> outcome, failures |-> g].failures = g
  BY <1>3 DEF Health
<1>7. HealthTypes'
  <2>1. checking' \in [Checks -> {Resting} \union CheckInFlight]
    BY DEF HealthTypes
  <2> QED BY <1>1, <1>2, <1>5, <1>6, <2>1 DEF HealthTypes
<1>8. ChecksAreWatched'
  <2> SUFFICES ASSUME NEW d \in InFlight' PROVE checking'[d].service \in registered' \union crossed'
    BY DEF ChecksAreWatched
  <2>1. d \in InFlight /\ checking'[d] = checking[d]
    BY <1>1 DEF InFlight, HealthTypes
  <2> QED BY <2>1 DEF ChecksAreWatched
<1>9. health'[s] = [status |-> outcome, failures |-> g] /\ results'[s] = filed
      /\ \A x \in Services \ {s} : health'[x] = health[x] /\ results'[x] = results[x]
  BY <1>1, <1>2 DEF HealthTypes
<1>10. FailuresAreCounted'
  <2> SUFFICES ASSUME NEW x \in Services
               PROVE  Recorded(health'[x], results'[x])
    BY DEF FailuresAreCounted, Recorded, Counted
  <2>1. CASE x = s
    BY <1>5, <1>6, <1>9, <2>1 DEF Recorded
  <2>2. CASE x # s
    BY <1>9, <2>2 DEF FailuresAreCounted, Recorded, Counted
  <2> QED BY <2>1, <2>2
<1>11. OnlyWatchedCount'
  BY <1>1, <1>9 DEF OnlyWatchedCount
<1> QED BY <1>7, <1>8, <1>10, <1>11

LEMMA HealthStep == HealthInv /\ HealthNext => HealthInv'
<1> SUFFICES ASSUME HealthInv, HealthNext PROVE HealthInv'
  OBVIOUS
<1>1. CASE checkSystemResources
  BY <1>1 DEF checkSystemResources, HealthInv, HealthTypes, ChecksAreWatched, FailuresAreCounted,
              OnlyWatchedCount, InFlight
<1>2. ASSUME NEW s \in Services, registerService(s) PROVE HealthInv'
  BY <1>2, BeginKeeps DEF registerService, HealthInv, HealthTypes
<1>3. ASSUME NEW s \in Services, unregisterService(s) PROVE HealthInv'
  BY <1>3, UnregisterKeeps
<1>4. ASSUME NEW s \in Services, performHealthCheck(s) PROVE HealthInv'
  BY <1>4, BeginKeeps DEF performHealthCheck, HealthInv, HealthTypes
<1>5. ASSUME NEW c \in Checks, NoAnswer(c) PROVE HealthInv'
  <2>1. CASE checking[c].attempt + 1 < Retries
    <3> USE HealthFacts DEF HealthInv
    <3>1. c \in InFlight /\ checking' = [checking EXCEPT ![c] = [checking[c] EXCEPT !.attempt = @ + 1]]
          /\ UNCHANGED <<health, results, registered, crossed>>
      BY <1>5, <2>1 DEF NoAnswer
    <3>2. checking[c] \in CheckInFlight
      BY <3>1 DEF InFlight, HealthTypes
    <3>3. HealthTypes'
      BY <3>1, <3>2 DEF HealthTypes
    <3>4. checking'[c].service = checking[c].service /\ \A d \in Checks \ {c} : checking'[d] = checking[d]
      BY <3>1, <3>2 DEF HealthTypes
    <3>5. InFlight' \subseteq InFlight
      BY <3>1, <3>4 DEF InFlight
    <3>6. ChecksAreWatched'
      <4> SUFFICES ASSUME NEW d \in InFlight' PROVE checking'[d].service \in registered' \union crossed'
        BY DEF ChecksAreWatched
      <4>1. d \in InFlight /\ checking'[d].service = checking[d].service
        BY <3>4, <3>5 DEF InFlight
      <4> QED BY <3>1, <4>1 DEF ChecksAreWatched
    <3> QED BY <3>1, <3>3, <3>6 DEF FailuresAreCounted, OnlyWatchedCount
  <2>2. CASE ~(checking[c].attempt + 1 < Retries)
    <3>1. c \in InFlight /\ updateHealthCheck(checking[c].service, "unhealthy", FALSE)
          /\ checking' = [checking EXCEPT ![c] = Resting] /\ UNCHANGED <<registered, crossed>>
      BY <1>5, <2>2 DEF NoAnswer
    <3> QED BY <3>1, FilingKeeps DEF Statuses
  <2> QED BY <2>1, <2>2
<1>6. ASSUME NEW c \in Checks, NEW answer \in Answers, Answered(c, answer) PROVE HealthInv'
  <2>1. checkServiceHealth(answer) \in Statuses
    BY DEF checkServiceHealth, Statuses
  <2> DEFINE outcome == checkServiceHealth(answer)
  <2>2. c \in InFlight /\ updateHealthCheck(checking[c].service, outcome, TRUE)
        /\ checking' = [checking EXCEPT ![c] = Resting] /\ UNCHANGED <<registered, crossed>>
    BY <1>6 DEF Answered
  <2> HIDE DEF outcome
  <2>3. outcome \in Statuses
    BY <2>1 DEF outcome
  <2> QED BY <2>2, <2>3, FilingKeeps
<1> QED BY <1>1, <1>2, <1>3, <1>4, <1>5, <1>6 DEF HealthNext

LEMMA HealthStutter == HealthInv /\ UNCHANGED HealthVars => HealthInv'
BY DEF HealthInv, HealthVars, HealthTypes, ChecksAreWatched, FailuresAreCounted, OnlyWatchedCount, InFlight

\* However checks of a service overlap, and whenever it is unregistered or registered again: its
\* failures are counted as they were, and only what is watched, or was while a check ran, counts.
THEOREM MonitorIsFounded == HealthSpec => [](FailuresAreCounted /\ OnlyWatchedCount)
<1>1. HealthInv => FailuresAreCounted /\ OnlyWatchedCount
  BY DEF HealthInv
<1> QED BY HealthInitially, HealthStep, HealthStutter, <1>1, PTL DEF HealthSpec
-----------------------------------------------------------------------------
\* The gateway's registry.

Ids == GatewayServices \X (Instances \union {"1"})
Instance == [id : Ids, healthy : BOOLEAN]

RegistryTypes ==
    /\ known \subseteq GatewayServices
    /\ status \in [GatewayServices -> {"unknown", "healthy", "unhealthy"}]
    /\ instances \in [GatewayServices -> SUBSET Instance]

\* The ids of an instance name its service, so that vouching for one service's instances says
\* nothing of another's.
IdsAreOwn == \A s \in GatewayServices : \A i \in instances[s] : i.id[1] = s

\* Instances may be added before their service is registered, and are then vouched for.
AddedAreVouched == \A s \in GatewayServices \ known : \A i \in instances[s] : i.healthy => i.id \in vouched

RegistryInv == RegistryTypes /\ IdsAreOwn /\ AddedAreVouched /\ HealthyOnGoodNews

LEMMA RegistryInitially == RegistryInit => RegistryInv
BY DEF RegistryInit, RegistryInv, RegistryTypes, IdsAreOwn, AddedAreVouched, HealthyOnGoodNews

LEMMA PrimaryFacts ==
    ASSUME NEW s \in GatewayServices
    PROVE  Primary(s) \in Instance /\ Primary(s).id[1] = s /\ ~Primary(s).healthy
BY DEF Primary, Instance, Ids

LEMMA RegistrationKeeps ==
    ASSUME RegistryInv, NEW s \in GatewayServices, registerGatewayService(s)
    PROVE  RegistryInv'
<1> USE DEF RegistryInv
<1>1. /\ known' = known \union {s} /\ status' = [status EXCEPT ![s] = "unhealthy"]
      /\ vouched \subseteq vouched'
      /\ \A x \in GatewayServices \ {s} : instances'[x] = instances[x] /\ status'[x] = status[x]
      /\ s \in known => instances' = instances /\ \A i \in instances[s] : i.id \in vouched'
      /\ s \notin known => instances' = [instances EXCEPT ![s] = @ \union {Primary(s)}]
  BY DEF registerGatewayService, RegistryTypes
<1>2. RegistryTypes'
  BY <1>1, PrimaryFacts DEF RegistryTypes
<1>3. \A i \in instances'[s] : i \in instances[s] \/ i = Primary(s)
  BY <1>1 DEF RegistryTypes
<1>4. IdsAreOwn'
  BY <1>1, <1>3, PrimaryFacts DEF IdsAreOwn
<1>5. AddedAreVouched'
  BY <1>1 DEF AddedAreVouched
<1>6. \A i \in instances'[s] : i.healthy => i.id \in vouched'
  BY <1>1, <1>3, PrimaryFacts DEF AddedAreVouched
<1>7. HealthyOnGoodNews'
  <2> SUFFICES ASSUME NEW x \in known', NEW i \in instances'[x], i.healthy, i.id \notin vouched'
               PROVE  status'[x] = "healthy"
    BY DEF HealthyOnGoodNews
  <2>1. x # s /\ x \in known
    BY <1>1, <1>6
  <2>2. x \in GatewayServices \ {s}
    BY <2>1 DEF RegistryTypes
  <2>3. i \in instances[x] /\ i.id \notin vouched /\ status'[x] = status[x]
    BY <1>1, <2>2
  <2> QED BY <2>1, <2>3 DEF HealthyOnGoodNews
<1> QED BY <1>2, <1>4, <1>5, <1>7

LEMMA AdditionKeeps ==
    ASSUME RegistryInv, NEW s \in GatewayServices, NEW id \in Instances, NEW healthy \in BOOLEAN,
           addServiceInstance(s, id, healthy)
    PROVE  RegistryInv'
<1> USE DEF RegistryInv
<1> DEFINE new == [id |-> <<s, id>>, healthy |-> healthy]
<1>1. new \in Instance /\ new.id = <<s, id>> /\ new.id[1] = s
  BY DEF Instance, Ids
<1>2. /\ UNCHANGED <<known, status>> /\ vouched' = vouched \union {new.id}
      /\ instances' = [instances EXCEPT ![s] = @ \union {new}]
  BY DEF addServiceInstance
<1> HIDE DEF new
<1>3. RegistryTypes'
  BY <1>1, <1>2 DEF RegistryTypes
<1>4. \A x \in GatewayServices : \A i \in instances'[x] : i \in instances[x] \/ (x = s /\ i = new)
  <2>1. instances'[s] = instances[s] \union {new}
    BY <1>2 DEF RegistryTypes
  <2>2. \A x \in GatewayServices \ {s} : instances'[x] = instances[x]
    BY <1>2 DEF RegistryTypes
  <2> QED BY <2>1, <2>2
<1>5. IdsAreOwn'
  BY <1>1, <1>4 DEF IdsAreOwn
<1>6. AddedAreVouched'
  BY <1>2, <1>4 DEF AddedAreVouched
<1>7. HealthyOnGoodNews'
  BY <1>2, <1>4 DEF HealthyOnGoodNews, RegistryTypes
<1> QED BY <1>3, <1>5, <1>6, <1>7

\* An instance that goes takes what was vouched for with it, and no other has its id.
LEMMA RemovalOfInstanceKeeps ==
    ASSUME RegistryInv, NEW s \in GatewayServices, NEW id, removeServiceInstance(s, id)
    PROVE  RegistryInv'
<1> USE DEF RegistryInv
<1>1. /\ UNCHANGED <<known, status>> /\ vouched' = vouched \ {<<s, id>>}
      /\ instances' = [instances EXCEPT ![s] = {i \in @ : i.id # <<s, id>>}]
  BY DEF removeServiceInstance
<1>2. RegistryTypes'
  BY <1>1 DEF RegistryTypes
<1>3. \A x \in GatewayServices : \A i \in instances'[x] : i \in instances[x] /\ i.id # <<s, id>>
  <2> SUFFICES ASSUME NEW x \in GatewayServices, NEW i \in instances'[x] PROVE i \in instances[x] /\ i.id # <<s, id>>
    OBVIOUS
  <2>1. CASE x = s
    BY <1>1, <2>1 DEF RegistryTypes
  <2>2. CASE x # s
    <3>1. i \in instances[x]
      BY <1>1, <2>2 DEF RegistryTypes
    <3>2. i.id[1] = x /\ <<s, id>>[1] = s
      BY <3>1 DEF IdsAreOwn
    <3> QED BY <2>2, <3>1, <3>2
  <2> QED BY <2>1, <2>2
<1>4. \A x \in GatewayServices : \A i \in instances'[x] : i.id \in vouched => i.id \in vouched'
  BY <1>1, <1>3
<1>5. IdsAreOwn'
  BY <1>3 DEF IdsAreOwn
<1>6. AddedAreVouched'
  BY <1>1, <1>3, <1>4 DEF AddedAreVouched
<1>7. HealthyOnGoodNews'
  BY <1>1, <1>3, <1>4 DEF HealthyOnGoodNews, RegistryTypes
<1> QED BY <1>2, <1>5, <1>6, <1>7

\* News of a service replaces what was vouched for.
LEMMA NewsKeep ==
    ASSUME RegistryInv, NEW s, NEW news \in {"healthy", "unhealthy", "undefined"},
           updateServiceHealth(s, news), UNCHANGED known
    PROVE  RegistryInv'
<1> USE DEF RegistryInv
<1> DEFINE renew(i) == [i EXCEPT !.healthy = InstanceHealth(news)]
<1>1. s \in GatewayServices
  BY DEF updateServiceHealth, RegistryTypes
<1>2. /\ status' = IF news = "undefined" THEN status ELSE [status EXCEPT ![s] = news]
      /\ instances' = [instances EXCEPT ![s] = {renew(i) : i \in @}]
      /\ vouched' = vouched \ {i.id : i \in instances[s]}
  BY DEF updateServiceHealth
<1>3. \A i \in Instance : renew(i) \in Instance /\ renew(i).id = i.id /\ (renew(i).healthy <=> news = "healthy")
  BY DEF Instance, InstanceHealth
<1> HIDE DEF renew
<1>4. RegistryTypes'
  <2>1. status' \in [GatewayServices -> {"unknown", "healthy", "unhealthy"}]
    BY <1>2 DEF RegistryTypes
  <2>2. instances' \in [GatewayServices -> SUBSET Instance]
    BY <1>1, <1>2, <1>3 DEF RegistryTypes
  <2> QED BY <2>1, <2>2 DEF RegistryTypes
<1>5. \A i \in instances'[s] : i.id[1] = s /\ (i.healthy <=> news = "healthy")
  BY <1>1, <1>2, <1>3 DEF RegistryTypes, IdsAreOwn
<1>6. news = "healthy" => status'[s] = "healthy"
  BY <1>1, <1>2 DEF RegistryTypes
<1>7. \A x \in GatewayServices \ {s} : instances'[x] = instances[x] /\ status'[x] = status[x]
  BY <1>1, <1>2 DEF RegistryTypes
<1>8. \A x \in GatewayServices \ {s} : \A i \in instances[x] : i.id \in vouched => i.id \in vouched'
  <2> SUFFICES ASSUME NEW x \in GatewayServices \ {s}, NEW i \in instances[x], NEW j \in instances[s] PROVE i.id # j.id
    BY <1>2
  <2>1. i.id[1] = x /\ j.id[1] = s
    BY <1>1 DEF IdsAreOwn
  <2> QED BY <2>1
<1>9. IdsAreOwn'
  BY <1>5, <1>7 DEF IdsAreOwn
<1>10. s \in known
  BY DEF updateServiceHealth
<1>11. AddedAreVouched'
  BY <1>7, <1>8, <1>10 DEF AddedAreVouched
<1>12. HealthyOnGoodNews'
  BY <1>5, <1>6, <1>7, <1>8 DEF HealthyOnGoodNews, RegistryTypes
<1> QED BY <1>4, <1>9, <1>11, <1>12

LEMMA RegistryStutter == RegistryInv /\ UNCHANGED <<known, status, instances, vouched>> => RegistryInv'
BY DEF RegistryInv, RegistryTypes, IdsAreOwn, AddedAreVouched, HealthyOnGoodNews

LEMMA RegistryStep == RegistryInv /\ RegistryNext => RegistryInv'
<1> SUFFICES ASSUME RegistryInv, RegistryNext PROVE RegistryInv'
  OBVIOUS
<1>1. ASSUME NEW s \in GatewayServices, registerGatewayService(s) PROVE RegistryInv'
  BY <1>1, RegistrationKeeps
<1>2. ASSUME NEW s \in GatewayServices, recordServiceCall(s) PROVE RegistryInv'
  BY <1>2, NewsKeep DEF recordServiceCall
<1>3. ASSUME NEW s \in GatewayServices, NEW id \in Instances, NEW healthy \in BOOLEAN,
             addServiceInstance(s, id, healthy)
      PROVE RegistryInv'
  BY <1>3, AdditionKeeps
<1>4. ASSUME NEW s \in GatewayServices, NEW id \in Instances \union {"1"}, removeServiceInstance(s, id)
      PROVE RegistryInv'
  BY <1>4, RemovalOfInstanceKeeps
<1>5. ASSUME NEW p \in Probes, NEW s \in GatewayServices, performHealthChecks(p, s) PROVE RegistryInv'
  BY <1>5, RegistryStutter DEF performHealthChecks
<1>6. ASSUME NEW p \in Probes, NEW news \in {"healthy", "unhealthy"}, ProbeEnds(p, news) PROVE RegistryInv'
  BY <1>6, NewsKeep DEF ProbeEnds
<1> QED BY <1>1, <1>2, <1>3, <1>4, <1>5, <1>6 DEF RegistryNext

\* However slow probes overtake each other and whatever is added, removed or registered again:
\* an instance counts as healthy beyond its service only while somebody vouches for it.
THEOREM RegistryIsFounded == RegistrySpec => []HealthyOnGoodNews
<1>1. RegistryInv /\ UNCHANGED RegistryVars => RegistryInv'
  BY RegistryStutter DEF RegistryVars
<1>2. RegistryInv => HealthyOnGoodNews
  BY DEF RegistryInv
<1> QED BY RegistryInitially, RegistryStep, <1>1, <1>2, PTL DEF RegistrySpec
-----------------------------------------------------------------------------
\* The deployment: deploy.sh.

\* Steps before anything on the server is replaced, and from then on unless it failed.
Preparing == {"start", "prerequisites", "build", "test", "copy"}
Serving == {"migrate", "stage 1", "stage 2", "stage 3", "stage 4", "verify", "monitoring", "cleanup", "completed"}

\* Where the script has got to says what has arrived.
ArrivedByStep == step \in Serving => transferred = Images /\ built = Images
\* What is new on the server stays when the script fails, so it is not tied to the step alone.
NewWhenArrived == renewed # {} \/ schema = "new" => transferred = Images /\ built = Images /\ step \notin Preparing
VerifiedByForce == step \in {"monitoring", "cleanup", "completed"} => options.force

DeployInv == up \subseteq Images /\ ArrivedByStep /\ NewWhenArrived /\ VerifiedByForce

LEMMA DeployInitially == DeploymentInit => DeployInv
BY DEF DeploymentInit, DeployInv, ArrivedByStep, NewWhenArrived, VerifiedByForce, Serving, Preparing

LEMMA StageFacts ==
    ASSUME NEW n \in DOMAIN Stages
    PROVE  /\ StageNames[n] \in {"stage 1", "stage 2", "stage 3", "stage 4"}
           /\ AfterStage(n) \in {"stage 2", "stage 3", "stage 4", "verify"}
<1>1. Len(Stages) \in Nat /\ DOMAIN Stages = 1 .. Len(Stages) /\ Len(Stages) <= 4
  BY DeploymentAssumption, LenProperties
<1>2. n \in {1, 2, 3, 4} /\ (n # Len(Stages) => n \in {1, 2, 3})
  BY <1>1
<1>3. StageNames[n] \in {"stage 1", "stage 2", "stage 3", "stage 4"}
  <2>1. /\ StageNames[1] = "stage 1" /\ StageNames[2] = "stage 2"
        /\ StageNames[3] = "stage 3" /\ StageNames[4] = "stage 4"
    BY DEF StageNames
  <2> QED BY <1>2, <2>1
<1>4. n # Len(Stages) => StageNames[n + 1] \in {"stage 2", "stage 3", "stage 4"}
  <2>1. StageNames[1 + 1] = "stage 2" /\ StageNames[2 + 1] = "stage 3" /\ StageNames[3 + 1] = "stage 4"
    BY DEF StageNames
  <2> QED BY <1>2, <2>1
<1> QED BY <1>3, <1>4 DEF AfterStage

\* No image is called "http", which is all that verify_deployment asks for.
LEMMA NothingIsReachable ==
    ASSUME DeployInv
    PROVE  ~ \A image \in Images : Reachable(Endpoint(image))
<1>1. PICK image \in Images : TRUE
  BY DeploymentAssumption
<1>2. Endpoint(image) = "http"
  BY DEF Endpoint
<1>3. ~ Reachable(Endpoint(image))
  BY <1>2, DeploymentAssumption DEF Reachable, DeployInv
<1> QED BY <1>3

LEMMA DeployStep == DeployInv /\ DeploymentNext => DeployInv'
<1> SUFFICES ASSUME DeployInv, DeploymentNext PROVE DeployInv'
  OBVIOUS
<1> USE DEF DeployInv, ArrivedByStep, NewWhenArrived, VerifiedByForce, Serving, Preparing, To, Exits,
            UnchangedServer, UnchangedWait
<1>1. ASSUME NEW works \in BOOLEAN, check_prerequisites(works) PROVE DeployInv'
  BY <1>1 DEF check_prerequisites
<1>2. ASSUME NEW ready \in BOOLEAN, test_deployment(ready) PROVE DeployInv'
  BY <1>2 DEF test_deployment
<1>3. ASSUME NEW works \in BOOLEAN, setup_monitoring(works) PROVE DeployInv'
  BY <1>3 DEF setup_monitoring
<1>4. ASSUME NEW works \in BOOLEAN, cleanupDeployment(works) PROVE DeployInv'
  BY <1>4 DEF cleanupDeployment
<1>5. ASSUME NEW works \in BOOLEAN, NEW image \in Images, build_images(image, works) PROVE DeployInv'
  <2>1. step = "build" /\ step' \in {"build", "test", "failed"}
        /\ UNCHANGED <<options, transferred, schema, renewed, up>>
    BY <1>5 DEF build_images
  <2> QED BY <2>1
<1>6. ASSUME NEW works \in BOOLEAN, NEW loads \in SUBSET Images, deploy_remote(works, loads) PROVE DeployInv'
  <2>1. step = "copy" /\ UNCHANGED <<options, built, schema, renewed, up>>
    BY <1>6 DEF deploy_remote
  <2>2. CASE works /\ Saved # {}
    <3>1. transferred' = Images /\ built = Images /\ step' = "migrate"
      BY <1>6, <2>2 DEF deploy_remote, Saved
    <3> QED BY <2>1, <3>1
  <2>3. CASE ~(works /\ Saved # {})
    <3>1. step' = "failed"
      BY <1>6, <2>3 DEF deploy_remote
    <3> QED BY <2>1, <3>1
  <2> QED BY <2>2, <2>3
<1>7. ASSUME NEW works \in BOOLEAN, NEW n \in DOMAIN Stages, NEW started \in SUBSET Images,
             deploy_services(n, works, started)
      PROVE DeployInv'
  <2>1. step \in Serving /\ step' \in {"stage 2", "stage 3", "stage 4", "verify", "failed"}
        /\ UNCHANGED <<options, built, transferred, schema, up>>
    BY <1>7, StageFacts DEF deploy_services
  <2> QED BY <2>1
<1>8. ASSUME NEW works \in BOOLEAN, NEW migrates \in BOOLEAN, run_migrations(works, migrates) PROVE DeployInv'
  BY <1>8 DEF run_migrations
<1>9. CASE verify_deployment
  BY <1>9, NothingIsReachable DEF verify_deployment
<1>10. ASSUME NEW arguments, NEW images, main(arguments, images) PROVE DeployInv'
  BY <1>10 DEF main
<1> QED BY <1>1, <1>2, <1>3, <1>4, <1>5, <1>6, <1>7, <1>8, <1>9, <1>10 DEF DeploymentNext

-----------------------------------------------------------------------------
\* The deployment: wait-for-health.sh.

WaitingFor ==
    [pc : {"wait"}, successful : SUBSET Images, failed : SUBSET Images, image : Images, checks : Int]
Waits == [pc : {"unused", "exit 0", "exit 1"}]
         \union [pc : {"pick"}, successful : SUBSET Images, failed : SUBSET Images]
         \union WaitingFor

WaitInv ==
    /\ waiting \in Waits /\ HealthyWasSeen
    /\ waiting.pc = "wait" => waiting.image \notin waiting.successful \union waiting.failed

LEMMA WaitInitially == DeploymentInit => WaitInv
BY DEF DeploymentInit, WaitInv, Waits, WaitingFor, HealthyWasSeen

LEMMA WaitStutter == WaitInv /\ UNCHANGED <<waiting, seen>> => WaitInv'
BY DEF WaitInv, HealthyWasSeen

LEMMA WaitStep == WaitInv /\ WaitNext => WaitInv'
<1> SUFFICES ASSUME WaitInv, WaitNext PROVE WaitInv'
  OBVIOUS
<1>1. ASSUME NEW ready \in BOOLEAN, wait_for_infrastructure(ready) PROVE WaitInv'
  BY <1>1 DEF wait_for_infrastructure, WaitInv, Waits, WaitingFor, HealthyWasSeen
<1>2. ASSUME NEW image \in Images, pick_service(image) PROVE WaitInv'
  <2>1. waiting.pc = "pick" /\ waiting.successful \in SUBSET Images /\ waiting.failed \in SUBSET Images
    BY <1>2 DEF pick_service, WaitInv, Waits, WaitingFor
  <2>2. /\ waiting' = [pc |-> "wait", successful |-> waiting.successful, failed |-> waiting.failed,
                       image |-> image, checks |-> 0]
        /\ seen' = seen /\ image \notin waiting.successful \union waiting.failed
    BY <1>2 DEF pick_service, Handled
  <2>3. waiting' \in Waits
    <3>1. waiting' \in WaitingFor
      BY <2>1, <2>2 DEF WaitingFor
    <3> QED BY <3>1 DEF Waits, WaitingFor
  <2>4. waiting.successful = seen /\ waiting.successful \intersect waiting.failed = {}
    BY <2>1 DEF WaitInv, HealthyWasSeen
  <2>5. /\ waiting'.pc = "wait" /\ waiting'.successful = seen' /\ waiting'.successful \intersect waiting'.failed = {}
        /\ waiting'.image \notin waiting'.successful \union waiting'.failed
    BY <2>2, <2>4
  <2> QED BY <2>3, <2>5 DEF WaitInv, HealthyWasSeen
<1>3. ASSUME NEW image \in Images, ServiceMoves(image) PROVE WaitInv'
  BY <1>3, WaitStutter DEF ServiceMoves, UnchangedWait
<1>4. CASE wait_for_service
  <2>1. /\ waiting.pc = "wait" /\ waiting.successful \in SUBSET Images /\ waiting.failed \in SUBSET Images
        /\ waiting.image \in Images /\ waiting.checks \in Int
        /\ waiting \in WaitingFor
    BY <1>4 DEF wait_for_service, WaitInv, Waits, WaitingFor
  <2>2. waiting.image \notin waiting.successful \union waiting.failed /\ waiting.successful = seen
        /\ waiting.successful \intersect waiting.failed = {}
    BY <2>1 DEF WaitInv, HealthyWasSeen
  <2>3. CASE waiting.image \in up
    <3>1. /\ waiting' = [pc |-> "pick", successful |-> waiting.successful \union {waiting.image}, failed |-> waiting.failed]
          /\ seen' = seen \union {waiting.image}
      BY <1>4, <2>3 DEF wait_for_service
    <3>2. waiting' \in Waits
      BY <2>1, <3>1 DEF Waits, WaitingFor
    <3> QED BY <2>1, <2>2, <3>1, <3>2 DEF WaitInv, HealthyWasSeen
  <2>4. CASE waiting.image \notin up /\ waiting.checks + 1 < MaxChecks
    <3>1. waiting' = [waiting EXCEPT !.checks = @ + 1] /\ seen' = seen
      <4>1. ~(waiting.checks + 1 >= MaxChecks)
        BY <2>1, <2>4, DeploymentAssumption
      <4> QED BY <1>4, <2>4, <4>1 DEF wait_for_service
    <3>2. /\ waiting' \in Waits /\ waiting'.pc = "wait" /\ waiting'.successful = waiting.successful
          /\ waiting'.failed = waiting.failed /\ waiting'.image = waiting.image
      <4>1. waiting' = [pc |-> "wait", successful |-> waiting.successful, failed |-> waiting.failed,
                        image |-> waiting.image, checks |-> waiting.checks + 1]
        BY <2>1, <3>1 DEF WaitingFor
      <4>2. waiting' \in WaitingFor
        BY <2>1, <4>1 DEF WaitingFor
      <4> QED BY <4>1, <4>2 DEF Waits, WaitingFor
    <3>3. /\ waiting'.successful = seen' /\ waiting'.successful \intersect waiting'.failed = {}
          /\ waiting'.image \notin waiting'.successful \union waiting'.failed
      BY <2>2, <3>1, <3>2
    <3> QED BY <3>2, <3>3 DEF WaitInv, HealthyWasSeen
  <2>5. CASE waiting.image \notin up /\ ~(waiting.checks + 1 < MaxChecks)
    <3>1. waiting.checks + 1 >= MaxChecks
      BY <2>1, <2>5, DeploymentAssumption
    <3>2. /\ waiting' = [pc |-> "pick", successful |-> waiting.successful, failed |-> GivenUp]
          /\ seen' = seen
      BY <1>4, <2>5, <3>1 DEF wait_for_service
    <3>3. waiting' \in Waits
      BY <2>1, <3>2 DEF Waits, GivenUp
    <3> QED BY <2>1, <2>2, <3>2, <3>3 DEF WaitInv, HealthyWasSeen, GivenUp
  <2> QED BY <2>3, <2>4, <2>5
<1>5. CASE report
  <2>1. waiting.pc = "pick" /\ Handled = Images /\ waiting' = [pc |-> Verdict] /\ seen' = seen
    BY <1>5 DEF report
  <2>2. waiting.successful = seen
    BY <2>1 DEF WaitInv, HealthyWasSeen
  <2>3. Verdict \in {"exit 0", "exit 1"} /\ (Verdict = "exit 0" => seen = Images)
    BY <2>1, <2>2 DEF Verdict, Handled
  <2>4. waiting' \in Waits /\ waiting'.pc = Verdict
    BY <2>1, <2>3 DEF Waits, WaitingFor
  <2> QED BY <2>1, <2>3, <2>4 DEF WaitInv, HealthyWasSeen
<1> QED BY <1>1, <1>2, <1>3, <1>4, <1>5 DEF WaitNext

\* The scripts do not touch what the other one keeps.
LEMMA DeployIgnoresWait == DeployInv /\ WaitNext => DeployInv'
<1> SUFFICES ASSUME DeployInv, WaitNext PROVE DeployInv'
  OBVIOUS
<1>1. UNCHANGED <<options, step, built, transferred, schema, renewed>> /\ up' \subseteq Images
  <2> USE DEF DeployInv, UnchangedDeploy
  <2>1. ASSUME NEW image \in Images, ServiceMoves(image)
        PROVE UNCHANGED <<options, step, built, transferred, schema, renewed>> /\ up' \subseteq Images
    BY <2>1 DEF ServiceMoves
  <2> QED BY <2>1 DEF WaitNext, wait_for_infrastructure, pick_service, wait_for_service, report
<1> QED BY <1>1 DEF DeployInv, ArrivedByStep, NewWhenArrived, VerifiedByForce

LEMMA WaitIgnoresDeploy == DeploymentNext => UNCHANGED <<waiting, seen>>
BY DEF DeploymentNext, check_prerequisites, test_deployment, setup_monitoring, cleanupDeployment, build_images,
       deploy_remote, deploy_services, run_migrations, verify_deployment, main, UnchangedWait

ScriptsInv == DeployInv /\ WaitInv

LEMMA ScriptsStep == ScriptsInv /\ (DeploymentNext \/ WaitNext \/ UNCHANGED DeploymentVars) => ScriptsInv'
<1>1. DeployInv /\ UNCHANGED DeploymentVars => DeployInv'
  BY DEF DeploymentVars, DeployInv, ArrivedByStep, NewWhenArrived, VerifiedByForce
<1>2. WaitInv /\ UNCHANGED DeploymentVars => WaitInv'
  BY WaitStutter DEF DeploymentVars
<1> QED BY <1>1, <1>2, DeployStep, WaitStep, WaitStutter, DeployIgnoresWait, WaitIgnoresDeploy DEF ScriptsInv

LEMMA ScriptsSuffice == ScriptsInv => NothingRenewedInPart /\ HealthyWasSeen
BY DEF ScriptsInv, DeployInv, WaitInv, NewWhenArrived, VerifiedByForce, NothingRenewedInPart

\* For any images and stages, whatever fails on either side: services are replaced only with
\* every image there, "completed" needs force, and exit 0 has seen every service answer.
THEOREM DeploymentIsFounded == DeploymentSpec => [](NothingRenewedInPart /\ HealthyWasSeen)
<1>1. DeploymentInit => ScriptsInv
  BY DeployInitially, WaitInitially DEF ScriptsInv
<1>2. ScriptsInv /\ [DeploymentNext \/ WaitNext]_DeploymentVars => ScriptsInv'
  BY ScriptsStep
<1> QED BY <1>1, <1>2, ScriptsSuffice, PTL DEF DeploymentSpec

-----------------------------------------------------------------------------
(***************************************************************************)
(* Requests and tokens that are limited, for any clients, identifiers,     *)
(* windows and buckets.                                                    *)
(***************************************************************************)
\* A bucket's tokens with those it granted are what it held and has earned until its last
\* refill, rounded down then; what passed the window is in the window.
BucketHonest(i) ==
    /\ granted[i] \in Nat /\ openedAt[i] \in Nat
    /\ bucket[i] = NoBucket => granted[i] = 0
    /\ bucket[i] # NoBucket =>
           /\ bucket[i] \in [tokens : 0 .. BucketSize, lastRefill : Ticks]
           /\ openedAt[i] <= bucket[i].lastRefill /\ bucket[i].lastRefill <= tick
           /\ bucket[i].tokens + granted[i] <= BucketSize + (bucket[i].lastRefill - openedAt[i]) \div Refill
Covers(others, times, now) == \A t \in Ticks : t > now - WindowSize => times[t] <= others[t]
LimiterInv ==
    /\ tick \in Ticks
    /\ window \in [Identifiers -> [Ticks -> Nat]] /\ passed \in [Identifiers -> [Ticks -> Nat]]
    /\ \A i \in Identifiers : Covers(window[i], passed[i], tick) /\ SumFunction(passed[i]) <= MaxRequests
    /\ blocked \in [Identifiers -> 0 .. LastTick + BlockDuration]
    /\ bucket = [i \in Identifiers |-> bucket[i]] /\ granted = [i \in Identifiers |-> granted[i]]
    /\ openedAt = [i \in Identifiers |-> openedAt[i]]
    /\ \A i \in Identifiers : BucketHonest(i)
    /\ \A k \in Clients : limiting[k] = Resting \/ limiting[k].id \in Identifiers
    /\ limiting = [k \in Clients |-> limiting[k]]

LEMMA TicksAre == IsFiniteSet(Ticks) /\ \A t \in Ticks : t \in Nat
<1>1. LastTick \in Nat
  BY RateLimiterAssumption
<1>2. IsFiniteSet(0 .. LastTick)
  BY <1>1, FS_Interval
<1> QED BY <1>1, <1>2 DEF Ticks

LEMMA NoRequestsAre == NoRequests \in [Ticks -> Nat] /\ SumFunction(NoRequests) = 0
<1> DEFINE f == NoRequests
<1>1. IsFiniteSet(Ticks)
  BY TicksAre
<1>2. \A x \in Ticks : f[x] = 0
  BY DEF NoRequests
<1>3. SumFunctionOnSet(f, Ticks) = 0
  BY <1>1, <1>2, SumOfZeros
<1>4. DOMAIN f = Ticks /\ f \in [Ticks -> Nat]
  BY DEF NoRequests
<1> HIDE DEF f
<1>5. SumFunction(f) = 0
  BY <1>3, <1>4 DEF SumFunction
<1> QED BY <1>4, <1>5 DEF f

LEMMA SumsOfTicks == \A f \in [Ticks -> Nat] : SumFunction(f) \in Int
<1> SUFFICES ASSUME NEW f \in [Ticks -> Nat] PROVE SumFunction(f) \in Int
  OBVIOUS
<1>1. IsFiniteSet(Ticks) /\ DOMAIN f = Ticks /\ \A t \in Ticks : f[t] \in Int
  BY TicksAre
<1>2. SumFunctionOnSet(f, Ticks) \in Int
  BY <1>1, SumIsNumber
<1> QED BY <1>1, <1>2 DEF SumFunction

\* One more request keeps what passed within the window.
LEMMA WithRequestIs ==
    ASSUME NEW times \in [Ticks -> Nat], NEW other \in [Ticks -> Nat], NEW now \in Ticks,
           Covers(other, times, now)
    PROVE  /\ WithRequest(times, now) \in [Ticks -> Nat] /\ WithRequest(other, now) \in [Ticks -> Nat]
           /\ Covers(WithRequest(other, now), WithRequest(times, now), now)
           /\ SumFunction(WithRequest(times, now)) <= SumFunction(WithRequest(other, now))
<1>1. PICK f, g : f = WithRequest(times, now) /\ g = WithRequest(other, now)
  OBVIOUS
<1>2. /\ f = [t \in Ticks |-> (IF t > now - WindowSize THEN times[t] ELSE 0) + (IF t = now THEN 1 ELSE 0)]
      /\ g = [t \in Ticks |-> (IF t > now - WindowSize THEN other[t] ELSE 0) + (IF t = now THEN 1 ELSE 0)]
  BY <1>1 DEF WithRequest
<1>3. ASSUME NEW t \in Ticks PROVE f[t] \in Nat /\ g[t] \in Nat /\ f[t] <= g[t]
  <2>1. times[t] \in Nat /\ other[t] \in Nat /\ (t > now - WindowSize => times[t] <= other[t])
    BY DEF Covers
  <2>2. CASE t > now - WindowSize
    BY <1>2, <2>1, <2>2
  <2>3. CASE ~(t > now - WindowSize)
    BY <1>2, <2>1, <2>3
  <2> QED BY <2>2, <2>3
<1>4. f \in [Ticks -> Nat] /\ g \in [Ticks -> Nat]
  BY <1>2, <1>3
<1>5. IsFiniteSet(Ticks)
  BY TicksAre
<1>6. SumFunctionOnSet(f, Ticks) <= SumFunctionOnSet(g, Ticks)
  <2>1. \A t \in Ticks : f[t] \in Int /\ g[t] \in Int /\ f[t] <= g[t]
    BY <1>3
  <2> QED BY <1>5, <2>1, SumIsMonotonic
<1>7. DOMAIN f = Ticks /\ DOMAIN g = Ticks
  BY <1>2
<1> QED BY <1>1, <1>3, <1>4, <1>6, <1>7 DEF SumFunction, Covers

LEMMA LimiterInitially == LimiterInit => LimiterInv
<1> SUFFICES ASSUME LimiterInit PROVE LimiterInv
  OBVIOUS
<1>1. 0 \in Ticks
  BY RateLimiterAssumption DEF Ticks
<1>2. \A i \in Identifiers : passed[i] = NoRequests /\ window[i] = NoRequests
  BY DEF LimiterInit
<1>3. \A i \in Identifiers : Covers(window[i], passed[i], tick) /\ SumFunction(passed[i]) <= MaxRequests
  BY <1>2, NoRequestsAre, RateLimiterAssumption DEF Covers, NoRequests
<1>4. \A i \in Identifiers : BucketHonest(i)
  BY DEF BucketHonest, LimiterInit
<1>5. 0 \in 0 .. LastTick + BlockDuration
  BY RateLimiterAssumption
<1> QED BY <1>1, <1>2, <1>3, <1>4, <1>5, NoRequestsAre DEF LimiterInit, LimiterInv

\* Rounding down twice earns no more than rounding down once.
LEMMA EarnedInParts ==
    ASSUME NEW a \in Nat, NEW b \in Nat
    PROVE  a \div Refill \in Nat /\ b \div Refill \in Nat /\ (a \div Refill) + (b \div Refill) <= (a + b) \div Refill
<1>1. PICK n \in Nat : n = Refill /\ n > 0
  BY RateLimiterAssumption
<1>2. PICK p \in Nat, q \in Nat : p = a \div n /\ q = b \div n /\ n * p <= a /\ n * q <= b
  BY <1>1, DivFacts
<1>3. n * (p + q) <= a + b
  BY <1>1, <1>2
<1>4. p + q <= (a + b) \div n
  <2>1. a + b \in Nat /\ p + q \in Nat
    OBVIOUS
  <2> QED BY <1>1, <1>3, <2>1, DivMax
<1> QED BY <1>1, <1>2, <1>4

\* Steps that leave windows and buckets alone.
LEMMA LimitsKeep ==
    ASSUME LimiterInv, UNCHANGED <<window, passed, bucket, tick, granted, openedAt>>,
           blocked' \in [Identifiers -> 0 .. LastTick + BlockDuration],
           limiting' = [k \in Clients |-> limiting'[k]],
           \A k \in Clients : limiting'[k] = Resting \/ limiting'[k].id \in Identifiers
    PROVE  LimiterInv'
<1>1. \A i \in Identifiers : BucketHonest(i)'
  BY DEF LimiterInv, BucketHonest
<1> QED BY <1>1 DEF LimiterInv, Covers

LEMMA WindowKeeps ==
    ASSUME LimiterInv, NEW k \in Clients, slidingWindowRateLimit(k)
    PROVE  LimiterInv'
<1>0. PICK i \in Identifiers : i = limiting[k].id
  BY DEF LimiterInv, slidingWindowRateLimit, Resting
<1>1. /\ tick \in Ticks /\ passed[i] \in [Ticks -> Nat] /\ window[i] \in [Ticks -> Nat]
      /\ Covers(window[i], passed[i], tick)
  BY DEF LimiterInv
<1>2. PICK then \in [Ticks -> Nat], now \in [Ticks -> Nat] :
          /\ then = WithRequest(passed[i], tick) /\ now = WithRequest(window[i], tick)
          /\ Covers(now, then, tick) /\ SumFunction(then) <= SumFunction(now)
  BY <1>1, WithRequestIs
<1>3. /\ window' = [window EXCEPT ![i] = now]
      /\ UNCHANGED <<bucket, tick, granted, openedAt, blocked>>
      /\ \/ Allowed(now) /\ passed' = [passed EXCEPT ![i] = then]
            /\ limiting' = [limiting EXCEPT ![k] = Resting]
         \/ limiting' = [limiting EXCEPT ![k].pc = "block"] /\ passed' = passed
  BY <1>0, <1>2 DEF slidingWindowRateLimit
<1>4. /\ limiting' = [j \in Clients |-> limiting'[j]]
      /\ \A j \in Clients : limiting'[j] = Resting \/ limiting'[j].id \in Identifiers
  <2>1. CASE limiting' = [limiting EXCEPT ![k] = Resting]
    BY <2>1 DEF LimiterInv
  <2>2. CASE limiting' = [limiting EXCEPT ![k].pc = "block"]
    <3>1. "id" \in DOMAIN limiting[k] => limiting'[k].id = limiting[k].id
      BY <2>2 DEF LimiterInv
    <3>2. limiting'[k] = [limiting[k] EXCEPT !.pc = "block"]
      BY <2>2 DEF LimiterInv
    <3>3. limiting'[k].id = limiting[k].id
      BY <3>2
    <3> QED BY <1>0, <2>2, <3>3 DEF LimiterInv
  <2> QED BY <1>3, <2>1, <2>2
<1>5. \A j \in Identifiers : BucketHonest(j)'
  BY <1>3 DEF LimiterInv, BucketHonest
<1>6. Covers(now, passed[i], tick)
  <2> SUFFICES ASSUME NEW t \in Ticks, t > tick - WindowSize PROVE passed[i][t] <= now[t]
    BY DEF Covers
  <2>1. now[t] = window[i][t] + (IF t = tick THEN 1 ELSE 0)
    BY <1>2 DEF WithRequest
  <2>2. passed[i][t] \in Nat /\ window[i][t] \in Nat /\ passed[i][t] <= window[i][t]
    BY <1>1 DEF Covers
  <2> QED BY <2>1, <2>2
<1>7. \A j \in Identifiers : Covers(window'[j], passed'[j], tick') /\ SumFunction(passed'[j]) <= MaxRequests
  <2> SUFFICES ASSUME NEW j \in Identifiers
               PROVE  Covers(window'[j], passed'[j], tick) /\ SumFunction(passed'[j]) <= MaxRequests
    BY <1>3
  <2>1. Covers(window[j], passed[j], tick) /\ SumFunction(passed[j]) <= MaxRequests
    BY DEF LimiterInv
  <2>2. CASE j # i
    <3>1. window'[j] = window[j] /\ passed'[j] = passed[j]
      BY <1>3, <2>2 DEF LimiterInv
    <3> QED BY <2>1, <3>1
  <2>3. CASE j = i
    <3>1. window'[j] = now
      BY <1>3, <2>3 DEF LimiterInv
    <3>2. CASE passed' = passed
      BY <1>6, <2>1, <2>3, <3>1, <3>2
    <3>3. CASE Allowed(now) /\ passed' = [passed EXCEPT ![i] = then]
      <4>1. passed'[j] = then
        BY <2>3, <3>3 DEF LimiterInv
      <4>2. PICK m \in Int, n \in Int : m = SumFunction(then) /\ n = SumFunction(now)
        BY <1>2, SumsOfTicks
      <4>3. m <= n /\ n <= MaxRequests
        BY <1>2, <3>3, <4>2 DEF Allowed
      <4> QED BY <1>2, <3>1, <4>1, <4>2, <4>3, RateLimiterAssumption
    <3> QED BY <1>3, <3>2, <3>3
  <2> QED BY <2>2, <2>3
<1>8. window' \in [Identifiers -> [Ticks -> Nat]] /\ passed' \in [Identifiers -> [Ticks -> Nat]]
  BY <1>3 DEF LimiterInv
<1> QED BY <1>3, <1>4, <1>5, <1>7, <1>8 DEF LimiterInv

LEMMA ResetKeeps ==
    ASSUME LimiterInv, NEW i \in Identifiers, resetRateLimit(i)
    PROVE  LimiterInv'
<1>1. /\ window' = [window EXCEPT ![i] = NoRequests] /\ passed' = [passed EXCEPT ![i] = NoRequests]
      /\ blocked' = [blocked EXCEPT ![i] = 0] /\ bucket' = [bucket EXCEPT ![i] = NoBucket]
      /\ granted' = [granted EXCEPT ![i] = 0] /\ UNCHANGED <<limiting, tick, openedAt>>
  BY DEF resetRateLimit
<1>2. window' \in [Identifiers -> [Ticks -> Nat]] /\ passed' \in [Identifiers -> [Ticks -> Nat]]
  BY <1>1, NoRequestsAre DEF LimiterInv
<1>3. blocked' \in [Identifiers -> 0 .. LastTick + BlockDuration]
  <2>1. 0 \in 0 .. LastTick + BlockDuration
    BY RateLimiterAssumption
  <2> QED BY <1>1, <2>1 DEF LimiterInv
<1>4. ASSUME NEW j \in Identifiers
      PROVE  Covers(window'[j], passed'[j], tick) /\ SumFunction(passed'[j]) <= MaxRequests
  <2>1. CASE j = i
    <3>1. window'[j] = NoRequests /\ passed'[j] = NoRequests
      BY <1>1, <2>1 DEF LimiterInv
    <3> QED BY <3>1, NoRequestsAre, RateLimiterAssumption DEF Covers, NoRequests
  <2>2. CASE j # i
    <3>1. window'[j] = window[j] /\ passed'[j] = passed[j]
      BY <1>1, <2>2 DEF LimiterInv
    <3> QED BY <3>1 DEF LimiterInv
  <2> QED BY <2>1, <2>2
<1>5. \A j \in Identifiers : BucketHonest(j)'
  BY <1>1 DEF LimiterInv, BucketHonest
<1> QED BY <1>1, <1>2, <1>3, <1>4, <1>5 DEF LimiterInv

LEMMA BucketKeeps ==
    ASSUME LimiterInv, NEW i \in Identifiers, NEW n \in 1 .. BucketSize, tokenBucketRateLimit(i, n)
    PROVE  LimiterInv'
<1>1. PICK new, before, tokens, spent :
          /\ new = (bucket[i] = NoBucket)
          /\ before = IF new THEN BucketSize ELSE bucket[i].tokens + (tick - bucket[i].lastRefill) \div Refill
          /\ tokens = IF before < BucketSize THEN before ELSE BucketSize
          /\ spent = IF tokens >= n THEN n ELSE 0
          /\ bucket' = [bucket EXCEPT ![i] = [tokens |-> tokens - spent, lastRefill |-> tick]]
          /\ granted' = [granted EXCEPT ![i] = @ + spent]
          /\ openedAt' = [openedAt EXCEPT ![i] = IF new THEN tick ELSE @]
          /\ UNCHANGED <<window, blocked, limiting, tick, passed>>
  BY DEF tokenBucketRateLimit, TokensToAdd
<1>2. BucketHonest(i) /\ tick \in Nat /\ tick \in Ticks /\ BucketSize \in Nat /\ n \in Nat /\ n <= BucketSize
  BY RateLimiterAssumption DEF LimiterInv, Ticks
<1>3. PICK g \in Nat, o \in Nat : g = granted[i] /\ o = openedAt[i]
  BY <1>2 DEF BucketHonest
<1>4. PICK opened \in Nat, earned \in Nat :
          /\ opened = openedAt'[i] /\ opened <= tick /\ earned = (tick - opened) \div Refill
          /\ before \in Nat /\ before + g <= BucketSize + earned
  <2>1. CASE new
    <3>1. bucket[i] = NoBucket /\ g = 0 /\ before = BucketSize
      BY <1>1, <1>2, <1>3, <2>1 DEF BucketHonest
    <3>2. openedAt'[i] = tick
      BY <1>1, <2>1 DEF LimiterInv
    <3>3. (tick - tick) \div Refill \in Nat
      BY <1>2, EarnedInParts
    <3> QED BY <1>2, <3>1, <3>2, <3>3
  <2>2. CASE ~new
    <3>0. bucket[i].tokens \in Nat /\ bucket[i].lastRefill \in Nat
      <4>1. bucket[i] # NoBucket
        BY <1>1, <2>2
      <4>2. bucket[i] \in [tokens : 0 .. BucketSize, lastRefill : Ticks]
        BY <1>2, <4>1 DEF BucketHonest
      <4>3. bucket[i].tokens \in 0 .. BucketSize /\ bucket[i].lastRefill \in Ticks
        BY <4>2
      <4>4. bucket[i].tokens \in Nat
        BY <4>3
      <4>5. bucket[i].lastRefill \in Nat
        BY <4>3, TicksAre
      <4> QED BY <4>4, <4>5
    <3>1. PICK a \in Nat, r \in Nat :
              /\ a = bucket[i].tokens /\ r = bucket[i].lastRefill /\ o <= r /\ r <= tick
              /\ a + g <= BucketSize + (r - o) \div Refill
      BY <1>1, <1>2, <1>3, <2>2, <3>0 DEF BucketHonest
    <3>2. r - o \in Nat /\ tick - r \in Nat /\ (r - o) + (tick - r) = tick - o
      BY <1>2, <3>1
    <3>3. PICK x \in Nat, y \in Nat, z \in Nat :
              x = (r - o) \div Refill /\ y = (tick - r) \div Refill /\ z = (tick - o) \div Refill /\ x + y <= z
      <4>1. tick - o \in Nat
        BY <3>2
      <4>2. (tick - o) \div Refill \in Nat
        BY <4>1, EarnedInParts
      <4> QED BY <3>2, <4>2, EarnedInParts
    <3>4. openedAt'[i] = o /\ before = a + y
      BY <1>1, <1>3, <2>2, <3>1, <3>3 DEF LimiterInv
    <3>5. o <= tick /\ a + y \in Nat /\ (a + y) + g <= BucketSize + z
      BY <1>2, <3>1, <3>3
    <3> QED BY <3>3, <3>4, <3>5
  <2> QED BY <2>1, <2>2
<1>5. PICK stays \in Nat, paid \in Nat :
          stays = tokens - spent /\ paid = spent /\ stays <= BucketSize /\ stays + (g + paid) <= BucketSize + earned
  BY <1>1, <1>2, <1>4
<1>6. bucket'[i] = [tokens |-> stays, lastRefill |-> tick] /\ granted'[i] = g + paid
  BY <1>1, <1>3, <1>5 DEF LimiterInv
<1>7. BucketHonest(i)'
  <2>1. bucket'[i] \in [tokens : 0 .. BucketSize, lastRefill : Ticks] /\ bucket'[i].tokens = stays
        /\ bucket'[i].lastRefill = tick
    BY <1>2, <1>5, <1>6
  <2>2. bucket'[i] # NoBucket
    BY <1>5, <2>1 DEF NoBucket
  <2>3. granted'[i] \in Nat /\ openedAt'[i] \in Nat /\ tick' = tick
    BY <1>1, <1>4, <1>6
  <2>4. bucket'[i].tokens + granted'[i] <= BucketSize + (bucket'[i].lastRefill - openedAt'[i]) \div Refill
    BY <1>4, <1>5, <1>6, <2>1
  <2>5. openedAt'[i] <= bucket'[i].lastRefill /\ bucket'[i].lastRefill <= tick'
    BY <1>2, <1>4, <2>1, <2>3
  <2> QED BY <2>1, <2>2, <2>3, <2>4, <2>5 DEF BucketHonest
<1>8. ASSUME NEW j \in Identifiers, j # i PROVE BucketHonest(j)'
  <2>1. bucket'[j] = bucket[j] /\ granted'[j] = granted[j] /\ openedAt'[j] = openedAt[j] /\ tick' = tick
    BY <1>1, <1>8 DEF LimiterInv
  <2>2. BucketHonest(j)
    BY DEF LimiterInv
  <2> QED BY <2>1, <2>2 DEF BucketHonest
<1>9. \A j \in Identifiers : BucketHonest(j)'
  BY <1>7, <1>8
<1> QED BY <1>1, <1>9 DEF LimiterInv, Covers

LEMMA TickKeeps ==
    ASSUME LimiterInv, NextTick
    PROVE  LimiterInv'
<1>1. tick \in Nat /\ tick' = tick + 1 /\ tick' \in Ticks
      /\ UNCHANGED <<window, blocked, limiting, bucket, passed, granted, openedAt>>
  BY RateLimiterAssumption DEF LimiterInv, NextTick, Ticks
<1>2. ASSUME NEW i \in Identifiers PROVE Covers(window[i], passed[i], tick + 1)
  <2>1. ASSUME NEW t \in Ticks, t > tick + 1 - WindowSize PROVE t > tick - WindowSize
    <3>1. t \in Nat /\ WindowSize \in Nat
      BY TicksAre, RateLimiterAssumption
    <3> QED BY <1>1, <2>1, <3>1
  <2>2. Covers(window[i], passed[i], tick)
    BY DEF LimiterInv
  <2> QED BY <1>1, <2>1, <2>2, TicksAre, RateLimiterAssumption DEF Covers
<1>3. ASSUME NEW i \in Identifiers PROVE BucketHonest(i)'
  <2>1. BucketHonest(i)
    BY DEF LimiterInv
  <2>2. CASE bucket[i] # NoBucket
    <3>1. bucket[i].lastRefill \in Nat /\ bucket[i].lastRefill <= tick
      BY <2>1, <2>2, RateLimiterAssumption DEF BucketHonest, Ticks
    <3>2. bucket[i].lastRefill <= tick + 1
      BY <1>1, <3>1
    <3> QED BY <1>1, <2>1, <2>2, <3>2 DEF BucketHonest
  <2> QED BY <1>1, <2>1, <2>2 DEF BucketHonest
<1> QED BY <1>1, <1>2, <1>3 DEF LimiterInv

LEMMA LimiterStep == LimiterInv /\ (LimiterNext \/ BucketNext) => LimiterInv'
<1> SUFFICES ASSUME LimiterInv, LimiterNext \/ BucketNext PROVE LimiterInv'
  OBVIOUS
<1>1. ASSUME NEW k \in Clients, NEW works \in BOOLEAN, blockIdentifier(k, works) PROVE LimiterInv'
  <2>1. limiting[k].id \in Identifiers
    BY <1>1 DEF LimiterInv, blockIdentifier, Resting
  <2>2. tick + BlockDuration \in 0 .. LastTick + BlockDuration
    BY RateLimiterAssumption DEF LimiterInv, Ticks
  <2>3. blocked' \in [Identifiers -> 0 .. LastTick + BlockDuration]
    BY <1>1, <2>1, <2>2 DEF blockIdentifier, LimiterInv
  <2> QED BY <1>1, <2>3, LimitsKeep DEF blockIdentifier, LimiterInv
<1>2. ASSUME NEW k \in Clients, NEW works \in BOOLEAN, NEW i \in Identifiers, checkRateLimit(k, i, works)
      PROVE  LimiterInv'
  BY <1>2, LimitsKeep DEF checkRateLimit, LimiterInv
<1>3. ASSUME NEW k \in Clients, FailOpen(k) PROVE LimiterInv'
  BY <1>3, LimitsKeep DEF FailOpen, LimiterInv
<1>4. ASSUME NEW i \in Identifiers, unblockIdentifier(i) PROVE LimiterInv'
  <2>1. 0 \in 0 .. LastTick + BlockDuration
    BY RateLimiterAssumption
  <2> QED BY <1>4, <2>1, LimitsKeep DEF unblockIdentifier, LimiterInv
<1> QED
  BY <1>1, <1>2, <1>3, <1>4, WindowKeeps, ResetKeeps, BucketKeeps, TickKeeps DEF LimiterNext, BucketNext

LEMMA LimiterStutter == LimiterInv /\ UNCHANGED LimiterVars => LimiterInv'
<1> SUFFICES ASSUME LimiterInv, UNCHANGED LimiterVars PROVE LimiterInv'
  OBVIOUS
<1> QED BY LimitsKeep DEF LimiterVars, LimiterInv

LEMMA LimiterSuffices == LimiterInv => LimiterTypeOK /\ WindowLimit /\ TokensAreEarned
<1> SUFFICES ASSUME LimiterInv PROVE LimiterTypeOK /\ WindowLimit /\ TokensAreEarned
  OBVIOUS
<1>1. bucket \in [Identifiers -> {NoBucket} \union [tokens : 0 .. BucketSize, lastRefill : 0 .. LastTick]]
  <2>1. \A i \in Identifiers : bucket[i] \in {NoBucket} \union [tokens : 0 .. BucketSize, lastRefill : 0 .. LastTick]
    BY DEF LimiterInv, BucketHonest, Ticks
  <2> QED BY <2>1 DEF LimiterInv
<1>2. ASSUME NEW i \in Identifiers, bucket[i] # NoBucket
      PROVE  bucket[i].tokens + granted[i] <= BucketSize + (tick - openedAt[i]) \div Refill
  <2>1. BucketHonest(i) /\ tick \in Nat
    BY RateLimiterAssumption DEF LimiterInv, Ticks
  <2>0. bucket[i].tokens \in Nat /\ bucket[i].lastRefill \in Nat
    BY <1>2, <2>1, TicksAre, RateLimiterAssumption DEF BucketHonest
  <2>2. PICK a \in Nat, r \in Nat, g \in Nat, o \in Nat :
            /\ a = bucket[i].tokens /\ r = bucket[i].lastRefill /\ g = granted[i] /\ o = openedAt[i]
            /\ o <= r /\ r <= tick /\ a + g <= BucketSize + (r - o) \div Refill
    BY <1>2, <2>0, <2>1 DEF BucketHonest
  <2>3. r - o \in Nat /\ tick - o \in Nat /\ r - o <= tick - o
    BY <2>1, <2>2
  <2>4. PICK x \in Nat, z \in Nat : x = (r - o) \div Refill /\ z = (tick - o) \div Refill /\ x <= z
    BY <2>3, DivGrows, RateLimiterAssumption
  <2> QED BY <2>2, <2>4, RateLimiterAssumption
<1> QED BY <1>1, <1>2 DEF LimiterInv, LimiterTypeOK, WindowLimit, TokensAreEarned

\* With any identifiers, windows and buckets, and any number of checks whose reads and writes
\* interleave, no window lets more requests pass than its limit, and every token was earned.
THEOREM LimitsAreKept ==
    LimiterSpec => [](LimiterTypeOK /\ WindowLimit /\ TokensAreEarned)
<1>1. LimiterInit => LimiterInv
  BY LimiterInitially
<1>2. LimiterInv /\ [LimiterNext \/ BucketNext]_LimiterVars => LimiterInv'
  BY LimiterStep, LimiterStutter
<1>3. LimiterInv => LimiterTypeOK /\ WindowLimit /\ TokensAreEarned
  BY LimiterSuffices
<1> QED BY <1>1, <1>2, <1>3, PTL DEF LimiterSpec

-----------------------------------------------------------------------------
(***************************************************************************)
(* Cached responses, scores and applications, for any users and clients.   *)
(***************************************************************************)
Versions == 0 .. MaxVersion
CacheCalls ==
    {Resting} \union [pc : {"limit", "look", "handle"}, user : Responses]
    \union [pc : {"score", "rate"}, user : Applicants, version : Versions]
    \union [pc : {"index"}, app : CreditApps, status : AppStates]

\* A score on its way into the cache is its source's, and a rating's the one that is cached,
\* unless it was overtaken.
ScoreOnItsWay(c) == c.pc = "score" => c.user \in outrun \/ c.version = score[c.user]
RatingOnItsWay(c) == c.pc = "rate" => c.user \in unrated \/ scores[c.user] \in {0, c.version}
ScoresFine ==
    /\ score \in [Applicants -> Versions] /\ scores \in [Applicants -> Versions] /\ ratings \in [Applicants -> Versions]
    /\ \A k \in Clients : ScoreOnItsWay(calling[k]) /\ RatingOnItsWay(calling[k])
    /\ StaleOnlyByOverlap /\ RatedTogether

\* Whoever cached an application last indexes it under the status it has now.
Indexing(k, a, s) == calling[k].pc = "index" /\ calling[k].app = a /\ calling[k].status = s
Found(a) == apps[a] = "none" \/ a \in byStatus[apps[a]] \/ <<a, apps[a]>> \in unindexed
            \/ \E k \in Clients : Indexing(k, a, apps[a])
AppsFine ==
    /\ apps \in [CreditApps -> AppStates \union {"none"}] /\ byStatus \in [AppStates -> SUBSET CreditApps]
    /\ \A a \in CreditApps : Found(a)

ResponsesFine ==
    /\ responses \in [Responses -> Responses \union {NoResponse}]
    /\ ResponsesKeepTheirUser
CacheInv == calling \in [Clients -> CacheCalls] /\ ResponsesFine /\ ScoresFine /\ AppsFine

LEMMA CallKinds ==
    ASSUME NEW c \in CacheCalls
    PROVE  /\ c.pc \in {"limit", "look", "handle"} => c.user \in Responses
           /\ c.pc \in {"score", "rate"} => c.user \in Applicants /\ c.version \in Versions
           /\ c.pc = "index" => c.app \in CreditApps /\ c.status \in AppStates
           /\ c.pc = "limit" => [c EXCEPT !.pc = "look"] \in CacheCalls
           /\ c.pc = "score" => /\ [c EXCEPT !.pc = "rate"] \in CacheCalls
                                /\ [c EXCEPT !.pc = "rate"].pc = "rate"
                                /\ [c EXCEPT !.pc = "rate"].user = c.user
                                /\ [c EXCEPT !.pc = "rate"].version = c.version
<1>1. CASE c = Resting
  BY <1>1 DEF Resting
<1>2. CASE c \in [pc : {"limit", "look", "handle"}, user : Responses]
  BY <1>2 DEF CacheCalls
<1>3. CASE c \in [pc : {"score", "rate"}, user : Applicants, version : Versions]
  BY <1>3 DEF CacheCalls
<1>4. CASE c \in [pc : {"index"}, app : CreditApps, status : AppStates]
  BY <1>4 DEF CacheCalls
<1> QED BY <1>1, <1>2, <1>3, <1>4 DEF CacheCalls

LEMMA CacheInitially == CacheInit => CacheInv
<1> SUFFICES ASSUME CacheInit PROVE CacheInv
  OBVIOUS
<1>1. 0 \in Versions /\ 1 \in Versions
  BY ResponseCacheAssumption DEF Versions
<1>2. calling \in [Clients -> CacheCalls] /\ \A k \in Clients : calling[k].pc = "resting"
  BY DEF CacheInit, CacheCalls, Resting
<1>3. ScoresFine
  BY <1>1, <1>2 DEF CacheInit, ScoresFine, ScoreOnItsWay, RatingOnItsWay, StaleOnlyByOverlap, RatedTogether
<1>4. AppsFine
  BY DEF CacheInit, AppsFine, Found
<1>5. ResponsesFine
  BY DEF CacheInit, ResponsesFine, ResponsesKeepTheirUser
<1> QED BY <1>2, <1>3, <1>4, <1>5 DEF CacheInv

\* A call that neither ends nor becomes one about scores or applications.
LEMMA OtherCallsKeep ==
    ASSUME CacheInv, NEW k \in Clients, NEW n \in CacheCalls, Call(k, n),
           n.pc \notin {"score", "rate", "index"}, calling[k].pc \notin {"score", "rate", "index"},
           UNCHANGED <<score, scores, apps, byStatus, ratings, changed, triggered, outrun, unindexed, unrated>>,
           ResponsesFine'
    PROVE  CacheInv'
<1>1. calling' = [calling EXCEPT ![k] = n] /\ calling \in [Clients -> CacheCalls]
  BY DEF Call, CacheInv
<1>2. \A j \in Clients : calling'[j] = calling[j] \/ (j = k /\ calling'[j] = n)
  BY <1>1
<1>3. calling' \in [Clients -> CacheCalls]
  BY <1>1
<1>4. (\A j \in Clients : ScoreOnItsWay(calling[j]) /\ RatingOnItsWay(calling[j]))'
  BY <1>2 DEF CacheInv, ScoresFine, ScoreOnItsWay, RatingOnItsWay
<1>5. RatedTogether'
  <2> SUFFICES ASSUME NEW u \in Applicants \ unrated
               PROVE  \/ ratings[u] \in {0, scores[u]} \/ scores[u] = 0
                      \/ \E j \in Clients : calling'[j].pc = "rate" /\ calling'[j].user = u
    BY DEF RatedTogether
  <2>1. \/ ratings[u] \in {0, scores[u]} \/ scores[u] = 0
        \/ \E j \in Clients : calling[j].pc = "rate" /\ calling[j].user = u
    BY DEF CacheInv, ScoresFine, RatedTogether
  <2> QED BY <1>2, <2>1
<1>6. ASSUME NEW a \in CreditApps PROVE Found(a)'
  <2>1. Found(a)
    BY DEF CacheInv, AppsFine
  <2>2. ASSUME NEW j \in Clients, NEW s, Indexing(j, a, s) PROVE Indexing(j, a, s)'
    BY <1>2, <2>2 DEF Indexing
  <2> QED BY <2>1, <2>2 DEF Found
<1> QED BY <1>3, <1>4, <1>5, <1>6 DEF CacheInv, ScoresFine, AppsFine, StaleOnlyByOverlap

LEMMA ResponsesStep == CacheInv /\ ResponsesNext => CacheInv'
<1> SUFFICES ASSUME CacheInv, ResponsesNext PROVE CacheInv'
  OBVIOUS
<1>1. ResponsesFine /\ calling \in [Clients -> CacheCalls]
  BY DEF CacheInv
<1>2. responses' = responses => ResponsesFine'
  BY <1>1 DEF ResponsesFine, ResponsesKeepTheirUser
<1>3. Resting \in CacheCalls /\ Resting.pc = "resting"
  BY DEF CacheCalls, Resting
<1>4. ASSUME NEW user \in Responses
      PROVE  /\ [pc |-> "limit", user |-> user] \in CacheCalls
             /\ [pc |-> "handle", user |-> user] \in CacheCalls
  BY DEF CacheCalls
<1>5. Nobody \in Responses
  BY DEF Responses
<1>6. ASSUME NEW k \in Clients, NEW n \in CacheCalls, Call(k, n),
             calling[k].pc \notin {"score", "rate", "index"}, n.pc \notin {"score", "rate", "index"},
             UnchangedCaches, UnchangedScores
      PROVE  CacheInv'
  BY <1>2, <1>6, OtherCallsKeep DEF UnchangedCaches, UnchangedScores
<1>7. ASSUME NEW k \in Clients, NEW user \in Responses, NEW valid \in BOOLEAN, NEW required \in BOOLEAN,
             calling[k] = Resting, sessionMiddleware(k, user, valid, required)
      PROVE  CacheInv'
  <2>1. PICK n \in CacheCalls : n.pc = "limit" /\ Call(k, n)
    BY <1>4, <1>5, <1>7 DEF sessionMiddleware
  <2> QED BY <1>3, <1>6, <1>7, <2>1 DEF sessionMiddleware
<1>8. ASSUME NEW k \in Clients, NEW user \in Responses, NEW seenAs, NEW cacheable,
             Lookup(k, user, seenAs, cacheable), calling[k].pc \notin {"score", "rate", "index"}
      PROVE  CacheInv'
  <2>1. PICK n \in CacheCalls : n.pc \notin {"score", "rate", "index"} /\ Call(k, n)
    <3>1. CASE Call(k, Resting)
      BY <1>3, <3>1
    <3>2. CASE Call(k, [pc |-> "handle", user |-> user])
      BY <1>4, <3>2
    <3> QED BY <1>8, <3>1, <3>2 DEF Lookup
  <2> QED BY <1>6, <1>8, <2>1 DEF Lookup
<1>9. ASSUME NEW k \in Clients, NEW user \in Responses, NEW cacheControl, calling[k] = Resting,
             apiCacheMiddlewareFirst(k, user, "GET", cacheControl)
      PROVE  CacheInv'
  BY <1>3, <1>8, <1>9 DEF apiCacheMiddlewareFirst
<1>10. ASSUME NEW k \in Clients, NEW passes \in BOOLEAN, rateLimitMiddleware(k, passes) PROVE CacheInv'
  <2>1. calling[k].pc = "limit" /\ [calling[k] EXCEPT !.pc = "look"] \in CacheCalls
        /\ [calling[k] EXCEPT !.pc = "look"].pc = "look"
    <3>1. calling[k] \in CacheCalls /\ calling[k].pc = "limit"
      BY <1>1, <1>10 DEF rateLimitMiddleware
    <3>2. calling[k] \in [pc : {"limit", "look", "handle"}, user : Responses]
      BY <3>1 DEF CacheCalls, Resting
    <3> QED BY <3>1, <3>2, CallKinds
  <2>2. PICK n \in CacheCalls : n.pc \notin {"score", "rate", "index"} /\ Call(k, n)
    BY <1>3, <1>10, <2>1 DEF rateLimitMiddleware
  <2> QED BY <1>6, <1>10, <2>1, <2>2 DEF rateLimitMiddleware
<1>11. ASSUME NEW k \in Clients, NEW method, NEW cacheControl, apiCacheMiddleware(k, method, cacheControl)
       PROVE  CacheInv'
  <2>1. calling[k].pc = "look" /\ calling[k].user \in Responses
    BY <1>1, <1>11, CallKinds DEF apiCacheMiddleware
  <2> QED BY <1>8, <1>11, <2>1 DEF apiCacheMiddleware
<1>12. ASSUME NEW k \in Clients, NEW fits \in BOOLEAN, cacheResponse(k, fits) PROVE CacheInv'
  <2>1. calling[k].pc = "handle" /\ calling[k].user \in Responses
    BY <1>1, <1>12, CallKinds DEF cacheResponse
  <2>2. responses' = responses \/ responses' = [responses EXCEPT ![calling[k].user] = calling[k].user]
    BY <1>12 DEF cacheResponse, generateCacheKey
  <2>3. ResponsesFine'
    BY <1>1, <1>2, <2>1, <2>2 DEF ResponsesFine, ResponsesKeepTheirUser
  <2> QED BY <1>3, <1>12, <2>1, <2>3, OtherCallsKeep DEF cacheResponse, UnchangedScores
<1>13. ASSUME NEW r \in Responses, ResponseGoes(r) PROVE CacheInv'
  <2>1. ResponsesFine'
    BY <1>1, <1>13 DEF ResponsesFine, ResponsesKeepTheirUser, ResponseGoes
  <2> QED BY <1>13, <2>1 DEF CacheInv, ResponseGoes, UnchangedScores, ScoresFine, AppsFine, ScoreOnItsWay,
             RatingOnItsWay, StaleOnlyByOverlap, RatedTogether, Found, Indexing
<1> QED BY <1>7, <1>9, <1>10, <1>11, <1>12, <1>13 DEF ResponsesNext

\* Steps about scores leave responses and applications alone.
LEMMA OthersKeep ==
    ASSUME CacheInv, NEW k \in Clients, NEW n \in CacheCalls, Call(k, n) \/ calling' = calling,
           n.pc # "index", calling[k].pc # "index", UnchangedOthers, ScoresFine'
    PROVE  CacheInv'
<1>1. UNCHANGED <<responses, apps, byStatus, unindexed>> /\ calling \in [Clients -> CacheCalls]
  BY DEF UnchangedOthers, CacheInv
<1>2. \A j \in Clients : calling'[j] = calling[j] \/ (j = k /\ calling'[j] = n)
  BY <1>1 DEF Call
<1>3. calling' \in [Clients -> CacheCalls]
  BY <1>1 DEF Call
<1>4. ASSUME NEW a \in CreditApps PROVE Found(a)'
  <2>1. Found(a)
    BY DEF CacheInv, AppsFine
  <2>2. ASSUME NEW j \in Clients, NEW s, Indexing(j, a, s) PROVE Indexing(j, a, s)'
    BY <1>2, <2>2 DEF Indexing
  <2> QED BY <1>1, <2>1, <2>2 DEF Found
<1> QED BY <1>1, <1>3, <1>4 DEF CacheInv, AppsFine, ResponsesFine, ResponsesKeepTheirUser

LEMMA SetScoreKeeps ==
    ASSUME CacheInv, NEW k \in Clients, NEW stored \in BOOLEAN, setCreditScore(k, stored)
    PROVE  CacheInv'
<1>1. PICK c \in CacheCalls : c = calling[k] /\ c.pc = "score" /\ c.user \in Applicants /\ c.version \in Versions
  BY CallKinds DEF CacheInv, setCreditScore
<1>2. PICK n \in CacheCalls : /\ Call(k, n) /\ n.pc \in {"rate", "resting"} /\ (stored <=> n.pc = "rate")
                              /\ stored => n.user = c.user /\ n.version = c.version
  <2>1. Resting \in CacheCalls /\ Resting.pc = "resting"
    BY DEF CacheCalls, Resting
  <2> QED BY <1>1, <2>1, CallKinds DEF setCreditScore
<1>3. calling' = [calling EXCEPT ![k] = n] /\ calling \in [Clients -> CacheCalls]
  BY <1>2 DEF Call, CacheInv
<1>4. /\ score' = score /\ ratings' = ratings /\ changed' = changed /\ triggered' = triggered /\ outrun' = outrun
      /\ scores' = (IF stored THEN [scores EXCEPT ![c.user] = c.version] ELSE scores)
      /\ unrated' = (IF stored /\ Rating(c.user, k) THEN unrated \union {c.user} ELSE unrated)
  BY <1>1 DEF setCreditScore
<1>5. \A u \in Applicants : scores'[u] = IF stored /\ u = c.user THEN c.version ELSE scores[u]
  BY <1>1, <1>4 DEF CacheInv, ScoresFine
<1>6. c.user \in outrun \/ c.version = score[c.user]
  BY <1>1 DEF CacheInv, ScoresFine, ScoreOnItsWay
<1>7. StaleOnlyByOverlap'
  BY <1>4, <1>5, <1>6 DEF CacheInv, ScoresFine, StaleOnlyByOverlap
<1>8. RatedTogether'
  <2> SUFFICES ASSUME NEW u \in Applicants \ unrated'
               PROVE  \/ ratings[u] \in {0, scores'[u]} \/ scores'[u] = 0
                      \/ \E j \in Clients : calling'[j].pc = "rate" /\ calling'[j].user = u
    BY <1>4 DEF RatedTogether
  <2>1. \/ ratings[u] \in {0, scores[u]} \/ scores[u] = 0
        \/ \E j \in Clients : calling[j].pc = "rate" /\ calling[j].user = u
    BY <1>4 DEF CacheInv, ScoresFine, RatedTogether
  <2>2. CASE stored /\ u = c.user
    BY <1>2, <1>3, <2>2
  <2>3. CASE ~(stored /\ u = c.user)
    BY <1>1, <1>3, <1>5, <2>1, <2>3
  <2> QED BY <2>2, <2>3
<1>9. ASSUME NEW j \in Clients PROVE ScoreOnItsWay(calling[j])' /\ RatingOnItsWay(calling[j])'
  <2>1. CASE j = k
    <3>1. calling'[j] = n
      BY <1>3, <2>1
    <3>2. n.pc = "rate" => scores'[n.user] = n.version
      BY <1>1, <1>2, <1>5
    <3> QED BY <1>2, <3>1, <3>2 DEF ScoreOnItsWay, RatingOnItsWay
  <2>2. CASE j # k
    <3>1. calling'[j] = calling[j] /\ calling[j] \in CacheCalls
      BY <1>3, <2>2
    <3>2. ScoreOnItsWay(calling[j]) /\ RatingOnItsWay(calling[j])
      BY DEF CacheInv, ScoresFine
    <3>3. calling[j].pc = "rate" => calling[j].user \in Applicants
      BY <3>1, CallKinds
    <3>4. calling[j].pc = "rate" /\ calling[j].user = c.user /\ stored => c.user \in unrated'
      BY <1>4, <2>2 DEF Rating
    <3> QED BY <1>4, <1>5, <3>1, <3>2, <3>3, <3>4 DEF ScoreOnItsWay, RatingOnItsWay
  <2> QED BY <2>1, <2>2
<1>10. ScoresFine'
  BY <1>1, <1>4, <1>7, <1>8, <1>9 DEF CacheInv, ScoresFine
<1> QED BY <1>1, <1>2, <1>10, OthersKeep DEF setCreditScore

LEMMA RateKeeps ==
    ASSUME CacheInv, NEW k \in Clients, NEW works \in BOOLEAN, cacheRiskRating(k, works)
    PROVE  CacheInv'
<1>1. PICK c \in CacheCalls : c = calling[k] /\ c.pc = "rate" /\ c.user \in Applicants /\ c.version \in Versions
  BY CallKinds DEF CacheInv, cacheRiskRating
<1>2. Resting \in CacheCalls /\ Resting.pc = "resting"
  BY DEF CacheCalls, Resting
<1>3. calling' = [calling EXCEPT ![k] = Resting] /\ calling \in [Clients -> CacheCalls]
  BY DEF Call, CacheInv, cacheRiskRating
<1>4. /\ score' = score /\ scores' = scores /\ changed' = changed /\ triggered' = triggered /\ outrun' = outrun
      /\ ratings' = (IF works THEN [ratings EXCEPT ![c.user] = c.version] ELSE ratings)
      /\ unrated' = (IF ~works \/ Rating(c.user, k) THEN unrated \union {c.user} ELSE unrated)
  BY <1>1 DEF cacheRiskRating
<1>5. c.user \in unrated \/ scores[c.user] \in {0, c.version}
  BY <1>1 DEF CacheInv, ScoresFine, RatingOnItsWay
<1>6. RatedTogether'
  <2> SUFFICES ASSUME NEW u \in Applicants \ unrated'
               PROVE  \/ ratings'[u] \in {0, scores[u]} \/ scores[u] = 0
                      \/ \E j \in Clients : calling'[j].pc = "rate" /\ calling'[j].user = u
    BY <1>4 DEF RatedTogether
  <2>1. u \notin unrated
    BY <1>4
  <2>2. \/ ratings[u] \in {0, scores[u]} \/ scores[u] = 0
        \/ \E j \in Clients : calling[j].pc = "rate" /\ calling[j].user = u
    BY <2>1 DEF CacheInv, ScoresFine, RatedTogether
  <2>3. CASE u = c.user
    <3>1. works /\ ratings'[u] = c.version
      BY <1>1, <1>4, <2>3 DEF CacheInv, ScoresFine
    <3> QED BY <1>5, <2>1, <2>3, <3>1
  <2>4. CASE u # c.user
    <3>1. ratings'[u] = ratings[u]
      BY <1>4, <2>4 DEF CacheInv, ScoresFine
    <3> QED BY <1>1, <1>3, <2>2, <2>4, <3>1
  <2> QED BY <2>3, <2>4
<1>7. ASSUME NEW j \in Clients PROVE ScoreOnItsWay(calling[j])' /\ RatingOnItsWay(calling[j])'
  BY <1>2, <1>3, <1>4 DEF CacheInv, ScoresFine, ScoreOnItsWay, RatingOnItsWay
<1>8. StaleOnlyByOverlap'
  BY <1>4 DEF CacheInv, ScoresFine, StaleOnlyByOverlap
<1>9. ScoresFine'
  BY <1>1, <1>4, <1>6, <1>7, <1>8 DEF CacheInv, ScoresFine
<1> QED BY <1>1, <1>2, <1>9, OthersKeep DEF cacheRiskRating

LEMMA ScoresStep == CacheInv /\ ScoresNext => CacheInv'
<1> SUFFICES ASSUME CacheInv, ScoresNext PROVE CacheInv'
  OBVIOUS
<1>1. Resting \in CacheCalls /\ Resting.pc = "resting" /\ calling \in [Clients -> CacheCalls] /\ 0 \in Versions
  BY ResponseCacheAssumption DEF CacheCalls, Resting, CacheInv, Versions
<1>2. ASSUME NEW k \in Clients, calling[k] = Resting, NEW u \in Applicants, getCreditScore(k, u) PROVE CacheInv'
  <2>1. PICK n \in CacheCalls : Call(k, n) /\ n.pc = "score" /\ n.user = u /\ n.version = score[u]
    BY <1>2 DEF getCreditScore, CacheCalls, CacheInv, ScoresFine
  <2>2. UNCHANGED <<score, scores, ratings, changed, triggered, outrun, unrated>> /\ UnchangedOthers
    BY <1>2 DEF getCreditScore, UnchangedCaches, UnchangedScores, UnchangedOthers
  <2>3. \A j \in Clients : calling'[j] = calling[j] \/ (j = k /\ calling'[j] = n)
    BY <1>1, <2>1 DEF Call
  <2>4. (\A j \in Clients : ScoreOnItsWay(calling[j]) /\ RatingOnItsWay(calling[j]))'
    BY <2>1, <2>2, <2>3 DEF CacheInv, ScoresFine, ScoreOnItsWay, RatingOnItsWay
  <2>5. RatedTogether'
    <3> SUFFICES ASSUME NEW v \in Applicants \ unrated
                 PROVE  \/ ratings[v] \in {0, scores[v]} \/ scores[v] = 0
                        \/ \E j \in Clients : calling'[j].pc = "rate" /\ calling'[j].user = v
      BY <2>2 DEF RatedTogether
    <3>1. \/ ratings[v] \in {0, scores[v]} \/ scores[v] = 0
          \/ \E j \in Clients : calling[j].pc = "rate" /\ calling[j].user = v
      BY DEF CacheInv, ScoresFine, RatedTogether
    <3> QED BY <1>1, <1>2, <2>3, <3>1
  <2>6. ScoresFine'
    BY <2>2, <2>4, <2>5 DEF CacheInv, ScoresFine, StaleOnlyByOverlap
  <2> QED BY <1>1, <1>2, <2>1, <2>2, <2>6, OthersKeep
\* What changes no call.
<1>3. ASSUME NEW u \in Applicants, calling' = calling, UnchangedOthers, unrated' = unrated,
             score' \in [Applicants -> Versions], scores' \in [Applicants -> Versions],
             ratings' \in [Applicants -> Versions],
             \A v \in Applicants : scores'[v] = scores[v] \/ scores'[v] = 0,
             \A v \in Applicants : ratings'[v] = ratings[v] \/ ratings'[v] = 0,
             (\A j \in Clients : ScoreOnItsWay(calling[j]))', StaleOnlyByOverlap'
      PROVE  CacheInv'
  <2>1. ASSUME NEW j \in Clients PROVE RatingOnItsWay(calling[j])'
    <3>1. calling[j].pc = "rate" => calling[j].user \in Applicants
      BY <1>1, CallKinds
    <3> QED BY <1>3, <3>1 DEF CacheInv, ScoresFine, RatingOnItsWay
  <2>2. RatedTogether'
    BY <1>3 DEF CacheInv, ScoresFine, RatedTogether
  <2>3. ScoresFine'
    BY <1>3, <2>1, <2>2 DEF ScoresFine
  <2> QED BY <1>3, <2>3 DEF CacheInv, UnchangedOthers, ResponsesFine, ResponsesKeepTheirUser, AppsFine, Found, Indexing
<1>4. ASSUME NEW u \in Applicants, ScoreChanges(u) PROVE CacheInv'
  <2>1. /\ score' = [score EXCEPT ![u] = @ + 1] /\ changed' = changed \union {u} /\ score[u] < MaxVersion
        /\ outrun' = IF \E k \in Clients : calling[k].pc = "score" /\ calling[k].user = u
                     THEN outrun \union {u} ELSE outrun
        /\ UNCHANGED <<scores, ratings, calling, triggered, unrated>> /\ UnchangedOthers
    BY <1>4 DEF ScoreChanges
  <2>2. score[u] + 1 \in Versions
    BY <2>1, ResponseCacheAssumption DEF CacheInv, ScoresFine, Versions
  <2>3. score' \in [Applicants -> Versions] /\ \A v \in Applicants : v # u => score'[v] = score[v]
    BY <2>1, <2>2 DEF CacheInv, ScoresFine
  <2>4. ASSUME NEW j \in Clients PROVE ScoreOnItsWay(calling[j])'
    <3>1. ScoreOnItsWay(calling[j]) /\ (calling[j].pc = "score" => calling[j].user \in Applicants)
      BY <1>1, CallKinds DEF CacheInv, ScoresFine
    <3> QED BY <2>1, <2>3, <3>1 DEF ScoreOnItsWay
  <2>5. StaleOnlyByOverlap'
    BY <2>1, <2>3 DEF StaleOnlyByOverlap, CacheInv, ScoresFine
  <2> QED BY <1>3, <2>1, <2>3, <2>4, <2>5 DEF CacheInv, ScoresFine
<1>5. ASSUME NEW u \in Applicants, NEW works \in BOOLEAN, cacheInvalidationMiddleware(u, works) PROVE CacheInv'
  <2>1. StaleOnlyByOverlap'
    BY <1>5 DEF cacheInvalidationMiddleware, StaleOnlyByOverlap, CacheInv, ScoresFine
  <2>2. (\A j \in Clients : ScoreOnItsWay(calling[j]))'
    BY <1>5 DEF cacheInvalidationMiddleware, ScoreOnItsWay, CacheInv, ScoresFine
  <2> QED BY <1>3, <1>5, <2>1, <2>2 DEF cacheInvalidationMiddleware, CacheInv, ScoresFine
<1>6. ASSUME NEW u \in Applicants, NEW works \in BOOLEAN, triggerInvalidation(u, works) PROVE CacheInv'
  <2>1. /\ scores' = [scores EXCEPT ![u] = 0] \/ (scores' = scores /\ (KeyPrefix \/ ~works))
        /\ triggered' = triggered \ {u} /\ outrun' = (IF works THEN outrun ELSE outrun \union {u})
        /\ UNCHANGED <<score, ratings, calling, changed, unrated>> /\ UnchangedOthers
    BY <1>6 DEF triggerInvalidation, Targets
  <2>2. scores' \in [Applicants -> Versions] /\ (\A v \in Applicants : scores'[v] = scores[v] \/ scores'[v] = 0)
        /\ (KeyPrefix \/ ~works \/ scores'[u] = 0)
    BY <1>1, <2>1 DEF CacheInv, ScoresFine
  <2>3. StaleOnlyByOverlap'
    BY <2>1, <2>2 DEF StaleOnlyByOverlap, CacheInv, ScoresFine
  <2>4. (\A j \in Clients : ScoreOnItsWay(calling[j]))'
    BY <2>1 DEF ScoreOnItsWay, CacheInv, ScoresFine
  <2> QED BY <1>3, <2>1, <2>2, <2>3, <2>4 DEF CacheInv, ScoresFine
<1>7. ASSUME NEW u \in Applicants, invalidateUserCache(u) PROVE CacheInv'
  <2>1. /\ scores' \in [Applicants -> Versions] /\ ratings' \in [Applicants -> Versions]
        /\ \A v \in Applicants : (scores'[v] = scores[v] \/ scores'[v] = 0)
                                 /\ (ratings'[v] = ratings[v] \/ ratings'[v] = 0)
    BY <1>1, <1>7 DEF CacheInv, ScoresFine, invalidateUserCache
  <2>2. StaleOnlyByOverlap'
    BY <1>7, <2>1 DEF StaleOnlyByOverlap, CacheInv, ScoresFine, invalidateUserCache
  <2>3. (\A j \in Clients : ScoreOnItsWay(calling[j]))'
    BY <1>7 DEF ScoreOnItsWay, CacheInv, ScoresFine, invalidateUserCache
  <2> QED BY <1>3, <1>7, <2>1, <2>2, <2>3 DEF CacheInv, ScoresFine, invalidateUserCache
<1>8. ASSUME NEW u \in Applicants, ScoreExpires(u) PROVE CacheInv'
  <2>1. scores' \in [Applicants -> Versions] /\ scores'[u] = 0
        /\ \A v \in Applicants : (scores'[v] = scores[v] \/ scores'[v] = 0)
    BY <1>1, <1>8 DEF CacheInv, ScoresFine, ScoreExpires
  <2>2. StaleOnlyByOverlap'
    BY <1>8, <2>1 DEF StaleOnlyByOverlap, CacheInv, ScoresFine, ScoreExpires
  <2>3. (\A j \in Clients : ScoreOnItsWay(calling[j]))'
    BY <1>8 DEF ScoreOnItsWay, CacheInv, ScoresFine, ScoreExpires
  <2> QED BY <1>3, <1>8, <2>1, <2>2, <2>3 DEF CacheInv, ScoresFine, ScoreExpires
<1>9. ASSUME NEW u \in Applicants, RatingExpires(u) PROVE CacheInv'
  <2>1. ratings' \in [Applicants -> Versions] /\ \A v \in Applicants : ratings'[v] = ratings[v] \/ ratings'[v] = 0
    BY <1>1, <1>9 DEF CacheInv, ScoresFine, RatingExpires
  <2>2. StaleOnlyByOverlap' /\ (\A j \in Clients : ScoreOnItsWay(calling[j]))'
    BY <1>9 DEF StaleOnlyByOverlap, ScoreOnItsWay, CacheInv, ScoresFine, RatingExpires
  <2> QED BY <1>3, <1>9, <2>1, <2>2 DEF CacheInv, ScoresFine, RatingExpires
<1> QED BY <1>2, <1>4, <1>5, <1>6, <1>7, <1>8, <1>9, SetScoreKeeps, RateKeeps DEF ScoresNext

\* Steps about applications leave the rest alone.
LEMMA CreditKeeps ==
    ASSUME CacheInv, UnchangedCredit, AppsFine', NEW k \in Clients, NEW n \in CacheCalls,
           Call(k, n) \/ calling' = calling,
           n.pc \notin {"score", "rate"}, calling[k].pc \notin {"score", "rate"}
    PROVE  CacheInv'
<1>1. UNCHANGED <<score, scores, responses, ratings, changed, triggered, outrun, unrated>>
      /\ calling \in [Clients -> CacheCalls]
  BY DEF UnchangedCredit, CacheInv
<1>2. \A j \in Clients : calling'[j] = calling[j] \/ (j = k /\ calling'[j] = n)
  BY <1>1 DEF Call
<1>3. calling' \in [Clients -> CacheCalls]
  BY <1>1 DEF Call
<1>4. (\A j \in Clients : ScoreOnItsWay(calling[j]) /\ RatingOnItsWay(calling[j]))'
  BY <1>1, <1>2 DEF CacheInv, ScoresFine, ScoreOnItsWay, RatingOnItsWay
<1>5. RatedTogether'
  <2> SUFFICES ASSUME NEW u \in Applicants \ unrated
               PROVE  \/ ratings[u] \in {0, scores[u]} \/ scores[u] = 0
                      \/ \E j \in Clients : calling'[j].pc = "rate" /\ calling'[j].user = u
    BY <1>1 DEF RatedTogether
  <2>1. \/ ratings[u] \in {0, scores[u]} \/ scores[u] = 0
        \/ \E j \in Clients : calling[j].pc = "rate" /\ calling[j].user = u
    BY DEF CacheInv, ScoresFine, RatedTogether
  <2> QED BY <1>2, <2>1
<1> QED BY <1>1, <1>3, <1>4, <1>5 DEF CacheInv, ScoresFine, StaleOnlyByOverlap, ResponsesFine, ResponsesKeepTheirUser

LEMMA ApplicationsStep == CacheInv /\ ApplicationsNext => CacheInv'
<1> SUFFICES ASSUME CacheInv, ApplicationsNext PROVE CacheInv'
  OBVIOUS
<1>1. Resting \in CacheCalls /\ Resting.pc = "resting" /\ calling \in [Clients -> CacheCalls]
      /\ apps \in [CreditApps -> AppStates \union {"none"}] /\ byStatus \in [AppStates -> SUBSET CreditApps]
  BY DEF CacheCalls, Resting, CacheInv, AppsFine
<1>2. ASSUME NEW k \in Clients, calling[k] = Resting, NEW a \in CreditApps, NEW s \in AppStates,
             setCreditApplication(k, a, s)
      PROVE  CacheInv'
  <2>1. PICK n \in CacheCalls : Call(k, n) /\ n.pc = "index" /\ n.app = a /\ n.status = s
    BY <1>2 DEF setCreditApplication, CacheCalls
  <2>2. calling'[k] = n /\ \A j \in Clients : j # k => calling'[j] = calling[j]
    BY <1>1, <2>1 DEF Call
  <2>3. apps' = [apps EXCEPT ![a] = s] /\ byStatus' = byStatus /\ unindexed' = unindexed /\ UnchangedCredit
    BY <1>2 DEF setCreditApplication
  <2>4. ASSUME NEW b \in CreditApps PROVE Found(b)'
    <3>1. CASE b = a
      <4>1. apps'[b] = s /\ Indexing(k, b, s)'
        BY <1>1, <2>1, <2>2, <2>3, <3>1 DEF Indexing
      <4> QED BY <4>1 DEF Found
    <3>2. CASE b # a
      <4>1. Found(b) /\ apps'[b] = apps[b]
        BY <1>1, <2>3, <3>2 DEF CacheInv, AppsFine
      <4>2. ASSUME NEW j \in Clients, Indexing(j, b, apps[b]) PROVE Indexing(j, b, apps[b])'
        <5>1. j # k
          BY <1>1, <1>2, <4>2 DEF Indexing
        <5> QED BY <2>2, <4>1, <4>2, <5>1 DEF Indexing
      <4> QED BY <2>3, <4>1, <4>2 DEF Found
    <3> QED BY <3>1, <3>2
  <2>5. AppsFine'
    BY <1>1, <2>3, <2>4 DEF AppsFine
  <2> QED BY <1>1, <1>2, <2>1, <2>3, <2>5, CreditKeeps
<1>3. ASSUME NEW k \in Clients, NEW works \in BOOLEAN, cacheApplicationByStatus(k, works) PROVE CacheInv'
  <2>1. PICK c \in CacheCalls : c = calling[k] /\ c.pc = "index" /\ c.app \in CreditApps /\ c.status \in AppStates
    BY <1>1, <1>3, CallKinds DEF cacheApplicationByStatus
  <2>2. /\ Call(k, Resting) /\ apps' = apps /\ UnchangedCredit
        /\ byStatus' = (IF works THEN [byStatus EXCEPT ![c.status] = @ \union {c.app}] ELSE byStatus)
        /\ unindexed' = (IF works THEN unindexed \ {<<c.app, c.status>>} ELSE unindexed \union {<<c.app, c.status>>})
    BY <1>3, <2>1 DEF cacheApplicationByStatus
  <2>3. \A j \in Clients : j # k => calling'[j] = calling[j]
    BY <1>1, <2>2 DEF Call
  <2>4. byStatus' \in [AppStates -> SUBSET CreditApps]
        /\ \A s \in AppStates : byStatus[s] \subseteq byStatus'[s]
        /\ works => c.app \in byStatus'[c.status]
    BY <1>1, <2>1, <2>2
  <2>5. ASSUME NEW b \in CreditApps PROVE Found(b)'
    <3>1. Found(b) /\ apps[b] \in AppStates \union {"none"}
      BY <1>1 DEF CacheInv, AppsFine
    <3>2. CASE b = c.app /\ apps[b] = c.status
      BY <2>2, <2>4, <3>2 DEF Found
    <3>3. CASE ~(b = c.app /\ apps[b] = c.status)
      <4>1. ASSUME NEW j \in Clients, Indexing(j, b, apps[b]) PROVE Indexing(j, b, apps[b])'
        BY <2>1, <2>2, <2>3, <3>3, <4>1 DEF Indexing
      <4>2. <<b, apps[b]>> \in unindexed => <<b, apps[b]>> \in unindexed'
        BY <2>2, <3>3
      <4> QED BY <2>2, <2>4, <3>1, <4>1, <4>2 DEF Found
    <3> QED BY <3>2, <3>3
  <2>6. AppsFine'
    BY <1>1, <2>2, <2>4, <2>5 DEF AppsFine
  <2> QED BY <1>1, <2>1, <2>2, <2>6, CreditKeeps
\* What changes no call.
<1>4. ASSUME calling' = calling, UnchangedCredit, AppsFine' PROVE CacheInv'
  BY <1>4 DEF CacheInv, UnchangedCredit, ScoresFine, StaleOnlyByOverlap, RatedTogether, ScoreOnItsWay,
              RatingOnItsWay, ResponsesFine, ResponsesKeepTheirUser
<1>5. ASSUME NEW a \in CreditApps, invalidateApplicationCache(a) PROVE CacheInv'
  <2>1. apps' = [apps EXCEPT ![a] = "none"] /\ byStatus' = byStatus /\ unindexed' = unindexed /\ calling' = calling
    BY <1>5 DEF invalidateApplicationCache
  <2>2. ASSUME NEW b \in CreditApps PROVE Found(b)'
    <3>1. Found(b) /\ (apps'[b] = apps[b] \/ apps'[b] = "none")
      BY <1>1, <2>1 DEF CacheInv, AppsFine
    <3> QED BY <2>1, <3>1 DEF Found, Indexing
  <2>3. AppsFine'
    BY <1>1, <2>1, <2>2 DEF AppsFine
  <2> QED BY <1>4, <1>5, <2>3 DEF invalidateApplicationCache
<1>6. ASSUME NEW s \in AppStates, IndexExpires(s) PROVE CacheInv'
  <2>1. /\ byStatus' = [byStatus EXCEPT ![s] = {}] /\ apps' = apps /\ calling' = calling
        /\ unindexed' = unindexed \union {<<a, s>> : a \in byStatus[s]}
    BY <1>6 DEF IndexExpires
  <2>2. ASSUME NEW b \in CreditApps PROVE Found(b)'
    <3>1. Found(b) /\ apps[b] \in AppStates \union {"none"}
      BY <1>1 DEF CacheInv, AppsFine
    <3>2. CASE apps[b] = s /\ b \in byStatus[s]
      BY <2>1, <3>2 DEF Found
    <3>3. CASE ~(apps[b] = s /\ b \in byStatus[s])
      <4>1. apps[b] # "none" /\ b \in byStatus[apps[b]] => b \in byStatus'[apps[b]]
        BY <1>1, <2>1, <3>1, <3>3
      <4> QED BY <2>1, <3>1, <4>1 DEF Found, Indexing
    <3> QED BY <3>2, <3>3
  <2>3. AppsFine'
    BY <1>1, <2>1, <2>2 DEF AppsFine
  <2> QED BY <1>4, <1>6, <2>3 DEF IndexExpires
<1> QED BY <1>2, <1>3, <1>5, <1>6 DEF ApplicationsNext

LEMMA CacheStutter == CacheInv /\ UNCHANGED CacheVars => CacheInv'
BY DEF CacheVars, CacheInv, ScoresFine, StaleOnlyByOverlap, RatedTogether, ScoreOnItsWay, RatingOnItsWay,
       ResponsesFine, ResponsesKeepTheirUser, AppsFine, Found, Indexing

LEMMA CacheSuffices ==
    CacheInv => CacheTypeOK /\ ResponsesKeepTheirUser /\ StaleOnlyByOverlap /\ RatedTogether /\ FoundByStatus
<1> SUFFICES ASSUME CacheInv
             PROVE  CacheTypeOK /\ ResponsesKeepTheirUser /\ StaleOnlyByOverlap /\ RatedTogether /\ FoundByStatus
  OBVIOUS
<1>1. FoundByStatus
  BY DEF CacheInv, AppsFine, Found, Indexing, FoundByStatus
<1> QED BY <1>1 DEF CacheInv, CacheTypeOK, ScoresFine, AppsFine, ResponsesFine, Versions

\* With any users, applicants, applications and clients whose reads at the source and writes to the
\* cache interleave with changes, invalidations, failures and expiries, a response is found only by
\* its user, a score is old and a rating apart from its score only for a named reason, and a cached
\* application is found under its status.
THEOREM CachedIsCurrent ==
    CacheSpec => [](CacheTypeOK /\ ResponsesKeepTheirUser /\ StaleOnlyByOverlap /\ RatedTogether /\ FoundByStatus)
<1>1. CacheInit => CacheInv
  BY CacheInitially
<1>2. CacheInv /\ [ResponsesNext \/ ScoresNext \/ ApplicationsNext]_CacheVars => CacheInv'
  BY ResponsesStep, ScoresStep, ApplicationsStep, CacheStutter
<1>3. CacheInv => CacheTypeOK /\ ResponsesKeepTheirUser /\ StaleOnlyByOverlap /\ RatedTogether /\ FoundByStatus
  BY CacheSuffices
<1> QED BY <1>1, <1>2, <1>3, PTL DEF CacheSpec

-----------------------------------------------------------------------------
(***************************************************************************)
(* Values, counters and lists in Redis, for any keys, items and clients.   *)
(***************************************************************************)
Origins == 1 .. MaxOrigin
Fetched == UNION {[keys -> Origins] : keys \in SUBSET StoreKeys}
StoreCalls ==
    {Resting} \union [pc : {"fetch", "delete"}, keys : SUBSET StoreKeys]
    \union [pc : {"fetch", "store"}, keys : SUBSET StoreKeys, held : Fetched]
HeldBy(c) == IF "held" \in DOMAIN c THEN c.held ELSE [key \in {} |-> 0]

\* What was fetched is the origin's, unless the origin changed since.
HeldFresh(c) == \A key \in DOMAIN HeldBy(c) : key \in outdated \/ HeldBy(c)[key] = origin[key]
ValuesFine ==
    /\ origin \in [StoreKeys -> Origins] /\ kept \in [StoreKeys -> 0 .. MaxOrigin]
    /\ storing \in [Clients -> StoreCalls] /\ \A k \in Clients : HeldFresh(storing[k])
    /\ OldOnlyByOverlap

StatsFine(s) ==
    /\ s \in [hits : Nat, misses : Nat, errors : Nat, rate : Nat \X Nat]
    /\ s.rate = <<s.hits, s.hits + s.misses>>
CounterFine ==
    /\ counter \in Nat /\ counted \in [answered : Nat, besides : Nat]
    /\ counted.answered <= counter /\ counter <= counted.answered + counted.besides

\* An item was not handed over yet and waits in one place at most, or was and waits nowhere.
InOnePlace(item) == \A m, n \in 1 .. Len(list) : list[m] = item /\ list[n] = item => m = n
NotListed(item) == \A n \in 1 .. Len(list) : list[n] # item
ItemFine(item) == (given[item] = 0 /\ InOnePlace(item)) \/ (given[item] = 1 /\ NotListed(item))
ListFine ==
    /\ list \in Seq(Items) /\ given \in [Items -> Nat]
    /\ \A item \in Items \ astray : ItemFine(item)
StoreInv == ValuesFine /\ StatsFine(told) /\ CounterFine /\ ListFine

LEMMA StoreCallKinds ==
    ASSUME NEW c \in StoreCalls
    PROVE  /\ HeldBy(c) \in Fetched
           /\ c # Resting => c.keys \in SUBSET StoreKeys
           /\ c.pc \in {"fetch", "delete"} \/ c = Resting \/ c.pc = "store"
<1>1. [key \in {} |-> 0] \in Fetched
  <2>1. [key \in {} |-> 0] \in [{} -> Origins]
    OBVIOUS
  <2> QED BY <2>1 DEF Fetched
<1>2. CASE c = Resting
  BY <1>1, <1>2 DEF Resting, HeldBy
<1>3. CASE c \in [pc : {"fetch", "delete"}, keys : SUBSET StoreKeys]
  BY <1>1, <1>3 DEF HeldBy
<1>4. CASE c \in [pc : {"fetch", "store"}, keys : SUBSET StoreKeys, held : Fetched]
  BY <1>4 DEF HeldBy
<1> QED BY <1>2, <1>3, <1>4 DEF StoreCalls

\* Calls that hold nothing.
LEMMA EmptyHanded ==
    /\ Resting \in StoreCalls /\ HeldFresh(Resting) /\ Resting.pc = "resting"
    /\ \A pc \in {"fetch", "delete"}, keys \in SUBSET StoreKeys :
           LET c == [pc |-> pc, keys |-> keys] IN c \in StoreCalls /\ HeldFresh(c) /\ HeldBy(c) = [key \in {} |-> 0]
BY DEF StoreCalls, HeldFresh, HeldBy, Resting

LEMMA HeldIsHeldBy == \A k \in Clients : Held(k) = HeldBy(storing[k])
BY DEF Held, HeldBy

\* The statistics stay current, whatever they count.
LEMMA StatsKeep ==
    ASSUME NEW s0, StatsFine(s0), NEW h \in Nat, NEW m \in Nat
    PROVE  /\ StatsFine(updateHitRate([s0 EXCEPT !.hits = @ + h, !.misses = @ + m]))
           /\ StatsFine(updateHitRate([s0 EXCEPT !.hits = @ + h]))
           /\ StatsFine(updateHitRate([s0 EXCEPT !.misses = @ + m]))
           /\ StatsFine([s0 EXCEPT !.errors = @ + 1])
           /\ StatsFine(updateHitRate([s0 EXCEPT !.errors = @ + 1]))
<1> DEFINE Stats == [hits : Nat, misses : Nat, errors : Nat, rate : Nat \X Nat]
<1>1. s0 \in Stats /\ s0.rate = <<s0.hits, s0.hits + s0.misses>>
  BY DEF StatsFine
<1>2. ASSUME NEW s \in Stats PROVE StatsFine(updateHitRate(s))
  BY DEF StatsFine, updateHitRate
<1>3. [s0 EXCEPT !.hits = @ + h, !.misses = @ + m] \in Stats
  <2>1. PICK a \in Nat : a = s0.hits + h
    BY <1>1
  <2>2. PICK b \in Nat : b = s0.misses + m
    BY <1>1
  <2>3. [s0 EXCEPT !.hits = a, !.misses = b] \in Stats
    BY <1>1
  <2> QED BY <2>1, <2>2, <2>3
<1>4. [s0 EXCEPT !.hits = @ + h] \in Stats
  BY <1>1
<1>5. [s0 EXCEPT !.misses = @ + m] \in Stats
  BY <1>1
<1>6. [s0 EXCEPT !.errors = @ + 1] \in Stats
  BY <1>1
<1>7. StatsFine([s0 EXCEPT !.errors = @ + 1])
  BY <1>1, <1>6 DEF StatsFine
<1> QED BY <1>2, <1>3, <1>4, <1>5, <1>6, <1>7

LEMMA ToldKeeps == StatsFine(told) => \A outcome : StatsFine(Told(outcome)) /\ StatsFine(AfterError)
<1>1. ASSUME StatsFine(told) PROVE StatsFine(AfterError)
  BY <1>1, StatsKeep DEF AfterError
<1> QED BY <1>1 DEF Told

LEMMA StoreInitially == StoreInit => StoreInv
<1> SUFFICES ASSUME StoreInit PROVE StoreInv
  OBVIOUS
<1>1. MaxOrigin \in Nat \ {0}
  BY CacheStoreAssumption
<1>2. ValuesFine
  BY <1>1, EmptyHanded DEF StoreInit, ValuesFine, Origins, OldOnlyByOverlap
<1>3. StatsFine(told)
  BY DEF StoreInit, StatsFine, NothingTold
<1>4. CounterFine
  BY DEF StoreInit, CounterFine
<1>5. ListFine
  BY DEF StoreInit, ListFine, ItemFine, InOnePlace
<1> QED BY <1>2, <1>3, <1>4, <1>5 DEF StoreInv

\* A call that is no deletion becomes another, and nothing else about the values changes.
LEMMA StartKeeps ==
    ASSUME ValuesFine, NEW k \in Clients, NEW c \in StoreCalls, HeldFresh(c), Start(k, c),
           storing[k].pc # "delete", UNCHANGED <<origin, kept, outdated>>
    PROVE  ValuesFine'
<1>1. storing' = [storing EXCEPT ![k] = c] /\ storing \in [Clients -> StoreCalls]
  BY DEF Start, ValuesFine
<1>2. \A j \in Clients : (storing'[j] = storing[j] /\ j # k) \/ (j = k /\ storing'[j] = c)
  BY <1>1
<1>3. (\A j \in Clients : HeldFresh(storing[j]))'
  BY <1>2 DEF ValuesFine, HeldFresh
<1>4. OldOnlyByOverlap'
  BY <1>2 DEF ValuesFine, OldOnlyByOverlap
<1> QED BY <1>1, <1>3, <1>4 DEF ValuesFine

LEMMA FetcherKeeps ==
    ASSUME ValuesFine, NEW k \in Clients, NEW key \in StoreKeys, NEW throws \in BOOLEAN, fetcher(k, key, throws)
    PROVE  ValuesFine'
<1> DEFINE got == IF throws THEN Held(k)
                  ELSE [other \in DOMAIN Held(k) \union {key} |-> IF other = key THEN origin[key] ELSE Held(k)[other]]
           rest == storing[k].keys \ {key}
<1>1. storing[k] \in StoreCalls /\ storing[k].pc = "fetch" /\ storing[k] # Resting
  BY EmptyHanded DEF ValuesFine, fetcher
<1>2. rest \in SUBSET StoreKeys /\ HeldBy(storing[k]) \in Fetched
  BY <1>1, StoreCallKinds
<1>3. Held(k) = HeldBy(storing[k]) /\ Held(k) \in Fetched
  BY <1>2, HeldIsHeldBy
<1>4. \A other \in DOMAIN Held(k) : other \in outdated \/ Held(k)[other] = origin[other]
  BY <1>3 DEF ValuesFine, HeldFresh
<1>5. got \in Fetched
  <2>1. PICK keys \in SUBSET StoreKeys : Held(k) \in [keys -> Origins]
    BY <1>3 DEF Fetched
  <2>2. origin[key] \in Origins
    BY DEF ValuesFine
  <2>3. got \in [keys -> Origins] \/ got \in [keys \union {key} -> Origins]
    BY <2>1, <2>2
  <2>4. keys \union {key} \in SUBSET StoreKeys
    OBVIOUS
  <2> QED BY <2>3, <2>4 DEF Fetched
<1>6. \A other \in DOMAIN got : other \in outdated \/ got[other] = origin[other]
  BY <1>4
<1>7. ASSUME NEW pc \in {"fetch", "store"}, NEW keys \in SUBSET StoreKeys
      PROVE  LET c == [pc |-> pc, keys |-> keys, held |-> got] IN c \in StoreCalls /\ HeldFresh(c)
  BY <1>5, <1>6 DEF StoreCalls, HeldFresh, HeldBy
<1>8. PICK c \in StoreCalls : HeldFresh(c) /\ Start(k, c)
  <2>1. CASE rest # {}
    <3>1. Start(k, [pc |-> "fetch", keys |-> rest, held |-> got])
      BY <2>1 DEF fetcher
    <3>2. LET c == [pc |-> "fetch", keys |-> rest, held |-> got] IN c \in StoreCalls /\ HeldFresh(c)
      BY <1>2, <1>7
    <3> HIDE DEF got, rest
    <3> QED BY <3>1, <3>2
  <2>2. CASE rest = {} /\ DOMAIN got = {}
    <3>1. Start(k, Resting)
      BY <2>2 DEF fetcher
    <3> QED BY <3>1, EmptyHanded
  <2>3. CASE rest = {} /\ DOMAIN got # {}
    <3>1. Start(k, [pc |-> "store", keys |-> {}, held |-> got])
      BY <2>3 DEF fetcher
    <3> QED BY <1>7, <3>1
  <2> QED BY <2>1, <2>2, <2>3
<1> QED BY <1>1, <1>8, StartKeeps DEF fetcher

LEMMA SetKeeps ==
    ASSUME ValuesFine, NEW k \in Clients, NEW outcome \in Outcomes, set(k, outcome)
    PROVE  ValuesFine'
<1> DEFINE got == Held(k)
<1>1. storing[k] \in StoreCalls /\ storing[k].pc = "store" /\ got = HeldBy(storing[k])
  BY HeldIsHeldBy DEF ValuesFine, set
<1>2. PICK keys \in SUBSET StoreKeys : got \in [keys -> Origins]
  BY <1>1, StoreCallKinds DEF Fetched
<1>3. \A key \in keys : key \in outdated \/ got[key] = origin[key]
  BY <1>1, <1>2 DEF ValuesFine, HeldFresh
<1>4. storing' = [storing EXCEPT ![k] = Resting] /\ UNCHANGED <<origin, outdated>>
  BY DEF set, Start
<1>5. kept \in [StoreKeys -> 0 .. MaxOrigin] /\ kept' \in [StoreKeys -> 0 .. MaxOrigin]
  <2>1. Origins \subseteq 0 .. MaxOrigin
    BY CacheStoreAssumption DEF Origins
  <2>2. With(got) \in [StoreKeys -> 0 .. MaxOrigin]
    BY <1>2, <2>1 DEF With, ValuesFine
  <2> QED BY <2>2 DEF ValuesFine, set
<1>6. ASSUME NEW key \in StoreKeys PROVE kept'[key] = kept[key] \/ key \in outdated \/ kept'[key] = origin[key]
  <2>1. kept' = kept \/ kept' = With(got)
    BY DEF set
  <2>2. With(got)[key] = IF key \in DOMAIN got THEN got[key] ELSE kept[key]
    BY DEF With
  <2> HIDE DEF got
  <2> QED BY <1>2, <1>3, <2>1, <2>2
<1>7. storing \in [Clients -> StoreCalls]
  BY DEF ValuesFine
<1>8. \A j \in Clients : (storing'[j] = storing[j] /\ j # k) \/ (j = k /\ storing'[j] = Resting)
  BY <1>4, <1>7
<1>9. (\A j \in Clients : HeldFresh(storing[j]))' /\ storing' \in [Clients -> StoreCalls]
  BY <1>4, <1>7, <1>8, EmptyHanded DEF ValuesFine, HeldFresh
<1>10. OldOnlyByOverlap'
  <2> SUFFICES ASSUME NEW key \in StoreKeys \ outdated
               PROVE  kept'[key] \in {0, origin[key]}
                      \/ \E j \in Clients : storing'[j].pc = "delete" /\ key \in storing'[j].keys
    BY <1>4 DEF OldOnlyByOverlap
  <2>1. kept[key] \in {0, origin[key]} \/ \E j \in Clients : storing[j].pc = "delete" /\ key \in storing[j].keys
    BY DEF ValuesFine, OldOnlyByOverlap
  <2> QED BY <1>1, <1>6, <1>8, <2>1
<1> QED BY <1>4, <1>5, <1>9, <1>10 DEF ValuesFine

LEMMA InvalidateAfterKeeps ==
    ASSUME ValuesFine, NEW k \in Clients, NEW key \in StoreKeys, Idle(k), invalidateAfter(k, key)
    PROVE  ValuesFine'
<1> DEFINE c == [pc |-> "delete", keys |-> {key}]
<1>1. storing' = [storing EXCEPT ![k] = c] /\ storing \in [Clients -> StoreCalls] /\ storing[k] = Resting
  BY DEF invalidateAfter, Start, ValuesFine, Idle
<1>2. c \in StoreCalls /\ HeldBy(c) = [other \in {} |-> 0]
  BY EmptyHanded
<1>3. \A j \in Clients : (storing'[j] = storing[j] /\ j # k) \/ (j = k /\ storing'[j] = c)
  BY <1>1
<1>4. origin' \in [StoreKeys -> Origins] /\ \A other \in StoreKeys \ {key} : origin'[other] = origin[other]
  <2>1. origin \in [StoreKeys -> Origins] /\ origin[key] < MaxOrigin /\ MaxOrigin \in Nat
    BY CacheStoreAssumption DEF ValuesFine, invalidateAfter
  <2>2. origin[key] + 1 \in Origins
    BY <2>1 DEF Origins
  <2> QED BY <2>1, <2>2 DEF invalidateAfter
<1>5. outdated \subseteq outdated' /\ kept' = kept
  BY DEF invalidateAfter
<1>6. ASSUME NEW j \in Clients PROVE HeldFresh(storing[j])'
  <2>1. CASE j = k
    BY <1>2, <1>3, <2>1 DEF HeldFresh
  <2>2. CASE j # k
    <3>1. storing'[j] = storing[j] /\ storing[j] \in StoreCalls /\ HeldBy(storing[j]) = Held(j)
      BY <1>1, <1>3, <2>2, HeldIsHeldBy
    <3>2. DOMAIN HeldBy(storing[j]) \subseteq StoreKeys
      BY <3>1, StoreCallKinds DEF Fetched
    <3>3. key \in DOMAIN Held(j) => key \in outdated'
      <4>1. storing[j] = Resting => DOMAIN Held(j) = {}
        BY DEF Held, Resting
      <4> QED BY <4>1 DEF invalidateAfter
    <3>4. HeldFresh(storing[j])
      BY DEF ValuesFine
    <3> QED BY <1>4, <1>5, <3>1, <3>2, <3>3, <3>4 DEF HeldFresh
  <2> QED BY <2>1, <2>2
<1>7. OldOnlyByOverlap'
  <2> SUFFICES ASSUME NEW other \in StoreKeys \ outdated
               PROVE  kept[other] \in {0, origin'[other]}
                      \/ \E j \in Clients : storing'[j].pc = "delete" /\ other \in storing'[j].keys
    BY <1>5 DEF OldOnlyByOverlap
  <2>1. kept[other] \in {0, origin[other]} \/ \E j \in Clients : storing[j].pc = "delete" /\ other \in storing[j].keys
    BY DEF ValuesFine, OldOnlyByOverlap
  <2>2. CASE other = key
    BY <1>3, <2>2
  <2>3. CASE other # key
    BY <1>1, <1>3, <1>4, <2>1, <2>3, EmptyHanded
  <2> QED BY <2>2, <2>3
<1>8. storing' \in [Clients -> StoreCalls]
  BY <1>1, <1>2
<1> HIDE DEF c
<1> QED BY <1>4, <1>5, <1>6, <1>7, <1>8 DEF ValuesFine

LEMMA DeletionKeeps ==
    ASSUME ValuesFine, NEW k \in Clients, NEW outcome \in Outcomes, mdel(k, outcome)
    PROVE  ValuesFine'
<1> DEFINE keys == storing[k].keys
<1>1. storing' = [storing EXCEPT ![k] = Resting] /\ storing \in [Clients -> StoreCalls] /\ origin' = origin
  BY DEF mdel, Start, ValuesFine
<1>2. \A j \in Clients : (storing'[j] = storing[j] /\ j # k) \/ (j = k /\ storing'[j] = Resting)
  BY <1>1
<1>3. \/ kept' = Without(keys) /\ outdated' = outdated
      \/ kept' = kept /\ outdated' = outdated \union keys
  BY DEF mdel
<1>4. kept' \in [StoreKeys -> 0 .. MaxOrigin]
  <2>1. 0 \in 0 .. MaxOrigin /\ kept \in [StoreKeys -> 0 .. MaxOrigin]
    BY CacheStoreAssumption DEF ValuesFine
  <2> QED BY <1>3, <2>1 DEF Without
<1>5. ASSUME NEW key \in StoreKeys
      PROVE  (kept'[key] = kept[key] /\ (key \in keys => key \in outdated')) \/ kept'[key] = 0
  BY <1>3 DEF Without
<1>6. outdated \subseteq outdated'
  BY <1>3
<1>7. (\A j \in Clients : HeldFresh(storing[j]))' /\ storing' \in [Clients -> StoreCalls]
  BY <1>1, <1>2, <1>6, EmptyHanded DEF ValuesFine, HeldFresh, HeldBy, Resting
<1>8. OldOnlyByOverlap'
  <2> SUFFICES ASSUME NEW key \in StoreKeys \ outdated'
               PROVE  kept'[key] \in {0, origin[key]}
                      \/ \E j \in Clients : storing'[j].pc = "delete" /\ key \in storing'[j].keys
    BY <1>1 DEF OldOnlyByOverlap
  <2>1. kept[key] \in {0, origin[key]} \/ \E j \in Clients : storing[j].pc = "delete" /\ key \in storing[j].keys
    BY <1>6 DEF ValuesFine, OldOnlyByOverlap
  <2> QED BY <1>2, <1>5, <2>1
<1> QED BY <1>1, <1>4, <1>7, <1>8 DEF ValuesFine

LEMMA ExpiryKeeps ==
    ASSUME ValuesFine, NEW keys, kept' = Without(keys), UNCHANGED <<origin, storing, outdated>>
    PROVE  ValuesFine'
<1>1. kept' \in [StoreKeys -> 0 .. MaxOrigin]
  <2>1. 0 \in 0 .. MaxOrigin /\ kept \in [StoreKeys -> 0 .. MaxOrigin]
    BY CacheStoreAssumption DEF ValuesFine
  <2> QED BY <2>1 DEF Without
<1>2. \A key \in StoreKeys : kept'[key] \in {0, kept[key]}
  BY DEF Without
<1>3. OldOnlyByOverlap'
  BY <1>2 DEF ValuesFine, OldOnlyByOverlap
<1> QED BY <1>1, <1>3 DEF ValuesFine, HeldFresh

LEMMA SameValues == ValuesFine /\ UNCHANGED <<origin, kept, storing, outdated>> => ValuesFine'
BY DEF ValuesFine, OldOnlyByOverlap, HeldFresh
LEMMA SameCounter == CounterFine /\ UNCHANGED <<counter, counted>> => CounterFine'
BY DEF CounterFine
LEMMA SameList == ListFine /\ UNCHANGED <<list, given, astray>> => ListFine'
BY DEF ListFine, ItemFine, InOnePlace, NotListed
LEMMA SameStats == StatsFine(told) /\ UNCHANGED told => StatsFine(told)'
BY DEF StatsFine

\* Steps about values leave the counter and the list alone.
LEMMA ValuesStep == StoreInv /\ ValuesNext => StoreInv'
<1> SUFFICES ASSUME StoreInv, ValuesNext PROVE StoreInv'
  OBVIOUS
<1>1. ValuesFine /\ StatsFine(told) /\ CounterFine /\ ListFine
  BY DEF StoreInv
<1>2. (\A outcome : StatsFine(Told(outcome))) /\ StatsFine(AfterError)
  BY <1>1, ToldKeeps
<1>3. ASSUME ValuesFine', StatsFine(told)', UNCHANGED <<counter, counted, list, given, astray>> PROVE StoreInv'
  BY <1>1, <1>3, SameCounter, SameList DEF StoreInv
<1>4. ASSUME NEW k \in Clients, NEW key \in StoreKeys, NEW works \in BOOLEAN, NEW thenFetch \in BOOLEAN,
             Idle(k), get(k, key, works, thenFetch)
      PROVE  StoreInv'
  <2>1. StatsFine(told')
    <3>1. /\ StatsFine(updateHitRate([told EXCEPT !.hits = @ + 1]))
          /\ StatsFine(updateHitRate([told EXCEPT !.misses = @ + 1]))
      BY <1>1, StatsKeep
    <3> QED BY <1>2, <1>4, <3>1 DEF get
  <2>2. PICK c \in StoreCalls : HeldFresh(c) /\ Start(k, c)
    <3>1. {key} \in SUBSET StoreKeys
      OBVIOUS
    <3>2. Start(k, Resting) \/ Start(k, [pc |-> "fetch", keys |-> {key}])
      BY <1>4 DEF get
    <3> QED BY <3>1, <3>2, EmptyHanded
  <2>3. storing[k].pc # "delete"
    BY <1>4, EmptyHanded DEF Idle
  <2>4. ValuesFine'
    BY <1>1, <1>4, <2>2, <2>3, StartKeeps DEF get
  <2> QED BY <1>3, <1>4, <2>1, <2>4 DEF get
<1>5. ASSUME NEW works \in BOOLEAN, mget(StoreKeys, works) PROVE StoreInv'
  <2> DEFINE found == {key \in StoreKeys : kept[key] # 0}
             h == Cardinality(found)
             m == Cardinality(StoreKeys) - h
  <2>1. h \in Nat /\ m \in Nat
    <3>1. IsFiniteSet(StoreKeys) /\ found \subseteq StoreKeys
      BY CacheStoreAssumption
    <3>2. IsFiniteSet(found) /\ Cardinality(found) <= Cardinality(StoreKeys)
      BY <3>1, FS_Subset
    <3>3. Cardinality(found) \in Nat /\ Cardinality(StoreKeys) \in Nat
      BY <3>1, <3>2, FS_CardinalityType
    <3> QED BY <3>2, <3>3
  <2>2. told \in [hits : Nat, misses : Nat, errors : Nat, rate : Nat \X Nat]
    BY <1>1 DEF StatsFine
  <2>3. Cardinality(StoreKeys) \in Nat /\ told.misses \in Nat
    BY <2>2, FS_CardinalityType, CacheStoreAssumption
  <2>4. told.misses + Cardinality(StoreKeys) - h = told.misses + m
    BY <2>1, <2>3
  <2>5. told' = updateHitRate([told EXCEPT !.hits = @ + h, !.misses = @ + m]) \/ told' = updateHitRate(AfterError)
    BY <1>5, <2>4 DEF mget
  <2>6. StatsFine(updateHitRate(AfterError))
    BY <1>1, StatsKeep DEF AfterError
  <2>7. StatsFine(updateHitRate([told EXCEPT !.hits = @ + h, !.misses = @ + m]))
    <3> HIDE DEF h, m
    <3> QED BY <1>1, <2>1, StatsKeep
  <2>8. StatsFine(told')
    BY <2>5, <2>6, <2>7
  <2>9. UNCHANGED <<origin, kept, storing, outdated, counter, counted, list, given, astray>>
    BY <1>5 DEF mget
  <2> QED BY <1>1, <1>3, <2>8, <2>9, SameValues
<1>6. ASSUME NEW k \in Clients, NEW outcome \in Outcomes, set(k, outcome) PROVE StoreInv'
  <2>1. ValuesFine'
    BY <1>1, <1>6, SetKeeps
  <2> QED BY <1>2, <1>3, <1>6, <2>1 DEF set
<1>7. ASSUME NEW k \in Clients, NEW outcome \in Outcomes, mdel(k, outcome) PROVE StoreInv'
  <2>1. ValuesFine'
    BY <1>1, <1>7, DeletionKeeps
  <2> QED BY <1>2, <1>3, <1>7, <2>1 DEF mdel
<1>8. ASSUME NEW k \in Clients, Idle(k), warm(k, StoreKeys) PROVE StoreInv'
  <2>1. [pc |-> "fetch", keys |-> StoreKeys] \in StoreCalls /\ HeldFresh([pc |-> "fetch", keys |-> StoreKeys])
    BY EmptyHanded
  <2>2. storing[k].pc # "delete"
    BY <1>8, EmptyHanded DEF Idle
  <2>3. ValuesFine'
    BY <1>1, <1>8, <2>1, <2>2, StartKeeps DEF warm
  <2> QED BY <1>1, <1>3, <1>8, <2>3, SameStats DEF warm
<1>9. ASSUME NEW k \in Clients, NEW key \in StoreKeys, Idle(k), invalidateAfter(k, key) PROVE StoreInv'
  <2>1. ValuesFine'
    BY <1>1, <1>9, InvalidateAfterKeeps
  <2> QED BY <1>1, <1>3, <1>9, <2>1, SameStats DEF invalidateAfter
<1>10. ASSUME NEW k \in Clients, NEW key \in StoreKeys, NEW throws \in BOOLEAN, fetcher(k, key, throws) PROVE StoreInv'
  <2>1. ValuesFine'
    BY <1>1, <1>10, FetcherKeeps
  <2> QED BY <1>1, <1>3, <1>10, <2>1, SameStats DEF fetcher
<1>11. ASSUME NEW keys, Expires(keys) PROVE StoreInv'
  <2>1. ValuesFine'
    BY <1>1, <1>11, ExpiryKeeps DEF Expires
  <2> QED BY <1>1, <1>3, <1>11, <2>1, SameStats DEF Expires
<1>12. ASSUME resetStats PROVE StoreInv'
  <2>1. StatsFine(NothingTold)
    BY DEF StatsFine, NothingTold
  <2> QED BY <1>1, <1>3, <1>12, <2>1, SameValues DEF resetStats
<1> QED BY <1>4, <1>5, <1>6, <1>7, <1>8, <1>9, <1>10, <1>11, <1>12 DEF ValuesNext

-----------------------------------------------------------------------------
LEMMA TimesAre == \A outcome \in Outcomes : Times(outcome) \in 0 .. 2
BY DEF Outcomes, Times

LEMMA IncrementKeeps ==
    ASSUME CounterFine, NEW outcome \in Outcomes, incr(outcome)
    PROVE  CounterFine'
<1>1. CASE outcome = "answered"
  BY <1>1 DEF CounterFine, incr, Times, IsAnswered
<1>2. CASE outcome = "resent"
  BY <1>2 DEF CounterFine, incr, Times, IsAnswered
<1>3. CASE outcome = "lost"
  BY <1>3 DEF CounterFine, incr, Times, IsAnswered
<1>4. CASE outcome = "failed"
  BY <1>4 DEF CounterFine, incr, Times, IsAnswered
<1> QED BY <1>1, <1>2, <1>3, <1>4 DEF Outcomes

LEMMA PushKeeps ==
    ASSUME ListFine, NEW item \in Items, NEW outcome \in Outcomes, lpush(item, outcome)
    PROVE  ListFine'
<1> DEFINE t == Times(outcome)
           head == [n \in 1 .. t |-> item]
<1>1. t \in Nat /\ (outcome = "answered" => t = 1)
  BY TimesAre DEF Times
<1>2. list \in Seq(Items) /\ Len(list) \in Nat /\ given \in [Items -> Nat]
  BY DEF ListFine
<1>3. head \in Seq(Items) /\ Len(head) = t /\ \A n \in 1 .. t : head[n] = item
  <2>1. head \in [1 .. t -> Items]
    OBVIOUS
  <2>2. head \in Seq(Items)
    BY <1>1, <2>1 DEF Seq
  <2> HIDE DEF t
  <2> QED BY <1>1, <2>1, <2>2
<1>4. list' = head \o list /\ given' = given /\ astray \subseteq astray' /\ (outcome # "answered" => item \in astray')
  BY DEF lpush
<1>5. \A n \in 1 .. Len(list) : list[n] # item
  BY <1>2 DEF lpush
<1> HIDE DEF head, t
<1>6. list' \in Seq(Items) /\ Len(list') = t + Len(list)
      /\ \A n \in 1 .. t + Len(list) : list'[n] = IF n <= t THEN item ELSE list[n - t]
  <2>1. list' \in Seq(Items) /\ Len(list') = t + Len(list)
    BY <1>1, <1>2, <1>3, <1>4, ConcatProperties
  <2>2. \A n \in 1 .. t + Len(list) : list'[n] = IF n <= t THEN head[n] ELSE list[n - t]
    BY <1>1, <1>2, <1>3, <1>4, ConcatProperties
  <2> QED BY <1>1, <1>3, <2>1, <2>2
<1>7. ASSUME NEW i \in Items \ astray' PROVE ItemFine(i)'
  <2>1. ItemFine(i)
    BY <1>4 DEF ListFine
  <2>2. CASE i = item
    <3>1. outcome = "answered" /\ t = 1
      BY <1>1, <1>4, <2>2
    <3>2. given'[i] = 0
      BY <1>4, <2>2 DEF lpush
    <3>3. \A n \in 1 .. Len(list') : list'[n] = item => n = 1
      <4> SUFFICES ASSUME NEW n \in 1 .. 1 + Len(list), list'[n] = item, n # 1 PROVE FALSE
        BY <1>6, <3>1
      <4>1. n - 1 \in 1 .. Len(list) /\ list'[n] = list[n - 1]
        BY <1>2, <1>6, <3>1
      <4> QED BY <1>5, <4>1
    <3>4. InOnePlace(i)'
      BY <2>2, <3>3 DEF InOnePlace
    <3> QED BY <3>2, <3>4 DEF ItemFine
  <2>3. CASE i # item
    <3>1. \A n \in 1 .. Len(list') : list'[n] = i => n - t \in 1 .. Len(list) /\ list[n - t] = i
      <4> SUFFICES ASSUME NEW n \in 1 .. t + Len(list), list'[n] = i
                   PROVE  n - t \in 1 .. Len(list) /\ list[n - t] = i
        BY <1>6
      <4>1. ~(n <= t)
        BY <1>6, <2>3
      <4>2. n - t \in 1 .. Len(list)
        BY <1>1, <1>2, <4>1
      <4> QED BY <1>6, <4>1, <4>2
    <3>2. InOnePlace(i) => InOnePlace(i)'
      <4> SUFFICES ASSUME InOnePlace(i), NEW m \in 1 .. Len(list'), NEW n \in 1 .. Len(list'),
                          list'[m] = i, list'[n] = i
                   PROVE  m = n
        BY DEF InOnePlace
      <4>1. m - t = n - t
        BY <3>1 DEF InOnePlace
      <4> QED BY <1>1, <1>2, <1>6, <4>1
    <3>3. NotListed(i) => NotListed(i)'
      BY <3>1 DEF NotListed
    <3> QED BY <1>4, <2>1, <3>2, <3>3 DEF ItemFine
  <2> QED BY <2>2, <2>3
<1> QED BY <1>2, <1>4, <1>6, <1>7 DEF ListFine

LEMMA PopKeeps ==
    ASSUME ListFine, NEW outcome \in Outcomes, lpop(outcome)
    PROVE  ListFine'
<1> DEFINE t == Times(outcome)
           gone == IF t < Len(list) THEN t ELSE Len(list)
           answer == IF IsAnswered(outcome) /\ t <= Len(list) /\ gone > 0 THEN {list[gone]} ELSE {}
<1>1. t \in Nat /\ list \in Seq(Items) /\ Len(list) \in Nat /\ given \in [Items -> Nat]
  BY TimesAre DEF ListFine
<1>2. gone \in 0 .. Len(list)
  BY <1>1
<1>3. list' = SubSeq(list, gone + 1, Len(list))
  BY DEF lpop
<1>4. given' = [item \in Items |-> IF item \in answer THEN given[item] + 1 ELSE given[item]]
      /\ astray' = astray \union ({list[n] : n \in 1 .. gone} \ answer)
  BY DEF lpop
<1>5. answer = {} \/ (gone \in 1 .. Len(list) /\ answer = {list[gone]})
  BY <1>2
<1> HIDE DEF t, gone, answer
<1>6. list' \in Seq(Items) /\ Len(list') = Len(list) - gone
      /\ \A n \in 1 .. Len(list') : n + gone \in 1 .. Len(list) /\ list'[n] = list[n + gone]
  <2>1. gone + 1 \in 1 .. Len(list) + 1 /\ gone \in Nat
    BY <1>1, <1>2
  <2>2. list' \in Seq(Items) /\ Len(list') = Len(list) - gone
    BY <1>1, <1>2, <1>3, <2>1
  <2>3. ASSUME NEW n \in 1 .. Len(list') PROVE n + gone \in 1 .. Len(list) /\ list'[n] = list[n + gone]
    BY <1>1, <1>2, <1>3, <2>1, <2>2
  <2> QED BY <2>2, <2>3
<1>7. given' \in [Items -> Nat]
  BY <1>1, <1>4
<1>8. ASSUME NEW i \in Items \ astray' PROVE ItemFine(i)'
  <2>1. ItemFine(i) /\ \A n \in 1 .. gone : list[n] = i => i \in answer
    BY <1>4 DEF ListFine
  <2>2. CASE i \in answer
    <3>1. gone \in 1 .. Len(list) /\ list[gone] = i
      BY <1>5, <2>2
    <3>2. given[i] = 0 /\ InOnePlace(i)
      BY <2>1, <3>1 DEF ItemFine, NotListed
    <3>3. given'[i] = 1
      BY <1>4, <2>2, <3>2
    <3>4. NotListed(i)'
      <4> SUFFICES ASSUME NEW n \in 1 .. Len(list'), list'[n] = i PROVE FALSE
        BY DEF NotListed
      <4>1. n + gone = gone
        BY <1>6, <3>1, <3>2 DEF InOnePlace
      <4>2. n \in Int /\ n >= 1 /\ gone \in Int
        BY <1>2, <1>6, <1>1
      <4> QED BY <4>1, <4>2
    <3> QED BY <3>3, <3>4 DEF ItemFine
  <2>3. CASE i \notin answer
    <3>1. given'[i] = given[i]
      BY <1>4, <2>3
    <3>2. InOnePlace(i) => InOnePlace(i)'
      <4> SUFFICES ASSUME InOnePlace(i), NEW m \in 1 .. Len(list'), NEW n \in 1 .. Len(list'),
                          list'[m] = i, list'[n] = i
                   PROVE  m = n
        BY DEF InOnePlace
      <4>1. m + gone = n + gone
        BY <1>6 DEF InOnePlace
      <4>2. m \in Int /\ n \in Int /\ gone \in Int
        BY <1>2, <1>6, <1>1
      <4> QED BY <4>1, <4>2
    <3>3. NotListed(i) => NotListed(i)'
      BY <1>6 DEF NotListed
    <3> QED BY <2>1, <3>1, <3>2, <3>3 DEF ItemFine
  <2> QED BY <2>2, <2>3
<1> QED BY <1>6, <1>7, <1>8 DEF ListFine

LEMMA CountersStep == StoreInv /\ CountersNext => StoreInv'
<1> SUFFICES ASSUME StoreInv, CountersNext PROVE StoreInv'
  OBVIOUS
<1>1. ValuesFine /\ StatsFine(told) /\ CounterFine /\ ListFine
  BY DEF StoreInv
<1>2. \A outcome : StatsFine(Told(outcome))
  BY <1>1, ToldKeeps
<1>3. ASSUME NEW outcome \in Outcomes, incr(outcome) PROVE StoreInv'
  <2>1. CounterFine'
    BY <1>1, <1>3, IncrementKeeps
  <2> QED BY <1>1, <1>2, <1>3, <2>1, SameValues, SameList DEF StoreInv, incr
<1>4. ASSUME NEW outcome \in Outcomes, lpop(outcome) PROVE StoreInv'
  <2>1. ListFine'
    BY <1>1, <1>4, PopKeeps
  <2> QED BY <1>1, <1>2, <1>4, <2>1, SameValues, SameCounter DEF StoreInv, lpop
<1>5. ASSUME NEW outcome \in Outcomes, NEW item \in Items, lpush(item, outcome) PROVE StoreInv'
  <2>1. ListFine'
    BY <1>1, <1>5, PushKeeps
  <2> QED BY <1>1, <1>2, <1>5, <2>1, SameValues, SameCounter DEF StoreInv, lpush
<1> QED BY <1>3, <1>4, <1>5 DEF CountersNext

LEMMA StoreStutter == StoreInv /\ UNCHANGED StoreVars => StoreInv'
BY SameValues, SameCounter, SameList, SameStats DEF StoreInv, StoreVars

LEMMA StoreSuffices ==
    StoreInv => StoreTypeOK /\ OldOnlyByOverlap /\ RateIsCurrent /\ IncrementsAreKept /\ HandedOverOnce
<1> SUFFICES ASSUME StoreInv
             PROVE  StoreTypeOK /\ OldOnlyByOverlap /\ RateIsCurrent /\ IncrementsAreKept /\ HandedOverOnce
  OBVIOUS
<1>1. StoreTypeOK
  BY DEF StoreInv, StoreTypeOK, ValuesFine, StatsFine, CounterFine, ListFine, Origins
<1>2. HandedOverOnce
  <2> SUFFICES ASSUME NEW item \in Items \ astray
               PROVE  given[item] + Cardinality({n \in DOMAIN list : list[n] = item}) <= 1
    BY DEF HandedOverOnce
  <2> DEFINE S == {n \in DOMAIN list : list[n] = item}
  <2>1. ItemFine(item) /\ DOMAIN list = 1 .. Len(list)
    BY DEF StoreInv, ListFine
  <2>2. CASE S = {}
    <3>1. Cardinality(S) = 0
      BY <2>2, FS_EmptySet
    <3> QED BY <2>1, <3>1 DEF ItemFine
  <2>3. CASE S # {}
    <3>1. PICK n : S = {n}
      BY <2>1, <2>3 DEF ItemFine, InOnePlace, NotListed
    <3>2. Cardinality(S) = 1
      BY <3>1, FS_Singleton
    <3>3. given[item] = 0
      BY <2>1, <2>3 DEF ItemFine, NotListed
    <3> QED BY <3>2, <3>3
  <2> QED BY <2>2, <2>3
<1> QED BY <1>1, <1>2 DEF StoreInv, ValuesFine, StatsFine, CounterFine, RateIsCurrent, IncrementsAreKept

\* With any keys, items and clients, and commands that fail, are lost or are sent twice, a value is old
\* only by overlap or a failed deletion, the rate is that of the counts, no increment is lost, and an
\* item is handed to one caller.
THEOREM StoreIsFaithful ==
    StoreSpec => [](StoreTypeOK /\ OldOnlyByOverlap /\ RateIsCurrent /\ IncrementsAreKept /\ HandedOverOnce)
<1>1. StoreInit => StoreInv
  BY StoreInitially
<1>2. StoreInv /\ [ValuesNext \/ CountersNext]_StoreVars => StoreInv'
  BY ValuesStep, CountersStep, StoreStutter
<1>3. StoreInv => StoreTypeOK /\ OldOnlyByOverlap /\ RateIsCurrent /\ IncrementsAreKept /\ HandedOverOnce
  BY StoreSuffices
<1> QED BY <1>1, <1>2, <1>3, PTL DEF StoreSpec

-----------------------------------------------------------------------------
(***************************************************************************)
(* Invalidations, for any schedules, rules and clients.                    *)
(***************************************************************************)
ScheduleStates == {"unused", "waiting", "cleared", "running", "done"}
InvalidationCalls == {Resting} \union [pc : {"count", "store"}, left : Seq(Types) \ {<<>>}]
InvalidationStats == [total : Nat, byType : [Types -> Nat], failed : Nat]
StepsFine ==
    /\ invalidating \in [Callers -> InvalidationCalls]
    /\ stats \in InvalidationStats /\ storedStats \in [total : Nat, byType : BOOLEAN]
    /\ StatsAddUp
\* What was cancelled and what ran is no longer waiting, and is not the same.
SchedulesFine ==
    /\ schedule \in [Schedules -> ScheduleStates] /\ pendingInvalidations \subseteq Schedules
    /\ \A i \in cancelled \union ran : i \in Schedules /\ schedule[i] \notin {"unused", "waiting"}
    /\ CancelledNeverRuns /\ WaitingIsPending
RulesFine == delayed \subseteq DelayedRules /\ invalidationRules \subseteq DelayedRules
InvalidationInv == StepsFine /\ SchedulesFine /\ RulesFine

LEMMA StepsAre ==
    \A type \in Types \union {"user", "tenant"} : [pc |-> "count", left |-> Steps(type)] \in InvalidationCalls
<1>1. \A type \in Types : <<type>> \in Seq(Types) \ {<<>>}
  OBVIOUS
<1>2. <<"pattern", "pattern", "pattern", "pattern", "tag">> \in Seq(Types) \ {<<>>}
  BY DEF Types
<1>3. <<"pattern", "pattern">> \in Seq(Types) \ {<<>>}
  BY DEF Types
<1>4. \A type \in Types \union {"user", "tenant"} : Steps(type) \in Seq(Types) \ {<<>>}
  BY <1>1, <1>2, <1>3 DEF Steps, Types
<1> QED BY <1>4 DEF InvalidationCalls

LEMMA CallLeft ==
    ASSUME NEW c \in InvalidationCalls, c.pc \in {"count", "store"}
    PROVE  /\ Head(c.left) \in Types
           /\ [c EXCEPT !.pc = "store"] \in InvalidationCalls
           /\ Tail(c.left) # <<>> => [pc |-> "count", left |-> Tail(c.left)] \in InvalidationCalls
<1>1. c \in [pc : {"count", "store"}, left : Seq(Types) \ {<<>>}]
  BY DEF InvalidationCalls, Resting
<1>2. c.left \in Seq(Types) /\ c.left # <<>>
  BY <1>1
<1>3. Head(c.left) \in Types /\ Tail(c.left) \in Seq(Types)
  BY <1>2, HeadTailProperties
<1> QED BY <1>1, <1>3 DEF InvalidationCalls

LEMMA InvalidationInitially == InvalidationInit => InvalidationInv
<1> SUFFICES ASSUME InvalidationInit PROVE InvalidationInv
  OBVIOUS
<1>1. stats \in InvalidationStats /\ StatsAddUp
  BY DEF InvalidationInit, NoStats, InvalidationStats, StatsAddUp, Types
<1>2. StepsFine
  BY <1>1 DEF InvalidationInit, StepsFine, InvalidationCalls, Nowhere
<1>3. SchedulesFine
  BY DEF InvalidationInit, SchedulesFine, ScheduleStates, CancelledNeverRuns, WaitingIsPending
<1> QED BY <1>2, <1>3 DEF InvalidationInv, InvalidationInit, RulesFine

LEMMA SameSteps == StepsFine /\ UNCHANGED <<invalidating, stats, storedStats, torn>> => StepsFine'
BY DEF StepsFine, StatsAddUp
LEMMA SameSchedules == SchedulesFine /\ UNCHANGED <<schedule, pendingInvalidations, cancelled, ran>> => SchedulesFine'
BY DEF SchedulesFine, CancelledNeverRuns, WaitingIsPending
LEMMA SameRules == RulesFine /\ UNCHANGED <<delayed, invalidationRules>> => RulesFine'
BY DEF RulesFine

\* A caller begins, or goes on, and nothing is counted.
LEMMA DoingKeeps ==
    ASSUME StepsFine, NEW c \in Callers, NEW call \in InvalidationCalls, Doing(c, call),
           UNCHANGED <<stats, torn>>, storedStats' \in [total : Nat, byType : BOOLEAN]
    PROVE  StepsFine'
BY DEF StepsFine, StatsAddUp, Doing

LEMMA CountKeeps ==
    ASSUME StepsFine, NEW c \in Callers, NEW found \in BOOLEAN, NEW works \in BOOLEAN,
           updateStats(c, found, works)
    PROVE  StepsFine'
<1> DEFINE type == Head(invalidating[c].left)
           success == Success(type, found, works)
<1>1. invalidating[c] \in InvalidationCalls /\ invalidating[c].pc = "count"
  BY DEF StepsFine, updateStats
<1>2. type \in Types /\ [invalidating[c] EXCEPT !.pc = "store"] \in InvalidationCalls
  BY <1>1, CallLeft
<1>3. stats \in InvalidationStats /\ stats.total \in Nat /\ stats.byType \in [Types -> Nat] /\ stats.failed \in Nat
  BY DEF StepsFine, InvalidationStats
<1>4. stats' = Count(type, success) /\ torn' = torn
  BY DEF updateStats
<1> HIDE DEF success, type
<1>5. stats' = [total |-> stats.total + 1, byType |-> [stats.byType EXCEPT ![type] = @ + 1],
                failed |-> stats.failed + (IF success THEN 0 ELSE 1)]
  BY <1>4 DEF Count
<1>6. stats' \in InvalidationStats
  <2>1. [stats.byType EXCEPT ![type] = @ + 1] \in [Types -> Nat]
    BY <1>2, <1>3
  <2>2. stats.total + 1 \in Nat /\ stats.failed + (IF success THEN 0 ELSE 1) \in Nat
    BY <1>3
  <2> QED BY <1>5, <2>1, <2>2 DEF InvalidationStats
<1>7. stats'.total = stats.total + 1 /\ stats'.byType = [stats.byType EXCEPT ![type] = @ + 1]
  BY <1>5
<1>8. StatsAddUp'
  <2>1. CASE torn
    BY <1>4, <2>1 DEF StatsAddUp
  <2>2. CASE ~torn
    <3>1. stats.total = stats.byType["key"] + stats.byType["pattern"] + stats.byType["tag"]
      BY <2>2 DEF StepsFine, StatsAddUp
    <3>2. PICK a \in Nat, b \in Nat, e \in Nat :
              a = stats.byType["key"] /\ b = stats.byType["pattern"] /\ e = stats.byType["tag"]
      BY <1>3 DEF Types
    <3>3. \/ stats'.byType["key"] = a + 1 /\ stats'.byType["pattern"] = b /\ stats'.byType["tag"] = e
          \/ stats'.byType["key"] = a /\ stats'.byType["pattern"] = b + 1 /\ stats'.byType["tag"] = e
          \/ stats'.byType["key"] = a /\ stats'.byType["pattern"] = b /\ stats'.byType["tag"] = e + 1
      BY <1>2, <1>3, <1>7, <3>2 DEF Types
    <3> QED BY <1>7, <3>1, <3>2, <3>3 DEF StatsAddUp
  <2> QED BY <2>1, <2>2
<1>9. storedStats' \in [total : Nat, byType : BOOLEAN]
  BY <1>3 DEF StepsFine, updateStats
<1>10. invalidating' \in [Callers -> InvalidationCalls]
  BY <1>2 DEF StepsFine, updateStats, Doing
<1> QED BY <1>6, <1>8, <1>9, <1>10 DEF StepsFine

LEMMA UpdateStatsKeeps ==
    ASSUME InvalidationInv, NEW c \in Callers, NEW found \in BOOLEAN, NEW works \in BOOLEAN,
           updateStats(c, found, works)
    PROVE  InvalidationInv'
<1>1. StepsFine'
  BY CountKeeps DEF InvalidationInv
<1> QED BY <1>1, SameSchedules, SameRules DEF InvalidationInv, updateStats, UnchangedSchedules

LEMMA StoreStatsKeeps ==
    ASSUME InvalidationInv, NEW c \in Callers, NEW works \in BOOLEAN, storeStats(c, works)
    PROVE  InvalidationInv'
<1> DEFINE rest == Tail(invalidating[c].left)
<1>1. StepsFine /\ SchedulesFine /\ RulesFine
  BY DEF InvalidationInv
<1>2. invalidating[c] \in InvalidationCalls /\ invalidating[c].pc = "store"
  BY <1>1 DEF StepsFine, storeStats
<1>3. Resting \in InvalidationCalls /\ (rest # <<>> => [pc |-> "count", left |-> rest] \in InvalidationCalls)
  BY <1>2, CallLeft DEF InvalidationCalls
<1>4. PICK call \in InvalidationCalls : Doing(c, call)
  BY <1>3 DEF storeStats
<1>5. storedStats' \in [total : Nat, byType : BOOLEAN] /\ UNCHANGED <<stats, torn>>
  BY <1>1 DEF storeStats, StepsFine
<1>6. StepsFine'
  BY <1>1, <1>4, <1>5, DoingKeeps
<1>7. SchedulesFine'
  <2>1. /\ pendingInvalidations' = (IF rest = <<>> THEN pendingInvalidations \ {c} ELSE pendingInvalidations)
        /\ schedule' = (IF rest = <<>> /\ c \in Schedules THEN [schedule EXCEPT ![c] = "done"] ELSE schedule)
        /\ UNCHANGED <<cancelled, ran>>
    BY DEF storeStats
  <2> HIDE DEF rest
  <2>2. \A i \in Schedules :
            \/ schedule'[i] = schedule[i] /\ (i \in pendingInvalidations => i \in pendingInvalidations')
            \/ schedule'[i] = "done"
    BY <1>1, <2>1 DEF SchedulesFine
  <2>3. schedule' \in [Schedules -> ScheduleStates] /\ pendingInvalidations' \subseteq Schedules
    BY <1>1, <2>1 DEF SchedulesFine, ScheduleStates
  <2> QED BY <1>1, <2>1, <2>2, <2>3 DEF SchedulesFine, CancelledNeverRuns, WaitingIsPending
<1> QED BY <1>1, <1>6, <1>7, SameRules DEF InvalidationInv, storeStats

LEMMA StatisticsKeep ==
    ASSUME InvalidationInv, NEW works \in BOOLEAN, getInvalidationStats(works) \/ resetInvalidationStats(works)
    PROVE  InvalidationInv'
<1>1. StepsFine
  BY DEF InvalidationInv
<1>2. NoStats \in InvalidationStats /\ NoStats.total = 0 /\ \A t \in Types : NoStats.byType[t] = 0
  BY DEF NoStats, InvalidationStats
<1>3. Nowhere \in [total : Nat, byType : BOOLEAN]
  BY DEF Nowhere
<1>4. CASE getInvalidationStats(works)
  <2>1. storedStats.total \in Nat
    BY <1>1 DEF StepsFine
  <2>2. [NoStats EXCEPT !.total = storedStats.total] \in InvalidationStats
    BY <1>2, <2>1 DEF InvalidationStats
  <2>3. StatsAddUp' /\ stats' \in InvalidationStats
    BY <1>1, <1>4, <2>2 DEF getInvalidationStats, StepsFine, StatsAddUp
  <2>4. StepsFine'
    BY <1>1, <1>4, <2>3 DEF StepsFine, getInvalidationStats
  <2> QED BY <1>4, <2>4, SameSchedules, SameRules DEF InvalidationInv, getInvalidationStats, UnchangedSchedules
<1>5. CASE resetInvalidationStats(works)
  <2>1. StatsAddUp'
    BY <1>2, <1>5 DEF resetInvalidationStats, StatsAddUp, Types
  <2>2. StepsFine'
    BY <1>1, <1>2, <1>3, <1>5, <2>1 DEF StepsFine, resetInvalidationStats
  <2> QED BY <1>5, <2>2, SameSchedules, SameRules DEF InvalidationInv, resetInvalidationStats, UnchangedSchedules
<1> QED BY <1>4, <1>5

LEMMA InvalidationsStep == InvalidationInv /\ InvalidationsNext => InvalidationInv'
<1> SUFFICES ASSUME InvalidationInv, InvalidationsNext PROVE InvalidationInv'
  OBVIOUS
<1>1. Clients \subseteq Callers
  BY DEF Callers
<1>2. ASSUME NEW k \in Clients, NEW type \in {"key", "tenant", "user"}, invalidate(k, type) PROVE InvalidationInv'
  <2>1. PICK call \in InvalidationCalls : Doing(k, call)
    BY <1>2, StepsAre DEF invalidate, BeginSteps, Types
  <2>2. StepsFine /\ storedStats \in [total : Nat, byType : BOOLEAN]
    BY DEF InvalidationInv, StepsFine
  <2>3. StepsFine'
    BY <1>1, <1>2, <2>1, <2>2, DoingKeeps DEF invalidate
  <2> QED BY <1>2, <2>3, SameSchedules, SameRules DEF InvalidationInv, invalidate, UnchangedSchedules
<1> QED BY <1>1, <1>2, UpdateStatsKeeps, StoreStatsKeeps, StatisticsKeep DEF InvalidationsNext

LEMMA SchedulesStep == InvalidationInv /\ SchedulesNext => InvalidationInv'
<1> SUFFICES ASSUME InvalidationInv, SchedulesNext PROVE InvalidationInv'
  OBVIOUS
<1>1. StepsFine /\ SchedulesFine /\ RulesFine /\ Callers = Clients \union Schedules
  BY DEF InvalidationInv, Callers
<1>2. storedStats \in [total : Nat, byType : BOOLEAN]
  BY <1>1 DEF StepsFine
<1>3. ASSUME NEW i \in Schedules, scheduleInvalidation(i) PROVE InvalidationInv'
  <2>1. SchedulesFine'
    BY <1>1, <1>3 DEF SchedulesFine, ScheduleStates, CancelledNeverRuns, WaitingIsPending, scheduleInvalidation
  <2> QED BY <1>1, <1>3, <2>1, SameSteps, SameRules DEF InvalidationInv, scheduleInvalidation, UnchangedStats
<1>4. ASSUME NEW i \in Schedules, cancelScheduledInvalidation(i) PROVE InvalidationInv'
  <2>1. SchedulesFine'
    BY <1>1, <1>4 DEF SchedulesFine, ScheduleStates, CancelledNeverRuns, WaitingIsPending, cancelScheduledInvalidation
  <2> QED BY <1>1, <1>4, <2>1, SameSteps, SameRules DEF InvalidationInv, cancelScheduledInvalidation, UnchangedStats
<1>5. ASSUME NEW i \in Schedules, NEW type \in Types, TimerFires(i, type) PROVE InvalidationInv'
  <2>1. SchedulesFine'
    BY <1>1, <1>5 DEF SchedulesFine, ScheduleStates, CancelledNeverRuns, WaitingIsPending, TimerFires
  <2>2. PICK call \in InvalidationCalls : Doing(i, call)
    BY <1>5, StepsAre DEF TimerFires, BeginSteps
  <2>3. StepsFine'
    BY <1>1, <1>2, <1>5, <2>2, DoingKeeps DEF TimerFires, UnchangedStats
  <2> QED BY <1>1, <1>5, <2>1, <2>3, SameRules DEF InvalidationInv, TimerFires
<1>6. ASSUME NEW r \in DelayedRules, triggerDelayed(r) \/ addInvalidationRule(r) \/ removeInvalidationRule(r)
      PROVE  InvalidationInv'
  <2>1. RulesFine' /\ UNCHANGED <<schedule, pendingInvalidations, cancelled, ran, invalidating>> /\ UnchangedStats
    BY <1>1, <1>6 DEF RulesFine, triggerDelayed, addInvalidationRule, removeInvalidationRule
  <2> QED BY <1>1, <2>1, SameSteps, SameSchedules DEF InvalidationInv, UnchangedStats
<1>7. ASSUME NEW r \in DelayedRules, NEW k \in Clients, DelayEnds(r, k) PROVE InvalidationInv'
  <2>1. PICK call \in InvalidationCalls : Doing(k, call)
    BY <1>7, StepsAre DEF DelayEnds, BeginSteps, Types
  <2>2. StepsFine'
    BY <1>1, <1>2, <1>7, <2>1, DoingKeeps DEF DelayEnds, UnchangedStats
  <2>3. RulesFine'
    BY <1>1, <1>7 DEF RulesFine, DelayEnds
  <2> QED BY <1>1, <1>7, <2>2, <2>3, SameSchedules DEF InvalidationInv, DelayEnds
<1>8. ASSUME cleanupInvalidations PROVE InvalidationInv'
  <2>1. SchedulesFine'
    BY <1>1, <1>8 DEF SchedulesFine, ScheduleStates, CancelledNeverRuns, WaitingIsPending, cleanupInvalidations
  <2> QED BY <1>1, <1>8, <2>1, SameSteps, SameRules DEF InvalidationInv, cleanupInvalidations, UnchangedStats
<1> QED BY <1>3, <1>4, <1>5, <1>6, <1>7, <1>8, UpdateStatsKeeps, StoreStatsKeeps DEF SchedulesNext

LEMMA InvalidationStutter == InvalidationInv /\ UNCHANGED InvalidationVars => InvalidationInv'
BY SameSteps, SameSchedules, SameRules DEF InvalidationInv, InvalidationVars

LEMMA InvalidationSuffices ==
    InvalidationInv => InvalidationTypeOK /\ CancelledNeverRuns /\ WaitingIsPending /\ StatsAddUp
BY DEF InvalidationInv, StepsFine, SchedulesFine, RulesFine, InvalidationTypeOK, InvalidationStats, ScheduleStates

\* With any schedules, delayed rules and clients, a cancelled invalidation never runs, one that waits
\* can be cancelled, and the statistics add up.
THEOREM CancellationHolds ==
    InvalidationSpec => [](InvalidationTypeOK /\ CancelledNeverRuns /\ WaitingIsPending /\ StatsAddUp)
<1>1. InvalidationInit => InvalidationInv
  BY InvalidationInitially
<1>2. InvalidationInv /\ [InvalidationsNext \/ SchedulesNext]_InvalidationVars => InvalidationInv'
  BY InvalidationsStep, SchedulesStep, InvalidationStutter
<1>3. InvalidationInv => InvalidationTypeOK /\ CancelledNeverRuns /\ WaitingIsPending /\ StatsAddUp
  BY InvalidationSuffices
<1> QED BY <1>1, <1>2, <1>3, PTL DEF InvalidationSpec

-----------------------------------------------------------------------------
(***************************************************************************)
(* The clients of the APIs, for any number of them, retries and rates.     *)
(***************************************************************************)
MostRetries == IF MaxRetries > SmeRetries THEN MaxRetries ELSE SmeRetries
ApiCalls == [pc : {"send", "wire", "backoff"}, api : {"sdk", "sme"}, attempt : 0 .. MostRetries]
Endings == {"nothing", "pending", "refused", "limited", "failed", "ok", "odd"}

\* The count and what was sent since it was last reset are the same.
RateFine ==
    /\ config \in [retries : 0 .. MaxRetries, rate : 1 .. MaxRate]
    /\ requestCount \in Nat /\ sentInHour = requestCount /\ hourOver \in BOOLEAN
    /\ allowed \in Nat /\ config.rate <= allowed /\ sentInHour <= allowed

\* While a call is under way each attempt was executed at most once, and none was heard.
CallerFine(call, ending, done, missed) ==
    /\ done \in Nat /\ missed \in Nat /\ ending \in Endings /\ call \in ApiCalls \union {Resting}
    /\ call \in ApiCalls => ending = "pending" /\ done = missed /\ done <= call.attempt
    /\ ending = "ok" => done >= 1
    /\ done <= missed + (IF ending \in {"ok", "odd"} THEN 1 ELSE 0)
    /\ done <= 1 + MostRetries
CallersFine ==
    /\ requesting = [k \in Clients |-> requesting[k]] /\ settled = [k \in Clients |-> settled[k]]
    /\ executed = [k \in Clients |-> executed[k]] /\ unheard = [k \in Clients |-> unheard[k]]
    /\ \A k \in Clients : CallerFine(requesting[k], settled[k], executed[k], unheard[k])
ApiInv == RateFine /\ CallersFine

LEMMA MostRetriesIs == MostRetries \in Nat /\ MaxRetries <= MostRetries /\ SmeRetries <= MostRetries
BY ApiClientsAssumption DEF MostRetries

LEMMA ApiInitially == ApiInit => ApiInv
<1> SUFFICES ASSUME ApiInit PROVE ApiInv
  OBVIOUS
<1>1. RateFine
  <2>1. MaxRetries \in 0 .. MaxRetries /\ MaxRate \in 1 .. MaxRate /\ MaxRate \in Nat
    BY ApiClientsAssumption
  <2>2. config \in [retries : 0 .. MaxRetries, rate : 1 .. MaxRate] /\ config.rate = MaxRate
    BY <2>1 DEF ApiInit
  <2>3. requestCount = 0 /\ sentInHour = 0 /\ hourOver \in BOOLEAN /\ allowed = MaxRate
    BY DEF ApiInit
  <2> QED BY <2>1, <2>2, <2>3 DEF RateFine
<1>2. CallerFine(Resting, "nothing", 0, 0)
  BY MostRetriesIs DEF CallerFine, Resting, ApiCalls, Endings
<1>3. CallersFine
  BY <1>2 DEF ApiInit, CallersFine
<1> QED BY <1>1, <1>3 DEF ApiInv

\* A step of one call.
LEMMA CallKeeps ==
    ASSUME CallersFine, NEW k \in Clients, NEW call, NEW ending, NEW done, NEW missed,
           CallerFine(call, ending, done, missed),
           requesting' = [requesting EXCEPT ![k] = call], settled' = [settled EXCEPT ![k] = ending],
           executed' = [executed EXCEPT ![k] = done], unheard' = [unheard EXCEPT ![k] = missed]
    PROVE  CallersFine'
<1>1. requesting = [j \in Clients |-> requesting[j]] /\ settled = [j \in Clients |-> settled[j]]
      /\ executed = [j \in Clients |-> executed[j]] /\ unheard = [j \in Clients |-> unheard[j]]
  BY DEF CallersFine
<1>2. requesting' = [j \in Clients |-> IF j = k THEN call ELSE requesting[j]]
  BY <1>1
<1>3. settled' = [j \in Clients |-> IF j = k THEN ending ELSE settled[j]]
  BY <1>1
<1>4. executed' = [j \in Clients |-> IF j = k THEN done ELSE executed[j]]
  BY <1>1
<1>5. unheard' = [j \in Clients |-> IF j = k THEN missed ELSE unheard[j]]
  BY <1>1
<1>6. ASSUME NEW j \in Clients PROVE CallerFine(requesting'[j], settled'[j], executed'[j], unheard'[j])
  BY <1>2, <1>3, <1>4, <1>5 DEF CallersFine
<1>7. requesting' = [j \in Clients |-> requesting'[j]] /\ settled' = [j \in Clients |-> settled'[j]]
  BY <1>2, <1>3
<1>8. executed' = [j \in Clients |-> executed'[j]] /\ unheard' = [j \in Clients |-> unheard'[j]]
  BY <1>4, <1>5
<1> QED BY <1>6, <1>7, <1>8 DEF CallersFine

LEMMA SameRate == RateFine /\ UNCHANGED <<config, requestCount, hourOver, sentInHour, allowed>> => RateFine'
BY DEF RateFine
LEMMA SameCallers == CallersFine /\ UNCHANGED <<requesting, settled, executed, unheard>> => CallersFine'
BY DEF CallersFine

\* The four functions where nothing of them changes at a client.
LEMMA Unaltered ==
    ASSUME CallersFine, NEW k \in Clients
    PROVE  /\ settled = [settled EXCEPT ![k] = settled[k]] /\ executed = [executed EXCEPT ![k] = executed[k]]
           /\ unheard = [unheard EXCEPT ![k] = unheard[k]]
           /\ CallerFine(requesting[k], settled[k], executed[k], unheard[k])
BY DEF CallersFine

LEMMA BeginCallKeeps ==
    ASSUME ApiInv, NEW k \in Clients, NEW api \in {"sdk", "sme"}, NEW valid, BeginCall(k, api, valid)
    PROVE  ApiInv'
<1> DEFINE call == IF valid THEN [pc |-> "send", api |-> api, attempt |-> 0] ELSE Resting
           ending == IF valid THEN "pending" ELSE "refused"
<1>1. CallerFine(call, ending, 0, 0)
  BY MostRetriesIs DEF CallerFine, ApiCalls, Endings, Resting
<1>2. requesting' = [requesting EXCEPT ![k] = call] /\ settled' = [settled EXCEPT ![k] = ending]
      /\ executed' = [executed EXCEPT ![k] = 0] /\ unheard' = [unheard EXCEPT ![k] = 0]
  BY DEF BeginCall, Asks, Settle
<1> HIDE DEF call, ending
<1>3. CallersFine'
  BY <1>1, <1>2, CallKeeps DEF ApiInv
<1> QED BY <1>3, SameRate DEF ApiInv, BeginCall, UnchangedLimit

\* A call that moves on as it is.
LEMMA MoveKeeps ==
    ASSUME CallersFine, NEW k \in Clients, NEW pc \in {"send", "wire", "backoff"}, requesting[k] \in ApiCalls,
           Asks(k, [requesting[k] EXCEPT !.pc = pc]), UNCHANGED <<settled, executed, unheard>>
    PROVE  CallersFine'
<1> DEFINE call == [requesting[k] EXCEPT !.pc = pc]
<1>1. call \in ApiCalls /\ call.attempt = requesting[k].attempt
  BY DEF ApiCalls
<1>2. CallerFine(call, settled[k], executed[k], unheard[k])
  BY <1>1, Unaltered DEF CallerFine
<1>3. requesting' = [requesting EXCEPT ![k] = call]
  BY DEF Asks
<1>4. settled' = [settled EXCEPT ![k] = settled[k]]
  BY Unaltered
<1>5. executed' = [executed EXCEPT ![k] = executed[k]]
  BY Unaltered
<1>6. unheard' = [unheard EXCEPT ![k] = unheard[k]]
  BY Unaltered
<1> HIDE DEF call
<1>7. PICK ending, done, missed : ending = settled[k] /\ done = executed[k] /\ missed = unheard[k]
  OBVIOUS
<1>8. CallerFine(call, ending, done, missed) /\ settled' = [settled EXCEPT ![k] = ending]
      /\ executed' = [executed EXCEPT ![k] = done] /\ unheard' = [unheard EXCEPT ![k] = missed]
  BY <1>2, <1>4, <1>5, <1>6, <1>7
<1> QED BY <1>3, <1>8, CallKeeps

LEMMA UnderWay ==
    ASSUME ApiInv, NEW k \in Clients, requesting[k].pc \in {"send", "wire", "backoff"}
    PROVE  /\ requesting[k] \in ApiCalls /\ settled[k] = "pending" /\ executed[k] \in Nat
           /\ unheard[k] = executed[k] /\ executed[k] <= requesting[k].attempt
           /\ requesting[k].attempt \in 0 .. MostRetries
<1>1. CallerFine(requesting[k], settled[k], executed[k], unheard[k])
  BY DEF ApiInv, CallersFine
<1>2. requesting[k] \in ApiCalls
  BY <1>1 DEF CallerFine, Resting
<1> QED BY <1>1, <1>2 DEF CallerFine, ApiCalls

LEMMA OwnRateKeeps == ASSUME ApiInv, NEW k \in Clients, checkOwnRate(k) PROVE ApiInv'
<1> DEFINE count == IF hourOver THEN 0 ELSE requestCount
           over == OverLimit(count)
<1>1. RateFine /\ CallersFine
  BY DEF ApiInv
<1>2. config.rate \in Nat \ {0} /\ count \in Nat
  BY <1>1, ApiClientsAssumption DEF RateFine
<1>3. RateFine'
  <2>1. /\ config' = config /\ hourOver' = FALSE /\ requestCount' = (IF over THEN count ELSE count + 1)
        /\ sentInHour' = (IF hourOver THEN 0 ELSE sentInHour) + (IF over THEN 0 ELSE 1)
        /\ allowed' = IF hourOver THEN config.rate ELSE allowed
    BY DEF checkOwnRate
  <2>2. over <=> count >= config.rate
    BY DEF OverLimit
  <2>3. CASE hourOver
    <3>1. ~over /\ count = 0
      BY <1>2, <2>2, <2>3
    <3> HIDE DEF over, count
    <3>2. sentInHour' = 1 /\ requestCount' = 1 /\ allowed' = config.rate /\ config' = config
      BY <2>1, <2>3, <3>1
    <3>0. hourOver' \in BOOLEAN
      BY <2>1
    <3>3. config' \in [retries : 0 .. MaxRetries, rate : 1 .. MaxRate] /\ config'.rate = config.rate
      BY <1>1, <3>2 DEF RateFine
    <3>4. config.rate \in Nat /\ 1 <= config.rate
      BY <1>2
    <3> QED BY <3>0, <3>2, <3>3, <3>4 DEF RateFine
  <2>4. CASE ~hourOver
    <3>1. sentInHour \in Nat /\ sentInHour = count /\ allowed \in Nat /\ config.rate <= allowed /\ sentInHour <= allowed
      BY <1>1, <2>4 DEF RateFine
    <3> HIDE DEF over, count
    <3>2. sentInHour' = requestCount' /\ requestCount' \in Nat /\ sentInHour' <= allowed /\ allowed' = allowed
      BY <1>2, <2>1, <2>2, <2>4, <3>1
    <3> QED BY <1>1, <2>1, <3>1, <3>2 DEF RateFine
  <2> QED BY <2>3, <2>4
<1>4. requesting[k] \in ApiCalls /\ settled[k] = "pending" /\ executed[k] \in Nat /\ unheard[k] = executed[k]
      /\ executed[k] <= MostRetries
  BY UnderWay, MostRetriesIs DEF checkOwnRate
<1>5. CallersFine'
  <2>1. CASE over
    <3>1. CallerFine(Resting, "limited", executed[k], unheard[k])
      BY <1>4, MostRetriesIs DEF CallerFine, Resting, ApiCalls, Endings
    <3>2. requesting' = [requesting EXCEPT ![k] = Resting] /\ settled' = [settled EXCEPT ![k] = "limited"]
          /\ UNCHANGED <<executed, unheard>>
      BY <2>1 DEF checkOwnRate, Asks, Settle
    <3>3. executed' = [executed EXCEPT ![k] = executed[k]]
      BY <1>1, <3>2, Unaltered
    <3>4. unheard' = [unheard EXCEPT ![k] = unheard[k]]
      BY <1>1, <3>2, Unaltered
    <3>5. PICK done, missed : done = executed[k] /\ missed = unheard[k]
      OBVIOUS
    <3>6. CallerFine(Resting, "limited", done, missed)
          /\ executed' = [executed EXCEPT ![k] = done] /\ unheard' = [unheard EXCEPT ![k] = missed]
      BY <3>1, <3>3, <3>4, <3>5
    <3> QED BY <1>1, <3>2, <3>6, CallKeeps
  <2>2. CASE ~over
    <3>1. Asks(k, [requesting[k] EXCEPT !.pc = "wire"]) /\ UNCHANGED <<executed, unheard>>
          /\ settled' = [settled EXCEPT ![k] = settled[k]]
      BY <2>2 DEF checkOwnRate, Settle
    <3>2. settled' = settled
      BY <1>1, <3>1, Unaltered
    <3> QED BY <1>1, <1>4, <3>1, <3>2, MoveKeeps
  <2> QED BY <2>1, <2>2
<1> QED BY <1>3, <1>5 DEF ApiInv

LEMMA RequestKeeps ==
    ASSUME ApiInv, NEW k \in Clients, NEW does \in BOOLEAN, NEW answer \in ApiAnswers, request(k, does, answer)
    PROVE  ApiInv'
<1> DEFINE call == requesting[k]
           once == IF does THEN 1 ELSE 0
           again == [call EXCEPT !.pc = "backoff", !.attempt = call.attempt + 1]
<1>1. RateFine /\ CallersFine /\ call.pc = "wire" /\ (answer = "ok" => does)
  BY DEF ApiInv, request
<1>2. call \in ApiCalls /\ settled[k] = "pending" /\ executed[k] \in Nat /\ unheard[k] = executed[k]
      /\ executed[k] <= call.attempt /\ call.attempt \in 0 .. MostRetries
  BY <1>1, UnderWay
<1>3. executed' = [executed EXCEPT ![k] = executed[k] + once]
  BY DEF request
<1>4. CASE Accepted(call.api, answer)
  <2>1. answer \in {"ok", "odd"}
    BY <1>4 DEF Accepted
  <2>2. CallerFine(Resting, answer, executed[k] + once, unheard[k])
    BY <1>1, <1>2, <2>1, MostRetriesIs DEF CallerFine, Resting, ApiCalls, Endings
  <2>3. requesting' = [requesting EXCEPT ![k] = Resting] /\ settled' = [settled EXCEPT ![k] = answer]
        /\ unheard' = unheard
    BY <1>4 DEF request, Asks, Settle
  <2>4. unheard' = [unheard EXCEPT ![k] = unheard[k]]
    BY <1>1, <2>3, Unaltered
  <2> HIDE DEF once
  <2>5. CallersFine'
    BY <1>1, <1>3, <2>2, <2>3, <2>4, CallKeeps
  <2> QED BY <1>1, <2>5, SameRate DEF ApiInv, request, UnchangedLimit
<1>5. CASE ~Accepted(call.api, answer)
  <2>1. unheard' = [unheard EXCEPT ![k] = unheard[k] + once]
    BY <1>5 DEF request
  <2>2. CASE answer # "odd" /\ shouldRetry(call, answer)
    <3>1. requesting' = [requesting EXCEPT ![k] = again] /\ settled' = settled
      BY <1>5, <2>2 DEF request, Asks
    <3>2. call.attempt + 1 \in 0 .. MostRetries
      BY <1>1, <1>2, <2>2, MostRetriesIs, ApiClientsAssumption DEF shouldRetry, RateFine
    <3>3. again \in ApiCalls /\ again.attempt = call.attempt + 1
      BY <1>2, <3>2 DEF ApiCalls
    <3>4. CallerFine(again, settled[k], executed[k] + once, unheard[k] + once)
      BY <1>2, <3>2, <3>3, MostRetriesIs DEF CallerFine, Endings
    <3>5. settled' = [settled EXCEPT ![k] = settled[k]]
      BY <1>1, <3>1, Unaltered
    <3> HIDE DEF once, again
    <3> QED BY <1>1, <1>3, <2>1, <3>1, <3>4, <3>5, CallKeeps, SameRate DEF ApiInv, request, UnchangedLimit
  <2>3. CASE ~(answer # "odd" /\ shouldRetry(call, answer))
    <3>1. requesting' = [requesting EXCEPT ![k] = Resting] /\ settled' = [settled EXCEPT ![k] = "failed"]
      BY <1>5, <2>3 DEF request, Asks, Settle
    <3>2. CallerFine(Resting, "failed", executed[k] + once, unheard[k] + once)
      BY <1>2, MostRetriesIs DEF CallerFine, Resting, ApiCalls, Endings
    <3> HIDE DEF once
    <3> QED BY <1>1, <1>3, <2>1, <3>1, <3>2, CallKeeps, SameRate DEF ApiInv, request, UnchangedLimit
  <2> QED BY <2>2, <2>3
<1> QED BY <1>4, <1>5

LEMMA ApiStep == ApiInv /\ ApiNext => ApiInv'
<1> SUFFICES ASSUME ApiInv, ApiNext PROVE ApiInv'
  OBVIOUS
<1>1. RateFine /\ CallersFine
  BY DEF ApiInv
<1>2. ASSUME NEW k \in Clients, NEW api \in {"sdk", "sme"}, \E valid : BeginCall(k, api, valid) PROVE ApiInv'
  BY <1>2, BeginCallKeeps
<1>3. ASSUME NEW k \in Clients, NEW amount, NEW more,
             \/ createApplication(k, amount) \/ updateApplication(k, {amount}) \/ calculateLoanQuote(k, amount, more)
             \/ makeCreditDecision(k, TRUE, amount, more)
      PROVE  ApiInv'
  BY <1>2, <1>3 DEF createApplication, updateApplication, calculateLoanQuote, makeCreditDecision
<1>4. ASSUME NEW k \in Clients,
             \/ submitApplication(k) \/ createUser(k) \/ updateUser(k, {}) \/ updateUser(k, {1}) \/ deleteUser(k)
             \/ suspendUser(k) \/ reactivateUser(k) \/ initiateTransfer(k)
      PROVE  ApiInv'
  BY <1>2, <1>4 DEF submitApplication, createUser, updateUser, deleteUser, suspendUser, reactivateUser, initiateTransfer
<1>5. ASSUME NEW k \in Clients, NEW asked,
             \/ listApplications(k) \/ getApplicationAnalytics(k) \/ listLoans(k) \/ listUsers(k)
             \/ getApplicationById(k, asked) \/ getApplicationsByUserId(k, asked) \/ getLoanById(k, asked)
             \/ getLoansByUserId(k, asked) \/ getUserById(k, asked) \/ getUserStats(k, asked)
             \/ getUserByEmail(k, asked) \/ searchUsers(k, asked)
      PROVE  ApiInv'
  BY <1>2, <1>5 DEF listApplications, getApplicationAnalytics, listLoans, listUsers, getApplicationById,
     getApplicationsByUserId, getLoanById, getLoansByUserId, getUserById, getUserStats, getUserByEmail, searchUsers
<1>6. ASSUME NEW k \in Clients, SmeSends(k) \/ retryRequest(k) PROVE ApiInv'
  <2>1. requesting[k] \in ApiCalls
    BY <1>6, UnderWay DEF SmeSends, retryRequest
  <2>2. CallersFine'
    BY <1>1, <1>6, <2>1, MoveKeeps DEF SmeSends, retryRequest
  <2> QED BY <1>1, <1>6, <2>2, SameRate DEF ApiInv, SmeSends, retryRequest, UnchangedLimit
<1>7. ASSUME NEW retries \in 0 .. MaxRetries, NEW rate \in 1 .. MaxRate, updateConfig(retries, rate) PROVE ApiInv'
  <2>1. rate \in Nat
    BY ApiClientsAssumption
  <2>2. RateFine'
    BY <1>1, <1>7, <2>1 DEF RateFine, updateConfig
  <2> QED BY <1>1, <1>7, <2>2, SameCallers DEF ApiInv, updateConfig
<1>8. ASSUME HourPasses PROVE ApiInv'
  BY <1>1, <1>8, SameCallers DEF ApiInv, HourPasses, RateFine
<1> QED BY <1>3, <1>4, <1>5, <1>6, <1>7, <1>8, OwnRateKeeps, RequestKeeps DEF ApiNext

LEMMA ApiStutter == ApiInv /\ UNCHANGED ApiVars => ApiInv'
BY SameRate, SameCallers DEF ApiInv, ApiVars

LEMMA ApiSuffices == ApiInv => ApiTypeOK /\ RepeatsWereUnheard /\ OwnRateKept
<1> SUFFICES ASSUME ApiInv PROVE ApiTypeOK /\ RepeatsWereUnheard /\ OwnRateKept
  OBVIOUS
<1>1. \A k \in Clients : CallerFine(requesting[k], settled[k], executed[k], unheard[k])
  BY DEF ApiInv, CallersFine
<1>2. RepeatsWereUnheard
  BY <1>1 DEF CallerFine, RepeatsWereUnheard, MostRetries
<1>3. settled \in [Clients -> Endings]
  BY <1>1 DEF ApiInv, CallersFine, CallerFine
<1> QED BY <1>2, <1>3 DEF ApiInv, RateFine, ApiTypeOK, OwnRateKept, Endings

\* With any clients, retries and rates, whatever the server does and answers, what is executed again
\* was unheard, no call is executed more often than its attempts, and the SDK keeps its own rate.
THEOREM CallsAreBounded ==
    ApiSpec => [](ApiTypeOK /\ RepeatsWereUnheard /\ OwnRateKept)
<1>1. ApiInit => ApiInv
  BY ApiInitially
<1>2. ApiInv /\ [ApiNext]_ApiVars => ApiInv'
  BY ApiStep, ApiStutter
<1>3. ApiInv => ApiTypeOK /\ RepeatsWereUnheard /\ OwnRateKept
  BY ApiSuffices
<1> QED BY <1>1, <1>2, <1>3, PTL DEF ApiSpec

-----------------------------------------------------------------------------
(***************************************************************************)
(* Events and scheduled notices, for any listeners, types and delays.      *)
(***************************************************************************)
BusFine ==
    /\ published \in Seq(Events) /\ eventStore = LastOf(published, StoreSize)
    /\ subscribed \subseteq [listener : Listeners, type : EventTypes \union {"*"}]
    /\ heard \subseteq Events /\ \A n \in notified : n.event \in Events
    /\ {n.event : n \in notified} = {e \in heard : IsMapped(e.type)}

\* A notice fires on its day, or at once when it is too far ahead; none is kept twice.
NoticesFine ==
    /\ today \in Nat
    /\ scheduled \subseteq [notice : Notices, due : Nat, fires : Nat]
    /\ delivered \subseteq [notice : Notices, due : Nat, on : Nat]
    /\ \A s \in scheduled : s.fires >= today /\ (s.fires = s.due \/ s.due - s.fires > LongestTimer)
    /\ ScheduledOnTime
BusInv == BusFine /\ NoticesFine

LEMMA LastOfIs ==
    ASSUME NEW S, NEW s \in Seq(S), NEW n \in Nat
    PROVE  /\ LastOf(s, n) \in Seq(S)
           /\ Len(LastOf(s, n)) = (IF Len(s) > n THEN n ELSE Len(s))
           /\ \A i \in 1 .. Len(LastOf(s, n)) : LastOf(s, n)[i] = s[i + (Len(s) - Len(LastOf(s, n)))]
<1> DEFINE first == 1 + (IF Len(s) > n THEN Len(s) - n ELSE 0)
<1>1. PICK m \in Nat : m = Len(s)
  BY LenProperties
<1>2. PICK f \in Nat : f = first /\ f \in 1 .. m + 1 /\ m - f + 1 = IF m > n THEN n ELSE m
  <2>1. first \in Nat /\ first \in 1 .. m + 1 /\ m - first + 1 = IF m > n THEN n ELSE m
    BY <1>1
  <2> QED BY <2>1
<1>3. LastOf(s, n) = SubSeq(s, f, m)
  BY <1>1, <1>2 DEF LastOf
<1> HIDE DEF first
<1>4. \A i \in f .. m : s[i] \in S
  BY <1>1, <1>2, ElementOfSeq
<1>5. /\ SubSeq(s, f, m) \in Seq(S)
      /\ Len(SubSeq(s, f, m)) = (IF f <= m THEN m - f + 1 ELSE 0)
      /\ \A i \in 1 .. m - f + 1 : SubSeq(s, f, m)[i] = s[f + i - 1]
  BY <1>1, <1>2, <1>4, SubSeqProperties
<1>6. PICK x \in Seq(S), r \in Nat : x = LastOf(s, n) /\ r = Len(x) /\ r = m - f + 1 /\ r = IF m > n THEN n ELSE m
  <2>1. Len(SubSeq(s, f, m)) = m - f + 1 /\ m - f + 1 \in Nat
    BY <1>2, <1>5
  <2> QED BY <1>2, <1>3, <1>5, <2>1
<1>7. ASSUME NEW i \in 1 .. r PROVE x[i] = s[i + (m - r)]
  <2>1. x[i] = s[f + i - 1] /\ f + i - 1 = i + (m - r)
    BY <1>2, <1>3, <1>5, <1>6
  <2> QED BY <2>1
<1> QED BY <1>1, <1>6, <1>7

\* The last of the last with one more are the last of all with one more.
LEMMA LastOfMore ==
    ASSUME NEW S, NEW s \in Seq(S), NEW e \in S, NEW n \in Nat
    PROVE  LastOf(Append(LastOf(s, n), e), n) = LastOf(Append(s, e), n)
<1>1. PICK short \in Seq(S) : short = LastOf(s, n)
  BY LastOfIs
<1>2. Len(s) \in Nat /\ Len(short) \in Nat /\ Len(short) = (IF Len(s) > n THEN n ELSE Len(s))
      /\ \A i \in 1 .. Len(short) : short[i] = s[i + (Len(s) - Len(short))]
  BY <1>1, LastOfIs, LenProperties
<1>3. PICK a \in Seq(S) : a = Append(short, e)
  BY AppendProperties
<1>4. PICK b \in Seq(S) : b = Append(s, e)
  BY AppendProperties
<1>5. Len(a) = Len(short) + 1 /\ \A i \in 1 .. Len(a) : a[i] = IF i = Len(short) + 1 THEN e ELSE short[i]
  BY <1>2, <1>3, AppendProperties
<1>6. Len(b) = Len(s) + 1 /\ \A i \in 1 .. Len(b) : b[i] = IF i = Len(s) + 1 THEN e ELSE s[i]
  BY <1>2, <1>4, AppendProperties
<1>7. PICK x \in Seq(S) : x = LastOf(a, n)
  BY LastOfIs
<1>8. PICK y \in Seq(S) : y = LastOf(b, n)
  BY LastOfIs
<1>9. Len(x) = (IF Len(a) > n THEN n ELSE Len(a)) /\ \A i \in 1 .. Len(x) : x[i] = a[i + (Len(a) - Len(x))]
  BY <1>7, LastOfIs
<1>10. Len(y) = (IF Len(b) > n THEN n ELSE Len(b)) /\ \A i \in 1 .. Len(y) : y[i] = b[i + (Len(b) - Len(y))]
  BY <1>8, LastOfIs
<1>11. PICK p \in Nat, q \in Nat : p = Len(short) /\ q = Len(s) /\ p = IF q > n THEN n ELSE q
  BY <1>2
<1>12. PICK r \in Nat : r = Len(x) /\ r = Len(y) /\ r <= p + 1 /\ r <= q + 1
  BY <1>5, <1>6, <1>9, <1>10, <1>11
<1>14. ASSUME NEW i \in 1 .. r PROVE x[i] = y[i]
  <2>1. PICK j \in Nat, k \in Nat : j = i + ((p + 1) - r) /\ k = i + ((q + 1) - r)
    <3>1. i + ((p + 1) - r) \in Nat /\ i + ((q + 1) - r) \in Nat
      BY <1>12
    <3> QED BY <3>1
  <2>2. j \in 1 .. p + 1 /\ k \in 1 .. q + 1 /\ k = j + (q - p)
    BY <1>12, <2>1
  <2>0. j = p + 1 <=> k = q + 1
    BY <2>2
  <2>3. x[i] = a[j] /\ y[i] = b[k]
    BY <1>5, <1>6, <1>9, <1>10, <1>11, <1>12, <2>1
  <2>4. a[j] = (IF j = p + 1 THEN e ELSE short[j]) /\ b[k] = (IF k = q + 1 THEN e ELSE s[k])
    BY <1>5, <1>6, <1>11, <2>2
  <2>5. j # p + 1 => short[j] = s[k]
    <3> SUFFICES ASSUME j # p + 1 PROVE short[j] = s[k]
      OBVIOUS
    <3>1. j \in 1 .. p
      BY <2>2
    <3> QED BY <1>2, <1>11, <2>2, <3>1
  <2> QED BY <2>0, <2>3, <2>4, <2>5
<1>13. x = y
  BY <1>12, <1>14, SeqEqual
<1> QED BY <1>1, <1>3, <1>4, <1>7, <1>8, <1>13

LEMMA BusInitially == EventBusInit => BusInv
<1> SUFFICES ASSUME EventBusInit PROVE BusInv
  OBVIOUS
<1>1. <<>> \in Seq(Events) /\ Len(<<>>) = 0 /\ StoreSize \in Nat
  BY EventBusAssumption, EmptySeq
<1>2. LastOf(<<>>, StoreSize) = <<>>
  <2>1. PICK none \in Seq(Events) : none = <<>> /\ Len(none) = 0
    BY <1>1
  <2>2. LastOf(none, StoreSize) \in Seq(Events)
        /\ Len(LastOf(none, StoreSize)) = IF Len(none) > StoreSize THEN StoreSize ELSE Len(none)
    BY <1>1, LastOfIs
  <2>3. Len(LastOf(none, StoreSize)) = 0
    BY <1>1, <2>1, <2>2
  <2> QED BY <2>1, <2>2, <2>3, EmptySeq
<1>3. BusFine
  BY <1>1, <1>2 DEF EventBusInit, BusFine
<1>4. NoticesFine
  BY DEF EventBusInit, NoticesFine, ScheduledOnTime
<1> QED BY <1>3, <1>4 DEF BusInv

LEMMA SameBus == BusFine /\ UNCHANGED <<eventStore, subscribed, notified, published, heard>> => BusFine'
BY DEF BusFine
LEMMA SameNotices == NoticesFine /\ UNCHANGED <<scheduled, delivered, today>> => NoticesFine'
BY DEF NoticesFine, ScheduledOnTime

LEMMA PublishKeeps ==
    ASSUME BusFine, NEW event \in Events, publish(event)
    PROVE  BusFine'
<1>1. published \in Seq(Events) /\ published' = Append(published, event) /\ StoreSize \in Nat
  BY EventBusAssumption DEF BusFine, publish
<1>2. published' \in Seq(Events)
  BY <1>1, AppendProperties
<1>3. eventStore' = LastOf(published', StoreSize)
  <2>1. eventStore' = LastOf(Append(LastOf(published, StoreSize), event), StoreSize)
    BY DEF BusFine, publish, Stored
  <2> QED BY <1>1, <2>1, LastOfMore
<1>4. heard' \subseteq Events /\ \A n \in notified' : n.event \in Events
  BY DEF BusFine, publish
<1>5. {n.event : n \in notified'} = {e \in heard' : IsMapped(e.type)}
  <2>1. {n.event : n \in notified} = {e \in heard : IsMapped(e.type)}
    BY DEF BusFine
  <2>2. CASE Fails(event.type)
    BY <2>1, <2>2 DEF publish
  <2>3. CASE ~Fails(event.type)
    <3>1. PICK note : note = [event |-> event, to |-> Mapped(event.type)]
      OBVIOUS
    <3>2. heard' = heard \union {event} /\ note.event = event
          /\ notified' = IF IsMapped(event.type) THEN notified \union {note} ELSE notified
      BY <2>3, <3>1 DEF publish
    <3>3. CASE IsMapped(event.type)
      <4>1. notified' = notified \union {note}
        BY <3>2, <3>3
      <4> QED BY <2>1, <3>2, <3>3, <4>1
    <3>4. CASE ~IsMapped(event.type)
      BY <2>1, <3>2, <3>4
    <3> QED BY <3>3, <3>4
  <2> QED BY <2>2, <2>3
<1> QED BY <1>2, <1>3, <1>4, <1>5 DEF BusFine, publish

LEMMA ScheduleKeeps ==
    ASSUME NoticesFine, NEW notice \in Notices, NEW delay \in Delays, scheduleNotification(notice, delay)
    PROVE  NoticesFine'
<1>1. today \in Nat /\ delay \in Nat /\ LongestTimer \in Nat /\ today' = today
  BY EventBusAssumption DEF NoticesFine, scheduleNotification
<1>2. \A s \in scheduled \union delivered : s.notice # notice
  BY DEF scheduleNotification
<1>3. CASE delay = 0
  <2>1. PICK new \in [notice : Notices, due : Nat, on : Nat] :
            new = [notice |-> notice, due |-> today, on |-> today]
    BY <1>1
  <2>2. delivered' = delivered \union {new} /\ scheduled' = scheduled
    BY <1>3, <2>1 DEF scheduleNotification
  <2>3. new.notice = notice /\ new.on = new.due
    BY <2>1
  <2>4. ScheduledOnTime'
    BY <1>2, <2>2, <2>3 DEF NoticesFine, ScheduledOnTime
  <2> QED BY <1>1, <2>2, <2>4 DEF NoticesFine
<1>4. CASE delay # 0
  <2>1. PICK new \in [notice : Notices, due : Nat, fires : Nat] :
            new = [notice |-> notice, due |-> today + delay,
                   fires |-> IF delay > LongestTimer THEN today ELSE today + delay]
    <3>1. today + delay \in Nat /\ (IF delay > LongestTimer THEN today ELSE today + delay) \in Nat
      BY <1>1
    <3> QED BY <3>1
  <2>2. scheduled' = scheduled \union {new} /\ delivered' = delivered
    BY <1>4, <2>1 DEF scheduleNotification
  <2>3. new.notice = notice /\ new.fires >= today /\ (new.fires = new.due \/ new.due - new.fires > LongestTimer)
    BY <1>1, <2>1
  <2>4. ScheduledOnTime'
    BY <1>2, <2>2, <2>3 DEF NoticesFine, ScheduledOnTime
  <2> QED BY <1>1, <2>2, <2>3, <2>4 DEF NoticesFine
<1> QED BY <1>3, <1>4

LEMMA SendKeeps ==
    ASSUME NoticesFine, NEW s \in scheduled, sendNotificationNow(s)
    PROVE  NoticesFine'
<1>1. today \in Nat /\ today' = today /\ s.fires = today /\ s.due \in Nat /\ s.notice \in Notices
      /\ (s.fires = s.due \/ s.due - s.fires > LongestTimer)
  BY DEF NoticesFine, sendNotificationNow
<1>2. PICK new \in [notice : Notices, due : Nat, on : Nat] : new = [notice |-> s.notice, due |-> s.due, on |-> today]
  BY <1>1
<1>3. scheduled' = scheduled \ {s} /\ delivered' = delivered \union {new}
  BY <1>2 DEF sendNotificationNow
<1>4. new.notice = s.notice /\ (new.on = new.due \/ new.due - new.on > LongestTimer)
  BY <1>1, <1>2
<1>5. s \notin delivered
  <2>1. s \in [notice : Notices, due : Nat, fires : Nat]
    BY DEF NoticesFine
  <2>2. \A d \in [notice : Notices, due : Nat, on : Nat] : d # s
    BY <2>1
  <2> QED BY <2>2 DEF NoticesFine
<1>6. \A t \in scheduled' \union delivered : t.notice # s.notice
  BY <1>3, <1>5 DEF NoticesFine, ScheduledOnTime
<1>7. ScheduledOnTime'
  BY <1>3, <1>4, <1>6 DEF NoticesFine, ScheduledOnTime
<1> QED BY <1>1, <1>3, <1>7 DEF NoticesFine

LEMMA BusStep == BusInv /\ EventBusNext => BusInv'
<1> SUFFICES ASSUME BusInv, EventBusNext PROVE BusInv'
  OBVIOUS
<1>1. BusFine /\ NoticesFine
  BY DEF BusInv
<1>2. ASSUME NEW event \in Events, publish(event) PROVE BusInv'
  <2>1. BusFine'
    BY <1>1, <1>2, PublishKeeps
  <2> QED BY <1>1, <1>2, <2>1, SameNotices DEF BusInv, publish
<1>3. ASSUME NEW listener \in Listeners, NEW type \in EventTypes \union {"*"},
             subscribe(listener, type) \/ unsubscribe(listener, type)
      PROVE  BusInv'
  <2>1. BusFine' /\ UNCHANGED <<scheduled, delivered, today>>
    BY <1>1, <1>3 DEF BusFine, subscribe, unsubscribe
  <2> QED BY <1>1, <2>1, SameNotices DEF BusInv
<1>4. ASSUME NEW notice \in Notices, NEW delay \in Delays, scheduleNotification(notice, delay) PROVE BusInv'
  <2>1. NoticesFine'
    BY <1>1, <1>4, ScheduleKeeps
  <2> QED BY <1>1, <1>4, <2>1, SameBus DEF BusInv, scheduleNotification
<1>5. ASSUME NEW s \in scheduled, sendNotificationNow(s) PROVE BusInv'
  <2>1. NoticesFine'
    BY <1>1, <1>5, SendKeeps
  <2> QED BY <1>1, <1>5, <2>1, SameBus DEF BusInv, sendNotificationNow
<1>6. ASSUME shutdown PROVE BusInv'
  <2>1. NoticesFine'
    BY <1>1, <1>6 DEF NoticesFine, ScheduledOnTime, shutdown
  <2> QED BY <1>1, <1>6, <2>1, SameBus DEF BusInv, shutdown
<1>7. ASSUME NextDay PROVE BusInv'
  <2>1. today \in Nat /\ today' = today + 1 /\ UNCHANGED <<scheduled, delivered>>
    BY <1>1, <1>7 DEF NextDay, NoticesFine
  <2>2. \A s \in scheduled : s.fires \in Nat /\ s.fires > today
    BY <1>1, <1>7 DEF NextDay, NoticesFine
  <2>3. NoticesFine'
    BY <1>1, <2>1, <2>2 DEF NoticesFine, ScheduledOnTime
  <2> QED BY <1>1, <1>7, <2>3, SameBus DEF BusInv, NextDay
<1>8. ASSUME NewEventIds # {}, NEW type \in EventTypes,
             publish([id |-> CHOOSE i \in NewEventIds : TRUE, type |-> type])
      PROVE  BusInv'
  <2>1. [id |-> CHOOSE i \in NewEventIds : TRUE, type |-> type] \in Events
    BY <1>8 DEF NewEventIds, Events
  <2> QED BY <1>2, <1>8, <2>1
<1> QED BY <1>3, <1>4, <1>5, <1>6, <1>7, <1>8 DEF EventBusNext

LEMMA BusStutter == BusInv /\ UNCHANGED EventBusVars => BusInv'
BY SameBus, SameNotices DEF BusInv, EventBusVars

LEMMA BusSuffices == BusInv => EventBusTypeOK /\ EventsAreKept /\ ScheduledOnTime
<1> SUFFICES ASSUME BusInv PROVE EventBusTypeOK /\ EventsAreKept /\ ScheduledOnTime
  OBVIOUS
<1>1. published \in Seq(Events) /\ eventStore = LastOf(published, StoreSize) /\ StoreSize \in Nat
  BY EventBusAssumption DEF BusInv, BusFine
<1>2. eventStore \in Seq(Events) /\ Len(eventStore) <= StoreSize
  <2>1. Len(published) \in Nat
    BY <1>1, LenProperties
  <2>2. eventStore \in Seq(Events) 
        /\ Len(eventStore) = IF Len(published) > StoreSize THEN StoreSize ELSE Len(published)
    BY <1>1, LastOfIs
  <2> QED BY <1>1, <2>1, <2>2
<1>3. EventsAreKept
  <2>1. ASSUME NEW type \in DOMAIN KindsOf, NEW limit \in 1 .. StoreSize
        PROVE  getEvents(type, limit)
               = LastOf(SelectSeq(LastOf(published, StoreSize), LAMBDA e : e.type \in KindsOf[type]), limit)
    BY <1>1, Zenon DEF getEvents
  <2> QED BY <2>1 DEF EventsAreKept, BusInv, BusFine
<1> QED BY <1>2, <1>3 DEF BusInv, BusFine, NoticesFine, EventBusTypeOK

\* With any listeners, events, types and delays, and listeners that throw, the bus stores and tells
\* what was published, and a scheduled notice goes out when it is due, and once.
THEOREM BusKeepsEvents ==
    EventBusSpec => [](EventBusTypeOK /\ EventsAreKept /\ ScheduledOnTime)
<1>1. EventBusInit => BusInv
  BY BusInitially
<1>2. BusInv /\ [EventBusNext]_EventBusVars => BusInv'
  BY BusStep, BusStutter
<1>3. BusInv => EventBusTypeOK /\ EventsAreKept /\ ScheduledOnTime
  BY BusSuffices
<1> QED BY <1>1, <1>2, <1>3, PTL DEF EventBusSpec

-----------------------------------------------------------------------------
(***************************************************************************)
(* Alerts, silences and measures, for any rules, metrics and cooldowns.    *)
(***************************************************************************)
SamplesFine ==
    /\ minute \in 0 .. LastMinute /\ samples \in [Metrics -> Seq(Sample)]
    /\ \A m \in Metrics : Len(samples[m]) <= HistorySize
                          /\ \A i \in 1 .. Len(samples[m]) : samples[m][i].at <= minute

\* Names being timed are those being measured, but where two calls shared one.
MeasuresFine ==
    /\ timers \subseteq Metrics /\ measuring \in [Clients -> Metrics \union {"none"}] /\ unmeasured \subseteq shared
    /\ \A k \in Clients : measuring[k] # "none" /\ measuring[k] \notin shared
                          => measuring[k] \in timers /\ \A j \in Clients \ {k} : measuring[j] # measuring[k]

\* Rules are told apart, and so are the timers of their silences: one that was not disturbed has
\* one timer, which rings when the silence ends.
RulesTyped ==
    /\ objects \in 0 .. MaxObjects /\ rules \in [Rules -> Rule \union {NoRule}]
    /\ wakeups \subseteq [object : 1 .. MaxObjects, at : Nat] /\ quietUntil \in [1 .. MaxObjects -> Nat]
RulesApart ==
    /\ \A r \in Rules : rules[r] \in Rule => rules[r].object <= objects
    /\ \A r, q \in Rules : rules[r] \in Rule /\ rules[q] \in Rule /\ rules[r].object = rules[q].object => r = q
    /\ \A w \in wakeups : w.object <= objects
    /\ \A o \in 1 .. MaxObjects : o > objects => quietUntil[o] = 0
SilencesFine ==
    /\ \A w \in wakeups : w.object \notin disturbed => w.at = quietUntil[w.object]
    /\ SilenceHolds
AlertRulesFine == RulesTyped /\ RulesApart /\ SilencesFine

\* What was raised was raised by a sample in the window, and no later than the last alert of its pair.
RaisedFine ==
    /\ lastAlert \in [Pairs -> -1 .. LastMinute] /\ \A p \in Pairs : lastAlert[p] <= minute
    /\ alerts \subseteq [rule : Rules, metric : Metrics, at : 0 .. LastMinute]
    /\ raised \subseteq [rule : Rules, metric : Metrics, at : 0 .. LastMinute, by : 0 .. LastMinute]
    /\ \A a \in raised : a.by <= a.at /\ a.at <= a.by + EvaluationWindow /\ a.at <= lastAlert[<<a.rule, a.metric>>]
    /\ SampleRaisesOnce
AlertsInv == SamplesFine /\ MeasuresFine /\ AlertRulesFine /\ RaisedFine

LEMMA NoRuleIsNone == NoRule \notin Rule
<1> SUFFICES ASSUME NoRule \in Rule PROVE FALSE
  OBVIOUS
<1>1. NoRule.object \in 1 .. MaxObjects
  BY DEF Rule
<1> QED BY <1>1 DEF NoRule

LEMMA AlertsInitially == AlertsInit => AlertsInv
<1> SUFFICES ASSUME AlertsInit PROVE AlertsInv
  OBVIOUS
<1>1. SamplesFine
  <2>1. \A m \in Metrics : samples[m] = <<>>
    BY DEF AlertsInit
  <2>2. samples \in [Metrics -> Seq(Sample)]
    BY DEF AlertsInit
  <2> QED BY <2>1, <2>2, AlertsAssumption DEF AlertsInit, SamplesFine
<1>2. MeasuresFine
  BY DEF AlertsInit, MeasuresFine
<1>3. RulesTyped
  BY AlertsAssumption DEF AlertsInit, RulesTyped
<1>4. \A r \in Rules : rules[r] \notin Rule
  BY NoRuleIsNone DEF AlertsInit
<1>5. RulesApart /\ SilencesFine
  BY <1>4 DEF AlertsInit, RulesApart, SilencesFine, SilenceHolds
<1>6. RaisedFine
  BY AlertsAssumption DEF AlertsInit, RaisedFine, SampleRaisesOnce
<1> QED BY <1>1, <1>2, <1>3, <1>5, <1>6 DEF AlertsInv, AlertRulesFine

LEMMA SameSamples == SamplesFine /\ UNCHANGED <<samples, minute>> => SamplesFine'
BY DEF SamplesFine
LEMMA SameMeasures == MeasuresFine /\ UNCHANGED <<timers, measuring, shared, unmeasured>> => MeasuresFine'
BY DEF MeasuresFine
LEMMA SameAlertRules == AlertRulesFine /\ UNCHANGED <<RuleVars, minute>> => AlertRulesFine'
<1> SUFFICES ASSUME AlertRulesFine, UNCHANGED <<RuleVars, minute>> PROVE AlertRulesFine'
  OBVIOUS
<1>1. UNCHANGED <<rules, wakeups, objects, quietUntil, disturbed, minute>>
  BY DEF RuleVars
<1>2. RulesTyped' /\ RulesApart'
  BY <1>1 DEF AlertRulesFine, RulesTyped, RulesApart
<1>3. SilencesFine'
  BY <1>1 DEF AlertRulesFine, SilencesFine, SilenceHolds
<1> QED BY <1>2, <1>3 DEF AlertRulesFine
LEMMA SameRaised == RaisedFine /\ UNCHANGED <<lastAlert, alerts, raised, minute>> => RaisedFine'
BY DEF RaisedFine, SampleRaisesOnce

-----------------------------------------------------------------------------
\* The history takes one more, and drops the oldest when it is full.
LEMMA StoreKeeps ==
    ASSUME SamplesFine, NEW m \in Metrics, NEW over \in BOOLEAN, storeMetric(m, over), minute' = minute
    PROVE  SamplesFine'
<1>1. PICK old : old = samples[m]
  OBVIOUS
<1>2. old \in Seq(Sample) /\ Len(old) <= HistorySize /\ Len(old) \in Nat
      /\ \A i \in 1 .. Len(old) : old[i] \in Sample /\ old[i].at <= minute
  BY <1>1, ElementOfSeq DEF SamplesFine
<1>3. PICK new : new = [over |-> over, at |-> minute]
  OBVIOUS
<1>4. new \in Sample /\ new.at = minute /\ minute \in Nat
  BY <1>3 DEF Sample, SamplesFine
<1>5. PICK more : more = Append(old, new)
  OBVIOUS
<1>6. more \in Seq(Sample) /\ Len(more) = Len(old) + 1 /\ more # <<>>
      /\ \A i \in 1 .. Len(more) : more[i] = IF i <= Len(old) THEN old[i] ELSE new
  BY <1>2, <1>4, <1>5
<1>7. \A i \in 1 .. Len(more) : more[i].at <= minute
  <2> SUFFICES ASSUME NEW i \in 1 .. Len(more) PROVE more[i].at <= minute
    OBVIOUS
  <2>1. CASE i <= Len(old)
    BY <1>2, <1>6, <2>1
  <2>2. CASE ~(i <= Len(old))
    BY <1>4, <1>6, <2>2
  <2> QED BY <2>1, <2>2
<1>8. PICK rest : rest = (IF Len(more) > HistorySize THEN Tail(more) ELSE more)
  OBVIOUS
<1>9. rest \in Seq(Sample) /\ Len(rest) <= HistorySize /\ \A i \in 1 .. Len(rest) : rest[i].at <= minute
  <2>1. CASE Len(more) > HistorySize
    <3>1. rest \in Seq(Sample) /\ Len(rest) = Len(more) - 1 /\ \A i \in 1 .. Len(rest) : rest[i] = more[i + 1]
      BY <1>6, <1>8, <2>1, HeadTailProperties
    <3>2. \A i \in 1 .. Len(rest) : i + 1 \in 1 .. Len(more)
      BY <1>2, <1>6, <3>1
    <3>3. Len(rest) <= HistorySize
      BY <1>2, <1>6, <3>1, AlertsAssumption
    <3> QED BY <1>7, <3>1, <3>2, <3>3
  <2>2. CASE ~(Len(more) > HistorySize)
    BY <1>2, <1>6, <1>7, <1>8, <2>2, AlertsAssumption
  <2> QED BY <2>1, <2>2
<1>10. samples' = [samples EXCEPT ![m] = rest]
  BY <1>1, <1>3, <1>5, <1>8 DEF storeMetric
<1>11. samples' \in [Metrics -> Seq(Sample)] /\ samples'[m] = rest
       /\ \A n \in Metrics \ {m} : samples'[n] = samples[n]
  BY <1>9, <1>10 DEF SamplesFine
<1>12. ASSUME NEW n \in Metrics
       PROVE  Len(samples'[n]) <= HistorySize /\ \A i \in 1 .. Len(samples'[n]) : samples'[n][i].at <= minute
  <2>1. CASE n = m
    BY <1>9, <1>11, <2>1
  <2>2. CASE n # m
    BY <1>11, <2>2 DEF SamplesFine
  <2> QED BY <2>1, <2>2
<1> QED BY <1>11, <1>12 DEF SamplesFine

LEMMA StartTimerKeeps ==
    ASSUME MeasuresFine, NEW k \in Clients, NEW m \in Metrics, startTimer(k, m)
    PROVE  MeasuresFine'
<1>1. measuring[k] = "none" /\ measuring' = [measuring EXCEPT ![k] = m] /\ timers' = timers \union {m}
      /\ shared' = (IF \E j \in Clients : measuring[j] = m THEN shared \union {m} ELSE shared)
      /\ unmeasured' = unmeasured
  BY DEF startTimer
<1>2. measuring' \in [Clients -> Metrics \union {"none"}] /\ measuring'[k] = m
      /\ \A j \in Clients \ {k} : measuring'[j] = measuring[j]
  BY <1>1 DEF MeasuresFine
<1>3. ASSUME NEW j \in Clients, measuring'[j] # "none", measuring'[j] \notin shared'
      PROVE  measuring'[j] \in timers' /\ \A i \in Clients \ {j} : measuring'[i] # measuring'[j]
  <2>1. CASE j = k
    <3>1. \A i \in Clients : measuring[i] # m
      BY <1>1, <1>2, <1>3, <2>1
    <3> QED BY <1>1, <1>2, <2>1, <3>1
  <2>2. CASE j # k
    <3>1. measuring[j] \in timers /\ \A i \in Clients \ {j} : measuring[i] # measuring[j]
      BY <1>1, <1>2, <1>3, <2>2 DEF MeasuresFine
    <3>2. measuring[j] # m
      BY <1>1, <1>2, <1>3, <2>2
    <3> QED BY <1>1, <1>2, <2>2, <3>1, <3>2
  <2> QED BY <2>1, <2>2
<1> QED BY <1>1, <1>2, <1>3 DEF MeasuresFine

LEMMA EndTimerKeeps ==
    ASSUME SamplesFine, MeasuresFine, NEW k \in Clients, NEW over \in BOOLEAN, endTimer(k, over)
    PROVE  SamplesFine' /\ MeasuresFine'
<1>1. PICK m : m = measuring[k]
  OBVIOUS
<1>2. m # "none" /\ m \in Metrics /\ measuring' = [measuring EXCEPT ![k] = "none"] /\ timers' = timers \ {m}
      /\ shared' = shared /\ minute' = minute
  BY <1>1 DEF endTimer, MeasuresFine
<1>3. (m \in timers /\ storeMetric(m, over) /\ UNCHANGED unmeasured)
      \/ (m \notin timers /\ unmeasured' = unmeasured \union {m} /\ UNCHANGED samples)
  BY <1>1 DEF endTimer
<1>4. SamplesFine'
  BY <1>2, <1>3, StoreKeeps, SameSamples
<1>5. unmeasured' \subseteq shared'
  BY <1>1, <1>2, <1>3 DEF MeasuresFine
<1>6. measuring' \in [Clients -> Metrics \union {"none"}] /\ measuring'[k] = "none"
      /\ \A j \in Clients \ {k} : measuring'[j] = measuring[j]
  BY <1>2 DEF MeasuresFine
<1>7. ASSUME NEW j \in Clients, measuring'[j] # "none", measuring'[j] \notin shared'
      PROVE  measuring'[j] \in timers' /\ \A i \in Clients \ {j} : measuring'[i] # measuring'[j]
  <2>1. j # k /\ measuring[j] = measuring'[j]
    BY <1>6, <1>7
  <2>2. measuring[j] \in timers /\ \A i \in Clients \ {j} : measuring[i] # measuring[j]
    BY <1>2, <1>7, <2>1 DEF MeasuresFine
  <2>3. measuring[j] # m
    BY <1>1, <2>1, <2>2
  <2>4. ASSUME NEW i \in Clients \ {j} PROVE measuring'[i] # measuring'[j]
    BY <1>6, <1>7, <2>1, <2>2
  <2> QED BY <1>2, <2>1, <2>2, <2>3, <2>4
<1> QED BY <1>2, <1>4, <1>5, <1>6, <1>7 DEF MeasuresFine

-----------------------------------------------------------------------------
\* A rule that is added is an object nothing refers to yet.
LEMMA AddRuleKeeps ==
    ASSUME SamplesFine, AlertRulesFine, NEW r \in Rules, NEW severity \in Severities, NEW works \in BOOLEAN,
           addRule(r, severity, works)
    PROVE  AlertRulesFine'
<1>1. PICK new : new = [object |-> objects + 1, severity |-> severity, enabled |-> TRUE, works |-> works]
  OBVIOUS
<1>2. objects < MaxObjects /\ objects' = objects + 1 /\ rules' = [rules EXCEPT ![r] = new]
      /\ UNCHANGED <<wakeups, quietUntil, disturbed, minute>>
  BY <1>1 DEF addRule
<1>3. RulesTyped /\ RulesApart /\ SilencesFine /\ objects \in Nat /\ MaxObjects \in Nat
  BY AlertsAssumption DEF AlertRulesFine, RulesTyped
<1>4. objects + 1 \in 1 .. MaxObjects
  BY <1>2, <1>3
<1>5. new \in Rule /\ new.object = objects + 1
  BY <1>1, <1>4 DEF Rule
<1>6. rules' \in [Rules -> Rule \union {NoRule}] /\ rules'[r] = new /\ \A q \in Rules \ {r} : rules'[q] = rules[q]
  BY <1>2, <1>3, <1>5 DEF RulesTyped
<1>7. RulesTyped'
  BY <1>2, <1>3, <1>4, <1>6 DEF RulesTyped
<1>8. ASSUME NEW q \in Rules, q # r, rules[q] \in Rule
      PROVE  rules[q].object \in Nat /\ rules[q].object <= objects
  BY <1>3, <1>8 DEF RulesApart, Rule
<1>9. RulesApart'
  <2>1. ASSUME NEW q \in Rules, rules'[q] \in Rule PROVE rules'[q].object <= objects'
    BY <1>2, <1>3, <1>5, <1>6, <1>8, <2>1
  <2>2. ASSUME NEW p \in Rules, NEW q \in Rules, rules'[p] \in Rule, rules'[q] \in Rule,
               rules'[p].object = rules'[q].object, p # q
        PROVE  FALSE
    <3>1. CASE p = r
      BY <1>3, <1>5, <1>6, <1>8, <2>2, <3>1
    <3>2. CASE q = r
      BY <1>3, <1>5, <1>6, <1>8, <2>2, <3>2
    <3>3. CASE p # r /\ q # r
      BY <1>3, <1>6, <2>2, <3>3 DEF RulesApart
    <3> QED BY <3>1, <3>2, <3>3
  <2>3. ASSUME NEW w \in wakeups' PROVE w.object <= objects'
    <3>1. w \in wakeups /\ w.object \in Nat /\ w.object <= objects
      BY <1>2, <1>3, <2>3 DEF RulesTyped, RulesApart
    <3> QED BY <1>2, <1>3, <3>1
  <2>4. ASSUME NEW o \in 1 .. MaxObjects, o > objects' PROVE quietUntil'[o] = 0
    BY <1>2, <1>3, <2>4 DEF RulesApart
  <2> QED BY <2>1, <2>2, <2>3, <2>4 DEF RulesApart
<1>10. SilencesFine'
  <2>1. ASSUME NEW q \in Rules, rules'[q] \in Rule, rules'[q].object \notin disturbed', rules'[q].enabled
        PROVE  quietUntil'[rules'[q].object] <= minute'
    <3>1. CASE q = r
      <4>1. quietUntil[objects + 1] = 0
        BY <1>3, <1>4 DEF RulesApart
      <4> QED BY <1>2, <1>5, <1>6, <3>1, <4>1 DEF SamplesFine
    <3>2. CASE q # r
      BY <1>2, <1>3, <1>6, <2>1, <3>2 DEF SilencesFine, SilenceHolds
    <3> QED BY <3>1, <3>2
  <2>2. \A w \in wakeups' : w.object \notin disturbed' => w.at = quietUntil'[w.object]
    BY <1>2, <1>3 DEF SilencesFine
  <2> QED BY <2>1, <2>2 DEF SilencesFine, SilenceHolds
<1> QED BY <1>7, <1>9, <1>10 DEF AlertRulesFine

LEMMA RemoveRuleKeeps == ASSUME AlertRulesFine, NEW r \in Rules, removeRule(r) PROVE AlertRulesFine'
<1>1. rules' = [rules EXCEPT ![r] = NoRule] /\ UNCHANGED <<objects, wakeups, quietUntil, disturbed, minute>>
  BY DEF removeRule
<1>2. RulesTyped /\ RulesApart /\ SilencesFine
  BY DEF AlertRulesFine
<1>3. RulesTyped'
  BY <1>1, <1>2 DEF RulesTyped
<1>4. rules'[r] = NoRule /\ \A q \in Rules \ {r} : rules'[q] = rules[q]
  BY <1>1, <1>2 DEF RulesTyped
<1>5. rules'[r] \notin Rule
  BY <1>4, NoRuleIsNone
<1>6. RulesApart'
  BY <1>1, <1>2, <1>4, <1>5 DEF RulesApart
<1>7. SilencesFine'
  BY <1>1, <1>2, <1>4, <1>5 DEF SilencesFine, SilenceHolds
<1> QED BY <1>3, <1>6, <1>7 DEF AlertRulesFine

\* A rule changes, and stays the same object.
LEMMA SameObject ==
    ASSUME RulesTyped, RulesApart, NEW r \in Rules, rules[r] \in Rule,
           rules' \in [Rules -> Rule \union {NoRule}], rules'[r] \in Rule, rules'[r].object = rules[r].object,
           \A q \in Rules \ {r} : rules'[q] = rules[q], objects' = objects
    PROVE  /\ \A q \in Rules : rules'[q] \in Rule => rules'[q].object <= objects'
           /\ \A p, q \in Rules : rules'[p] \in Rule /\ rules'[q] \in Rule /\ rules'[p].object = rules'[q].object
                                  => p = q
<1>1. \A q \in Rules : rules'[q] \in Rule => rules[q] \in Rule /\ rules'[q].object = rules[q].object
  OBVIOUS
<1> QED BY <1>1 DEF RulesApart

LEMMA UpdateRuleKeeps ==
    ASSUME AlertRulesFine, NEW r \in Rules, NEW severity \in Severities, NEW enabled \in BOOLEAN,
           updateRule(r, severity, enabled)
    PROVE  AlertRulesFine'
<1>1. rules[r] \in Rule /\ rules' = [rules EXCEPT ![r].severity = severity, ![r].enabled = enabled]
      /\ disturbed' = disturbed \union {rules[r].object} /\ UNCHANGED <<objects, wakeups, quietUntil, minute>>
  BY DEF updateRule
<1>2. RulesTyped /\ RulesApart /\ SilencesFine
  BY DEF AlertRulesFine
<1>3. rules'[r] \in Rule /\ rules'[r].object = rules[r].object
  BY <1>1, <1>2 DEF Rule, RulesTyped
<1>4. rules' \in [Rules -> Rule \union {NoRule}] /\ \A q \in Rules \ {r} : rules'[q] = rules[q]
  BY <1>1, <1>2, <1>3 DEF RulesTyped
<1>5. RulesTyped'
  BY <1>1, <1>2, <1>4 DEF RulesTyped
<1>6. RulesApart'
  <2>1. (\A q \in Rules : rules[q] \in Rule => rules[q].object <= objects)'
        /\ (\A p, q \in Rules :
                rules[p] \in Rule /\ rules[q] \in Rule /\ rules[p].object = rules[q].object => p = q)'
    BY <1>1, <1>2, <1>3, <1>4, SameObject
  <2> QED BY <1>1, <1>2, <2>1 DEF RulesApart
<1>7. SilencesFine'
  BY <1>1, <1>2, <1>3, <1>4 DEF SilencesFine, SilenceHolds
<1> QED BY <1>5, <1>6, <1>7 DEF AlertRulesFine

LEMMA SilenceRuleKeeps ==
    ASSUME SamplesFine, AlertRulesFine, NEW r \in Rules, NEW duration \in Silences, silenceRule(r, duration)
    PROVE  AlertRulesFine'
<1>1. PICK o : o = rules[r].object
  OBVIOUS
<1>2. PICK end : end = minute + duration
  OBVIOUS
<1>3. rules[r] \in Rule /\ rules' = [rules EXCEPT ![r].enabled = FALSE]
      /\ wakeups' = wakeups \union {[object |-> o, at |-> end]} /\ quietUntil' = [quietUntil EXCEPT ![o] = end]
      /\ disturbed' = (IF \E w \in wakeups : w.object = o THEN disturbed \union {o} ELSE disturbed)
      /\ UNCHANGED <<objects, minute>>
  BY <1>1, <1>2 DEF silenceRule
<1>4. RulesTyped /\ RulesApart /\ SilencesFine
  BY DEF AlertRulesFine
<1>5. end \in Nat /\ o \in 1 .. MaxObjects /\ o <= objects
  <2>1. end \in Nat
    BY <1>2, AlertsAssumption DEF SamplesFine
  <2>2. o \in 1 .. MaxObjects
    BY <1>1, <1>3 DEF Rule
  <2>3. o <= objects
    BY <1>1, <1>3, <1>4 DEF RulesApart
  <2> QED BY <2>1, <2>2, <2>3
<1>6. rules'[r] \in Rule /\ rules'[r].object = o /\ rules'[r].enabled = FALSE
  BY <1>1, <1>3, <1>4 DEF Rule, RulesTyped
<1>7. rules' \in [Rules -> Rule \union {NoRule}] /\ \A q \in Rules \ {r} : rules'[q] = rules[q]
  BY <1>3, <1>4, <1>6 DEF RulesTyped
<1>8. quietUntil' \in [1 .. MaxObjects -> Nat] /\ quietUntil'[o] = end
      /\ \A u \in 1 .. MaxObjects : u # o => quietUntil'[u] = quietUntil[u]
  BY <1>3, <1>4, <1>5 DEF RulesTyped
<1>9. RulesTyped'
  <2>1. [object |-> o, at |-> end] \in [object : 1 .. MaxObjects, at : Nat]
    BY <1>5
  <2> QED BY <1>3, <1>4, <1>7, <1>8, <2>1 DEF RulesTyped
<1>10. RulesApart'
  <2>1. (\A q \in Rules : rules[q] \in Rule => rules[q].object <= objects)'
        /\ (\A p, q \in Rules :
                rules[p] \in Rule /\ rules[q] \in Rule /\ rules[p].object = rules[q].object => p = q)'
    BY <1>1, <1>3, <1>4, <1>6, <1>7, SameObject
  <2>2. ASSUME NEW w \in wakeups' PROVE w.object <= objects'
    BY <1>3, <1>4, <1>5 DEF RulesApart
  <2>3. ASSUME NEW u \in 1 .. MaxObjects, u > objects' PROVE quietUntil'[u] = 0
    <3>1. u # o
      BY <1>3, <1>4, <1>5, <2>3 DEF RulesTyped
    <3> QED BY <1>3, <1>4, <1>8, <2>3, <3>1 DEF RulesApart
  <2> QED BY <2>1, <2>2, <2>3 DEF RulesApart
<1>11. ASSUME NEW w \in wakeups', w.object \notin disturbed' PROVE w.at = quietUntil'[w.object]
  <2>1. CASE w = [object |-> o, at |-> end]
    BY <1>8, <2>1
  <2>2. CASE w \in wakeups
    <3>1. w.object # o /\ w.object \notin disturbed
      BY <1>3, <1>11, <2>2
    <3>2. w.object \in 1 .. MaxObjects /\ w.at = quietUntil[w.object]
      BY <1>4, <2>2, <3>1 DEF RulesTyped, SilencesFine
    <3> QED BY <1>8, <3>1, <3>2
  <2> QED BY <1>3, <2>1, <2>2
<1>12. ASSUME NEW q \in Rules, rules'[q] \in Rule, rules'[q].object \notin disturbed', rules'[q].enabled
       PROVE  quietUntil'[rules'[q].object] <= minute'
  <2>1. q # r /\ rules'[q] = rules[q] /\ rules[q] \in Rule
    BY <1>6, <1>7, <1>12
  <2>2. rules[q].object # o /\ rules[q].object \in 1 .. MaxObjects
    BY <1>1, <1>3, <1>4, <2>1 DEF RulesApart, Rule
  <2>3. rules[q].object \notin disturbed /\ quietUntil[rules[q].object] <= minute
    BY <1>3, <1>4, <1>12, <2>1 DEF SilencesFine, SilenceHolds
  <2> QED BY <1>3, <1>8, <2>1, <2>2, <2>3
<1>13. SilencesFine'
  BY <1>11, <1>12 DEF SilencesFine, SilenceHolds
<1> QED BY <1>9, <1>10, <1>13 DEF AlertRulesFine

\* The timer of an undisturbed silence rings when the silence is over.
LEMMA UnsilenceKeeps == ASSUME SamplesFine, AlertRulesFine, NEW w, Unsilence(w) PROVE AlertRulesFine'
<1>1. w \in wakeups /\ w.at <= minute /\ wakeups' = wakeups \ {w}
      /\ UNCHANGED <<objects, quietUntil, disturbed, minute>>
  BY DEF Unsilence
<1>2. RulesTyped /\ RulesApart /\ SilencesFine
  BY DEF AlertRulesFine
<1>3. rules' = [r \in Rules |-> IF rules[r].object = w.object THEN [rules[r] EXCEPT !.enabled = TRUE] ELSE rules[r]]
  BY DEF Unsilence
<1>4. w.object \in 1 .. MaxObjects /\ w.at \in Nat
  BY <1>1, <1>2 DEF RulesTyped
<1>5. ASSUME NEW r \in Rules, rules[r].object = w.object
      PROVE  rules[r] \in Rule /\ rules'[r] \in Rule /\ rules'[r].object = rules[r].object
  <2>1. rules[r] \in Rule
    BY <1>2, <1>4, <1>5 DEF RulesTyped, NoRule
  <2>2. rules'[r] = [rules[r] EXCEPT !.enabled = TRUE]
    BY <1>3, <1>5
  <2> QED BY <2>1, <2>2 DEF Rule
<1>6. ASSUME NEW r \in Rules, rules[r].object # w.object PROVE rules'[r] = rules[r]
  BY <1>3, <1>6
<1>7. rules' \in [Rules -> Rule \union {NoRule}]
  <2>1. ASSUME NEW r \in Rules PROVE rules'[r] \in Rule \union {NoRule}
    BY <1>2, <1>5, <1>6 DEF RulesTyped
  <2>2. DOMAIN rules' = Rules /\ rules' = [r \in Rules |-> rules'[r]]
    BY <1>3
  <2> QED BY <2>1, <2>2
<1>8. RulesTyped'
  BY <1>1, <1>2, <1>7 DEF RulesTyped
<1>9. \A r \in Rules : rules'[r] \in Rule => rules[r] \in Rule /\ rules'[r].object = rules[r].object
  BY <1>5, <1>6
<1>10. RulesApart'
  BY <1>1, <1>2, <1>9 DEF RulesApart
<1>11. ASSUME NEW r \in Rules, rules'[r] \in Rule, rules'[r].object \notin disturbed', rules'[r].enabled
       PROVE  quietUntil'[rules'[r].object] <= minute'
  <2>1. CASE rules[r].object = w.object
    <3>1. w.object \notin disturbed
      BY <1>1, <1>9, <1>11, <2>1
    <3>2. w.at = quietUntil[w.object]
      BY <1>1, <1>2, <3>1 DEF SilencesFine
    <3> QED BY <1>1, <1>9, <1>11, <2>1, <3>2
  <2>2. CASE rules[r].object # w.object
    BY <1>1, <1>2, <1>6, <1>11, <2>2 DEF SilencesFine, SilenceHolds
  <2> QED BY <2>1, <2>2
<1>12. \A v \in wakeups' : v.object \notin disturbed' => v.at = quietUntil'[v.object]
  BY <1>1, <1>2 DEF SilencesFine
<1>13. SilencesFine'
  BY <1>11, <1>12 DEF SilencesFine, SilenceHolds
<1> QED BY <1>8, <1>10, <1>13 DEF AlertRulesFine

-----------------------------------------------------------------------------
\* The sample an alert names is in the window.
LEMMA FirstIsRecent ==
    ASSUME SamplesFine, NEW m \in Metrics, Over(m, EvaluationWindow) # {}
    PROVE  /\ FirstOver(m) \in 0 .. LastMinute
           /\ FirstOver(m) <= minute /\ minute <= FirstOver(m) + EvaluationWindow
<1>1. PICK T : T = Over(m, EvaluationWindow)
  OBVIOUS
<1>2. samples[m] \in Seq(Sample) /\ \A i \in DOMAIN samples[m] :
          i \in Nat /\ samples[m][i] \in Sample /\ samples[m][i].at <= minute
  <2>1. samples[m] \in Seq(Sample)
    BY DEF SamplesFine
  <2>2. Len(samples[m]) \in Nat /\ DOMAIN samples[m] = 1 .. Len(samples[m])
    BY <2>1, LenProperties
  <2> QED BY <2>1, <2>2, ElementOfSeq DEF SamplesFine
<1>3. T \subseteq DOMAIN samples[m] /\ T # {} /\ \A i \in T : samples[m][i].at >= minute - EvaluationWindow
  BY <1>1 DEF Over, getMetrics
<1>4. Min(T) \in T
  <2>1. T \subseteq Nat
    BY <1>2, <1>3
  <2>2. \E x \in T : \A y \in T : x <= y
    BY <1>3, <2>1, LeastOf
  <2> QED BY <2>2 DEF Min
<1>5. PICK i : i = Min(T)
  OBVIOUS
<1>6. samples[m][i] \in Sample /\ samples[m][i].at <= minute /\ samples[m][i].at >= minute - EvaluationWindow
  BY <1>2, <1>3, <1>4, <1>5
<1>7. FirstOver(m) = samples[m][i].at
  BY <1>1, <1>5 DEF FirstOver
<1>8. samples[m][i].at \in 0 .. LastMinute
  BY <1>6 DEF Sample
<1> QED BY <1>6, <1>7, <1>8, AlertsAssumption DEF SamplesFine

\* Between two alerts of a pair there was the cooldown, which is no shorter than the window.
LEMMA EvaluateKeeps == ASSUME SamplesFine, AlertRulesFine, RaisedFine, evaluateRules PROVE RaisedFine'
<1>1. PICK firing : firing = {p \in Pairs : /\ rules[p[1]] \in Rule /\ rules[p[1]].enabled /\ rules[p[1]].works
                                            /\ Over(p[2], EvaluationWindow) # {} /\ MayRaise(p[1], p[2])}
  OBVIOUS
<1>2. PICK new : new = {[rule |-> p[1], metric |-> p[2], at |-> minute] : p \in firing}
  OBVIOUS
<1>3. PICK fresh : fresh = {[rule |-> p[1], metric |-> p[2], at |-> minute, by |-> FirstOver(p[2])] : p \in firing}
  OBVIOUS
<1>4. alerts' \subseteq alerts \union new /\ raised' = raised \union fresh /\ minute' = minute
      /\ lastAlert' = [p \in Pairs |-> IF p \in firing THEN minute ELSE lastAlert[p]]
  BY <1>1, <1>2, <1>3 DEF evaluateRules
<1>5. minute \in 0 .. LastMinute /\ minute \in Nat /\ LastMinute \in Nat /\ EvaluationWindow \in Nat
  BY AlertsAssumption DEF SamplesFine
<1>6. ASSUME NEW p \in firing
      PROVE  /\ p \in Pairs /\ p[1] \in Rules /\ p[2] \in Metrics /\ p = <<p[1], p[2]>>
             /\ FirstOver(p[2]) \in 0 .. LastMinute
             /\ FirstOver(p[2]) <= minute /\ minute <= FirstOver(p[2]) + EvaluationWindow
             /\ lastAlert[p] = -1 \/ minute - lastAlert[p] >= EvaluationWindow
  <2>1. p \in Pairs /\ p[1] \in Rules /\ p[2] \in Metrics /\ p = <<p[1], p[2]>>
    BY <1>1 DEF Pairs
  <2>2. Over(p[2], EvaluationWindow) # {} /\ MayRaise(p[1], p[2]) /\ rules[p[1]] \in Rule
    BY <1>1
  <2>3. rules[p[1]].severity \in Severities
    BY <2>2 DEF Rule
  <2>4. PICK c \in Nat : c = Cooldown[rules[p[1]].severity] /\ c >= EvaluationWindow
    BY <2>3, AlertsAssumption
  <2>5. lastAlert[p] = -1 \/ minute - lastAlert[p] >= c
    BY <2>1, <2>2, <2>4 DEF MayRaise
  <2>6. lastAlert[p] \in Int
    BY <2>1, <1>5 DEF RaisedFine
  <2> QED BY <1>5, <2>1, <2>2, <2>4, <2>5, <2>6, FirstIsRecent
<1>7. ASSUME NEW a \in fresh
      PROVE  /\ a \in [rule : Rules, metric : Metrics, at : 0 .. LastMinute, by : 0 .. LastMinute]
             /\ <<a.rule, a.metric>> \in firing /\ a.at = minute
             /\ a.by <= a.at /\ a.at <= a.by + EvaluationWindow
  <2>1. PICK p \in firing : a = [rule |-> p[1], metric |-> p[2], at |-> minute, by |-> FirstOver(p[2])]
    BY <1>3
  <2>2. a.rule = p[1] /\ a.metric = p[2] /\ a.at = minute /\ a.by = FirstOver(p[2])
    BY <2>1
  <2>3. a \in [rule : Rules, metric : Metrics, at : 0 .. LastMinute, by : 0 .. LastMinute]
    BY <1>5, <1>6, <2>1
  <2> QED BY <1>5, <1>6, <2>2, <2>3
<1>8. ASSUME NEW a \in raised
      PROVE  /\ a.at \in Nat /\ a.by \in Nat /\ <<a.rule, a.metric>> \in Pairs
             /\ a.by <= a.at /\ a.at <= a.by + EvaluationWindow
             /\ a.at <= lastAlert[<<a.rule, a.metric>>] /\ lastAlert[<<a.rule, a.metric>>] <= minute
             /\ lastAlert[<<a.rule, a.metric>>] \in Int
  BY <1>5 DEF RaisedFine, Pairs
<1>9. lastAlert' \in [Pairs -> -1 .. LastMinute] /\ \A p \in Pairs : lastAlert'[p] <= minute'
  <2>1. ASSUME NEW p \in Pairs
        PROVE  (IF p \in firing THEN minute ELSE lastAlert[p]) \in -1 .. LastMinute
               /\ (IF p \in firing THEN minute ELSE lastAlert[p]) <= minute
    BY <1>5 DEF RaisedFine
  <2> QED BY <1>4, <2>1
<1>10. alerts' \subseteq [rule : Rules, metric : Metrics, at : 0 .. LastMinute]
  <2>1. new \subseteq [rule : Rules, metric : Metrics, at : 0 .. LastMinute]
    BY <1>2, <1>5, <1>6
  <2> QED BY <1>4, <2>1 DEF RaisedFine
<1>11. raised' \subseteq [rule : Rules, metric : Metrics, at : 0 .. LastMinute, by : 0 .. LastMinute]
  BY <1>4, <1>7 DEF RaisedFine
<1>12. ASSUME NEW a \in raised'
       PROVE  a.by <= a.at /\ a.at <= a.by + EvaluationWindow /\ a.at <= lastAlert'[<<a.rule, a.metric>>]
  <2>1. CASE a \in fresh
    <3>1. <<a.rule, a.metric>> \in Pairs
      BY <1>6, <1>7, <2>1
    <3>2. lastAlert'[<<a.rule, a.metric>>] = minute
      BY <1>4, <1>7, <2>1, <3>1
    <3> QED BY <1>5, <1>7, <2>1, <3>2
  <2>2. CASE a \in raised
    <3>1. PICK p \in Pairs : p = <<a.rule, a.metric>>
      BY <1>8, <2>2
    <3>2. lastAlert'[p] = minute \/ lastAlert'[p] = lastAlert[p]
      BY <1>4
    <3>3. a.at <= lastAlert[p] /\ lastAlert[p] <= minute /\ lastAlert[p] \in Int /\ a.at \in Nat
      BY <1>8, <2>2, <3>1
    <3>4. a.at <= lastAlert'[p]
      BY <1>5, <3>2, <3>3
    <3> QED BY <1>8, <2>2, <3>1, <3>4
  <2> QED BY <1>4, <2>1, <2>2
<1>13. ASSUME NEW a \in fresh, NEW b \in raised, a.rule = b.rule, a.metric = b.metric, a.by = b.by
       PROVE  a.at - b.at = EvaluationWindow /\ a.at \in Nat /\ b.at \in Nat
  <2>1. PICK p \in firing : p = <<a.rule, a.metric>>
    BY <1>7
  <2>2. lastAlert[p] \in Int /\ b.at \in Nat /\ b.at <= lastAlert[p] /\ b.by <= b.at /\ b.by \in Nat
    BY <1>8, <1>13, <2>1
  <2>3. lastAlert[p] = -1 \/ minute - lastAlert[p] >= EvaluationWindow
    BY <1>6
  <2>4. a.at = minute /\ minute <= b.by + EvaluationWindow
    BY <1>7, <1>13
  <2> QED BY <1>5, <2>2, <2>3, <2>4
<1>14. SampleRaisesOnce'
  <2> SUFFICES ASSUME NEW a \in raised', NEW b \in raised', a.rule = b.rule, a.metric = b.metric, a.by = b.by
               PROVE  a.at = b.at \/ a.at - b.at \in {EvaluationWindow, -EvaluationWindow}
    BY DEF SampleRaisesOnce
  <2>1. CASE a \in fresh /\ b \in fresh
    BY <1>7, <2>1
  <2>2. CASE a \in fresh /\ b \in raised
    BY <1>13, <2>2
  <2>3. CASE a \in raised /\ b \in fresh
    <3>1. b.at - a.at = EvaluationWindow /\ a.at \in Nat /\ b.at \in Nat
      BY <1>13, <2>3
    <3>2. a.at - b.at = -EvaluationWindow
      BY <1>5, <3>1
    <3> QED BY <3>2
  <2>4. CASE a \in raised /\ b \in raised
    BY <2>4 DEF RaisedFine, SampleRaisesOnce
  <2> QED BY <1>4, <2>1, <2>2, <2>3, <2>4
<1> QED BY <1>9, <1>10, <1>11, <1>12, <1>14 DEF RaisedFine

LEMMA NextMinuteKeeps == AlertsInv /\ NextMinute => AlertsInv'
<1> SUFFICES ASSUME AlertsInv, NextMinute PROVE AlertsInv'
  OBVIOUS
<1>1. SamplesFine /\ MeasuresFine /\ AlertRulesFine /\ RaisedFine
  BY DEF AlertsInv
<1>2. minute < LastMinute /\ minute' = minute + 1
      /\ UNCHANGED <<alerts, lastAlert, raised, rules, wakeups, objects, quietUntil, disturbed, samples, timers,
                     measuring, shared, unmeasured>>
  BY DEF NextMinute, RuleVars, SampleVars
<1>3. minute \in Nat /\ minute' \in Nat /\ minute' \in 0 .. LastMinute /\ \A x \in Int : x <= minute => x <= minute'
  BY <1>1, <1>2, AlertsAssumption DEF SamplesFine
<1>4. SamplesFine'
  <2>1. ASSUME NEW m \in Metrics, NEW i \in 1 .. Len(samples[m]) PROVE samples[m][i].at <= minute'
    <3>1. samples[m] \in Seq(Sample)
      BY <1>1 DEF SamplesFine
    <3>2. samples[m][i] \in Sample
      BY <3>1, ElementOfSeq
    <3>3. samples[m][i].at \in Int /\ samples[m][i].at <= minute
      BY <1>1, <3>2 DEF SamplesFine, Sample
    <3> QED BY <1>3, <3>3
  <2> QED BY <1>1, <1>2, <1>3, <2>1 DEF SamplesFine
<1>5. MeasuresFine'
  BY <1>1, <1>2, SameMeasures
<1>6. AlertRulesFine'
  <2>1. RulesTyped' /\ RulesApart'
    BY <1>1, <1>2 DEF AlertRulesFine, RulesTyped, RulesApart
  <2>2. ASSUME NEW r \in Rules, rules[r] \in Rule, rules[r].object \notin disturbed, rules[r].enabled
        PROVE  quietUntil[rules[r].object] <= minute'
    <3>1. quietUntil[rules[r].object] \in Int /\ quietUntil[rules[r].object] <= minute
      BY <1>1, <2>2 DEF AlertRulesFine, RulesTyped, SilencesFine, SilenceHolds, Rule
    <3> QED BY <1>3, <3>1
  <2>3. SilencesFine'
    BY <1>1, <1>2, <2>2 DEF AlertRulesFine, SilencesFine, SilenceHolds
  <2> QED BY <2>1, <2>3 DEF AlertRulesFine
<1>7. RaisedFine'
  <2>1. ASSUME NEW p \in Pairs PROVE lastAlert[p] <= minute'
    <3>1. lastAlert[p] \in Int /\ lastAlert[p] <= minute
      BY <1>1, AlertsAssumption DEF RaisedFine
    <3> QED BY <1>3, <3>1
  <2> QED BY <1>1, <1>2, <2>1 DEF RaisedFine, SampleRaisesOnce
<1> QED BY <1>4, <1>5, <1>6, <1>7 DEF AlertsInv

LEMMA AlertsStep == AlertsInv /\ AlertsNext => AlertsInv'
<1> SUFFICES ASSUME AlertsInv, AlertsNext PROVE AlertsInv'
  OBVIOUS
<1>1. SamplesFine /\ MeasuresFine /\ AlertRulesFine /\ RaisedFine
  BY DEF AlertsInv
<1>2. ASSUME NEW m \in Metrics, NEW over \in BOOLEAN, setGauge(m, over) PROVE AlertsInv'
  BY <1>1, <1>2, StoreKeeps, SameMeasures, SameAlertRules, SameRaised DEF AlertsInv, setGauge
<1>3. ASSUME NEW r \in Rules, NEW severity \in Severities, NEW on \in BOOLEAN,
             addRule(r, severity, on)
      PROVE  AlertsInv'
  BY <1>1, <1>3, AddRuleKeeps, SameSamples, SameMeasures, SameRaised DEF AlertsInv, addRule, SampleVars
<1>4. ASSUME NEW r \in Rules, NEW severity \in Severities, NEW on \in BOOLEAN,
             updateRule(r, severity, on)
      PROVE  AlertsInv'
  BY <1>1, <1>4, UpdateRuleKeeps, SameSamples, SameMeasures, SameRaised DEF AlertsInv, updateRule, SampleVars
<1>5. ASSUME NEW r \in Rules, removeRule(r) PROVE AlertsInv'
  BY <1>1, <1>5, RemoveRuleKeeps, SameSamples, SameMeasures, SameRaised DEF AlertsInv, removeRule, SampleVars
<1>6. ASSUME NEW r \in Rules, NEW duration \in Silences, silenceRule(r, duration) PROVE AlertsInv'
  BY <1>1, <1>6, SilenceRuleKeeps, SameSamples, SameMeasures, SameRaised DEF AlertsInv, silenceRule, SampleVars
<1>7. ASSUME NEW w \in wakeups, Unsilence(w) PROVE AlertsInv'
  BY <1>1, <1>7, UnsilenceKeeps, SameSamples, SameMeasures, SameRaised DEF AlertsInv, Unsilence, SampleVars
<1>8. ASSUME NEW a \in alerts, manuallyResolveAlert(a) PROVE AlertsInv'
  <2>1. alerts' = alerts \ {a} /\ UNCHANGED <<lastAlert, minute, raised, RuleVars, SampleVars>>
    BY <1>8 DEF manuallyResolveAlert
  <2>2. RaisedFine'
    BY <1>1, <2>1 DEF RaisedFine, SampleRaisesOnce
  <2> QED BY <1>1, <2>1, <2>2, SameSamples, SameMeasures, SameAlertRules DEF AlertsInv, SampleVars
<1>9. CASE evaluateRules
  BY <1>1, <1>9, EvaluateKeeps, SameSamples, SameMeasures, SameAlertRules DEF AlertsInv, evaluateRules, SampleVars
<1>10. CASE NextMinute
  BY <1>10, NextMinuteKeeps
<1> QED BY <1>2, <1>3, <1>4, <1>5, <1>6, <1>7, <1>8, <1>9, <1>10 DEF AlertsNext

LEMMA MeasuresStep == AlertsInv /\ MeasuresNext => AlertsInv'
<1> SUFFICES ASSUME AlertsInv, MeasuresNext PROVE AlertsInv'
  OBVIOUS
<1>1. SamplesFine /\ MeasuresFine /\ AlertRulesFine /\ RaisedFine
  BY DEF AlertsInv
<1>2. ASSUME NEW k \in Clients, NEW m \in Metrics, startTimer(k, m) PROVE AlertsInv'
  BY <1>1, <1>2, StartTimerKeeps, SameSamples, SameAlertRules, SameRaised DEF AlertsInv, startTimer
<1>3. ASSUME NEW k \in Clients, NEW over \in BOOLEAN, endTimer(k, over) PROVE AlertsInv'
  BY <1>1, <1>3, EndTimerKeeps, SameAlertRules, SameRaised DEF AlertsInv, endTimer
<1> QED BY <1>2, <1>3, NextMinuteKeeps DEF MeasuresNext

LEMMA AlertsStutter == AlertsInv /\ UNCHANGED AlertVars => AlertsInv'
BY SameSamples, SameMeasures, SameAlertRules, SameRaised DEF AlertsInv, AlertVars, RuleVars

LEMMA AlertsSuffices == AlertsInv => AlertsTypeOK /\ SampleRaisesOnce /\ SilenceHolds /\ MeasuresAreKept
BY DEF AlertsInv, SamplesFine, MeasuresFine, AlertRulesFine, RulesTyped, SilencesFine, RaisedFine,
       AlertsTypeOK, MeasuresAreKept

\* With any rules, metrics, severities and silences, no sample is alerted about twice, a silence lasts as
\* long as was asked for, and a measure is lost only where two calls of a name were timed at once.
THEOREM AlertsAreFounded ==
    AlertsSpec => [](AlertsTypeOK /\ SampleRaisesOnce /\ SilenceHolds /\ MeasuresAreKept)
<1>1. AlertsInit => AlertsInv
  BY AlertsInitially
<1>2. AlertsInv /\ [AlertsNext \/ MeasuresNext]_AlertVars => AlertsInv'
  BY AlertsStep, MeasuresStep, AlertsStutter
<1>3. AlertsInv => AlertsTypeOK /\ SampleRaisesOnce /\ SilenceHolds /\ MeasuresAreKept
  BY AlertsSuffices
<1> QED BY <1>1, <1>2, <1>3, PTL DEF AlertsSpec

-----------------------------------------------------------------------------
(***************************************************************************)
(* The connection of the caches, and what their monitor tells, for any     *)
(* rules and checks.                                                       *)
(***************************************************************************)
ConnectionStates == {"wait", "connecting", "connect", "ready", "failed", "close", "end"}
ConnectionFine ==
    /\ connection \in [Connections -> ConnectionStates]
    /\ connecting \in {"never", "underway", "answered", "rejected"}
    /\ isConnected \in BOOLEAN /\ (isConnected <=> connection["client"] \in {"connect", "ready"})
AlertStates == {"none", "active", "resolved"}
AlertsFine ==
    /\ cacheAlerts \in [CacheRules -> AlertStates] /\ saved \in [CacheRules -> AlertStates]
    /\ verdict \in [CacheRules -> BOOLEAN]
    /\ \A r \in CacheRules : (cacheAlerts[r] = "active" => verdict[r]) /\ (verdict[r] => cacheAlerts[r] # "none")
    /\ SavedAsRaised
MonitoringInv == ConnectionFine /\ AlertsFine

LEMMA MonitoringInitially == MonitoringInit => MonitoringInv
<1> SUFFICES ASSUME MonitoringInit PROVE MonitoringInv
  OBVIOUS
<1>1. connection = [c \in Connections |-> "wait"] /\ connection["client"] = "wait"
  BY DEF MonitoringInit, Connections
<1>2. ConnectionFine
  BY <1>1 DEF MonitoringInit, ConnectionFine, ConnectionStates
<1>3. AlertsFine
  BY DEF MonitoringInit, AlertsFine, AlertStates, SavedAsRaised
<1> QED BY <1>2, <1>3 DEF MonitoringInv

LEMMA SameConnection == ConnectionFine /\ UnchangedClient => ConnectionFine'
BY DEF ConnectionFine, UnchangedClient
LEMMA SameAlerts == AlertsFine /\ UNCHANGED <<cacheAlerts, saved, verdict, unsaved>> => AlertsFine'
BY DEF AlertsFine, SavedAsRaised

LEMMA ClientStep == MonitoringInv /\ ClientNext => MonitoringInv'
<1> SUFFICES ASSUME MonitoringInv, ClientNext PROVE MonitoringInv'
  OBVIOUS
<1>1. ConnectionFine /\ AlertsFine /\ "client" \in Connections
  BY DEF MonitoringInv, Connections
<1>2. AlertsFine'
  BY <1>1, SameAlerts DEF ClientNext, connect, connectAnswers, disconnect, ConnectionEvent, UnchangedAlerts
<1>3. CASE connect
  <2>1. connection' = [c \in Connections |-> IF MayOpen(c) THEN "connecting" ELSE connection[c]]
        /\ connecting' \in {"underway", "rejected"} /\ isConnected' = isConnected
    BY <1>3 DEF connect
  <2>2. connection' \in [Connections -> ConnectionStates]
    BY <1>1, <2>1 DEF ConnectionFine, ConnectionStates
  <2>3. connection'["client"] \in {"connect", "ready"} <=> connection["client"] \in {"connect", "ready"}
    BY <1>1, <2>1 DEF MayOpen
  <2> QED BY <1>1, <1>2, <2>1, <2>2, <2>3 DEF ConnectionFine, MonitoringInv
<1>4. CASE connectAnswers
  <2>1. ConnectionFine'
    BY <1>1, <1>4 DEF connectAnswers, ConnectionFine
  <2> QED BY <1>2, <2>1 DEF MonitoringInv
<1>5. CASE disconnect
  <2>1. connection' = [c \in Connections |-> "end"] /\ isConnected' = FALSE /\ connecting' = connecting
    BY <1>5 DEF disconnect
  <2>0. connection' \in [Connections -> ConnectionStates] /\ connection'["client"] = "end"
    BY <1>1, <2>1 DEF ConnectionStates
  <2>2. ConnectionFine'
    BY <1>1, <2>0, <2>1 DEF ConnectionFine
  <2> QED BY <1>2, <2>2 DEF MonitoringInv
<1>6. ASSUME NEW c \in Connections, ConnectionEvent(c) PROVE MonitoringInv'
  <2>1. PICK new \in {"connecting", "connect", "ready", "failed", "close"} :
            Follows(connection[c], new) /\ StatusChanges(c, new)
    BY <1>6 DEF ConnectionEvent
  <2>2. connection' = [connection EXCEPT ![c] = new] /\ connecting' = connecting
    BY <1>6, <2>1 DEF StatusChanges, ConnectionEvent
  <2>3. connection' \in [Connections -> ConnectionStates]
    BY <1>1, <2>2 DEF ConnectionFine, ConnectionStates
  <2>4. isConnected' \in BOOLEAN /\ (isConnected' <=> connection'["client"] \in {"connect", "ready"})
    <3>1. CASE c # "client"
      <4>1. isConnected' = isConnected
        BY <2>1, <3>1 DEF StatusChanges
      <4> QED BY <1>1, <2>2, <3>1, <4>1 DEF ConnectionFine
    <3>2. CASE c = "client"
      <4>1. connection'["client"] = new
        BY <1>1, <2>2, <3>2 DEF ConnectionFine
      <4>2. CASE new = "connect"
        BY <2>1, <3>2, <4>1, <4>2 DEF StatusChanges
      <4>3. CASE new \in {"failed", "close"}
        BY <2>1, <3>2, <4>1, <4>3 DEF StatusChanges
      <4>4. CASE new = "ready"
        <5>1. connection["client"] = "connect" /\ isConnected' = isConnected
          BY <2>1, <3>2, <4>4 DEF StatusChanges, Follows
        <5> QED BY <1>1, <4>1, <4>4, <5>1 DEF ConnectionFine
      <4>5. CASE new = "connecting"
        <5>1. connection["client"] = "close" /\ isConnected' = isConnected
          BY <2>1, <3>2, <4>5 DEF StatusChanges, Follows
        <5> QED BY <1>1, <4>1, <4>5, <5>1 DEF ConnectionFine
      <4> QED BY <4>2, <4>3, <4>4, <4>5
    <3> QED BY <3>1, <3>2
  <2> QED BY <1>1, <1>2, <2>2, <2>3, <2>4 DEF ConnectionFine, MonitoringInv
<1> QED BY <1>3, <1>4, <1>5, <1>6 DEF ClientNext

LEMMA RuleCheckKeeps ==
    ASSUME AlertsFine, NEW h \in HealthChecks, NEW r \in CacheRules, NEW works \in BOOLEAN,
           checkAlertRule(h, r, works)
    PROVE  AlertsFine'
<1> DEFINE raise == evaluateAlertRule(r, inspecting[h].values)
           alert == AlertAfter(cacheAlerts[r], raise)
<1>1. CASE r \notin ruled
  BY <1>1, SameAlerts DEF checkAlertRule
<1>2. CASE r \in ruled
  <2>1. verdict' = [verdict EXCEPT ![r] = raise] /\ cacheAlerts' = [cacheAlerts EXCEPT ![r] = alert]
        /\ IF alert = cacheAlerts[r] THEN UNCHANGED <<saved, unsaved>> ELSE handleAlert(r, alert, works)
    BY <1>2 DEF checkAlertRule
  <2>2. raise \in BOOLEAN
    BY DEF evaluateAlertRule
  <2>3. alert \in AlertStates /\ (alert = "active" => raise) /\ (raise => alert # "none")
    BY DEF AlertsFine, AlertStates, AlertAfter
  <2> HIDE DEF raise, alert
  <2>4. saved' \in [CacheRules -> AlertStates]
    BY <2>1, <2>3 DEF AlertsFine, handleAlert
  <2>5. SavedAsRaised'
    <3> SUFFICES ASSUME NEW q \in CacheRules, q \notin unsaved' PROVE saved'[q] = cacheAlerts'[q]
      BY DEF SavedAsRaised
    <3>1. CASE alert = cacheAlerts[r]
      BY <2>1, <3>1 DEF AlertsFine, SavedAsRaised
    <3>2. CASE alert # cacheAlerts[r]
      BY <2>1, <3>2 DEF AlertsFine, SavedAsRaised, handleAlert
    <3> QED BY <3>1, <3>2
  <2>6. cacheAlerts' \in [CacheRules -> AlertStates] /\ verdict' \in [CacheRules -> BOOLEAN]
    BY <2>1, <2>2, <2>3 DEF AlertsFine
  <2>7. \A q \in CacheRules :
            (cacheAlerts'[q] = "active" => verdict'[q]) /\ (verdict'[q] => cacheAlerts'[q] # "none")
    BY <2>1, <2>3 DEF AlertsFine
  <2> QED BY <2>4, <2>5, <2>6, <2>7 DEF AlertsFine
<1> QED BY <1>1, <1>2

LEMMA MonitoringStep == MonitoringInv /\ MonitoringNext => MonitoringInv'
<1> SUFFICES ASSUME MonitoringInv, MonitoringNext PROVE MonitoringInv'
  OBVIOUS
<1>1. ConnectionFine /\ AlertsFine
  BY DEF MonitoringInv
<1>2. ASSUME UnchangedClient, UNCHANGED <<cacheAlerts, saved, verdict, unsaved>> PROVE MonitoringInv'
  BY <1>1, <1>2, SameConnection, SameAlerts DEF MonitoringInv
<1>3. ASSUME NEW h \in HealthChecks, performCacheCheck(h) PROVE MonitoringInv'
  BY <1>2, <1>3 DEF performCacheCheck
<1>4. ASSUME NEW h \in HealthChecks, NEW works \in BOOLEAN, getInfo(h, works) PROVE MonitoringInv'
  BY <1>2, <1>4 DEF getInfo
<1>5. ASSUME NEW h \in HealthChecks, NEW works \in BOOLEAN, NEW r \in CacheRules, checkAlertRule(h, r, works)
      PROVE  MonitoringInv'
  <2>1. AlertsFine' /\ UnchangedClient
    BY <1>1, <1>5, RuleCheckKeeps DEF checkAlertRule
  <2> QED BY <1>1, <2>1, SameConnection DEF MonitoringInv
<1>6. ASSUME NEW r \in CacheRules, addAlertRule(r) \/ removeAlertRule(r) \/ MetricMoves(r) PROVE MonitoringInv'
  BY <1>2, <1>6 DEF addAlertRule, removeAlertRule, MetricMoves
<1> QED BY <1>3, <1>4, <1>5, <1>6 DEF MonitoringNext

LEMMA MonitoringStutter == MonitoringInv /\ UNCHANGED MonitoringVars => MonitoringInv'
BY SameConnection, SameAlerts DEF MonitoringInv, MonitoringVars, UnchangedClient

LEMMA MonitoringSuffices ==
    MonitoringInv => MonitoringTypeOK /\ ReadyWhenReady /\ AlertsFollowVerdicts /\ SavedAsRaised
<1> SUFFICES ASSUME MonitoringInv
             PROVE  MonitoringTypeOK /\ ReadyWhenReady /\ AlertsFollowVerdicts /\ SavedAsRaised
  OBVIOUS
<1>1. ConnectionFine /\ AlertsFine
  BY DEF MonitoringInv
<1>2. ReadyWhenReady
  BY <1>1 DEF ConnectionFine, ReadyWhenReady, isReady
<1>3. AlertsFollowVerdicts
  BY <1>1 DEF AlertsFine, AlertsFollowVerdicts, getActiveAlerts, getAlertHistory
<1>4. MonitoringTypeOK
  BY <1>1 DEF ConnectionFine, ConnectionStates, AlertsFine, AlertStates, MonitoringTypeOK
<1> QED BY <1>1, <1>2, <1>3, <1>4 DEF AlertsFine

\* With any rules and overlapping checks of the caches, the client believes it is connected only when it
\* is, alerts follow the verdicts, and what is saved is what was raised.
THEOREM MonitoringTellsTheTruth ==
    MonitoringSpec => [](MonitoringTypeOK /\ ReadyWhenReady /\ AlertsFollowVerdicts /\ SavedAsRaised)
<1>1. MonitoringInit => MonitoringInv
  BY MonitoringInitially
<1>2. MonitoringInv /\ [ClientNext \/ MonitoringNext]_MonitoringVars => MonitoringInv'
  BY ClientStep, MonitoringStep, MonitoringStutter
<1>3. MonitoringInv => MonitoringTypeOK /\ ReadyWhenReady /\ AlertsFollowVerdicts /\ SavedAsRaised
  BY MonitoringSuffices
<1> QED BY <1>1, <1>2, <1>3, PTL DEF MonitoringSpec

-----------------------------------------------------------------------------
(***************************************************************************)
(* The page that shows notifications, for any sockets and messages.        *)
(***************************************************************************)
SocketStates == {"unused", "connecting", "open", "closing", "aborted", "closed"}
SocketTypes ==
    /\ socket \in [Sockets -> SocketStates] /\ wsRef \in Sockets \union {NoSocket}
    /\ timerRef \in Sockets \union {NoSocket} /\ beatRef \in Sockets \union {NoSocket}
    /\ attempts \subseteq Sockets /\ beats \subseteq Sockets /\ reconnectAttempts \in Nat

\* While nothing overlapped, one socket at most is on its way or open, and it is the present
\* one; an attempt waits only without such a socket, and is the one the timer stands for; what
\* is closing was left.
Living == {s \in Sockets : socket[s] \in {"connecting", "open"}}
IsOpen(s) == s \in Sockets /\ socket[s] = "open"
PresentOnly ==
    /\ Living \subseteq {wsRef} /\ \A s \in Sockets : socket[s] # "aborted" /\ (socket[s] = "closing" => left)
    /\ left => Living = {} /\ attempts = {} /\ wsRef = NoSocket
Shown == isSocketOpen \in BOOLEAN /\ (isSocketOpen <=> IsOpen(wsRef))
Beating == beats = {s \in {wsRef} : IsOpen(s)} /\ (IsOpen(wsRef) => beatRef = wsRef)
Waiting ==
    /\ attempts \subseteq {timerRef} /\ (attempts # {} => Living = {} /\ reconnectAttempts < MaxReconnectAttempts)
    /\ reconnectAttempts <= MaxReconnectAttempts
Calm == PresentOnly /\ Shown /\ Beating /\ Waiting
SocketsFine == SocketTypes /\ (overlapped \/ Calm)
LatestFine == arrived \in Seq(Messages) /\ LatestAreKept
PanelInv == SocketsFine /\ LatestFine

LEMMA PanelInitially == PanelInit => PanelInv
<1> SUFFICES ASSUME PanelInit PROVE PanelInv
  OBVIOUS
<1>1. SocketTypes
  BY DEF PanelInit, SocketTypes, SocketStates
<1>2. Living = {} /\ ~IsOpen(wsRef) /\ wsRef = NoSocket
  BY PanelAssumption DEF PanelInit, Living, IsOpen
<1>3. PresentOnly
  BY <1>2 DEF PanelInit, PresentOnly
<1>4. Shown /\ Beating
  BY <1>2 DEF PanelInit, Shown, Beating
<1>5. Waiting
  BY <1>2, PanelAssumption DEF PanelInit, Waiting
<1>6. LatestFine
  <2>1. arrived = <<>> /\ notifications = <<>> /\ arrived \in Seq(Messages) /\ Len(arrived) = 0
    BY DEF PanelInit
  <2>2. SubSeq(arrived, 1, 0) = <<>>
    BY SubSeqEmpty
  <2> QED BY <2>1, <2>2, PanelAssumption DEF LatestFine, LatestAreKept
<1> QED BY <1>1, <1>3, <1>4, <1>5, <1>6 DEF PanelInv, SocketsFine, Calm

SocketVars ==
    <<socket, wsRef, isSocketOpen, reconnectAttempts, attempts, timerRef, beats, beatRef, left, overlapped>>
LEMMA SameSockets == SocketsFine /\ UNCHANGED SocketVars => SocketsFine'
<1> SUFFICES ASSUME SocketsFine, UNCHANGED SocketVars PROVE SocketsFine'
  OBVIOUS
<1> USE DEF SocketVars
<1>1. SocketTypes'
  BY DEF SocketsFine, SocketTypes
<1>2. Living' = Living /\ \A s : IsOpen(s)' <=> IsOpen(s)
  BY DEF Living, IsOpen
<1>3. overlapped \/ Calm'
  <2>1. CASE overlapped
    BY <2>1
  <2>2. CASE Calm
    <3>1. PresentOnly' /\ Waiting'
      BY <1>2, <2>2 DEF Calm, PresentOnly, Waiting
    <3>2. Shown' /\ Beating'
      BY <1>2, <2>2 DEF Calm, Shown, Beating, IsOpen
    <3> QED BY <3>1, <3>2 DEF Calm
  <2> QED BY <2>1, <2>2 DEF SocketsFine
<1> QED BY <1>1, <1>3 DEF SocketsFine
LEMMA SameLatest == LatestFine /\ UnchangedList => LatestFine'
BY DEF LatestFine, LatestAreKept, UnchangedList

\* A new socket is opened: none is open, and unless that overlaps, none is on its way, closing or waited for.
LEMMA ConnectKeeps == ASSUME SocketsFine, connectPanel PROVE SocketsFine'
<1>1. SocketTypes /\ (overlapped \/ Calm)
  BY DEF SocketsFine
<1>2. CASE wsRef # NoSocket /\ socket[wsRef] = "open"
  <2>1. UNCHANGED <<socket, wsRef, overlapped, isSocketOpen, reconnectAttempts, attempts, timerRef, beats, beatRef>>
        /\ left' = FALSE
    BY <1>2 DEF connectPanel, Connects
  <2>2. SocketTypes'
    BY <1>1, <2>1 DEF SocketTypes
  <2>3. Living' = Living /\ (\A s : IsOpen(s)' <=> IsOpen(s)) /\ wsRef' = wsRef
    BY <2>1 DEF Living, IsOpen
  <2>4. ASSUME Calm PROVE Calm'
    <3>1. ~left
      BY <1>2, <2>4 DEF Calm, PresentOnly
    <3>2. PresentOnly'
      BY <2>1, <2>3, <2>4, <3>1 DEF Calm, PresentOnly
    <3>3. Shown' /\ Beating'
      BY <2>1, <2>3, <2>4 DEF Calm, Shown, Beating, IsOpen
    <3>4. Waiting'
      BY <2>1, <2>3, <2>4 DEF Calm, Waiting
    <3> QED BY <3>2, <3>3, <3>4 DEF Calm
  <2> QED BY <1>1, <2>1, <2>2, <2>4 DEF SocketsFine
<1>3. CASE ~(wsRef # NoSocket /\ socket[wsRef] = "open")
  <2>1. PICK s \in Sockets :
            socket[s] = "unused" /\ socket' = [socket EXCEPT ![s] = "connecting"] /\ wsRef' = s
    BY <1>3 DEF connectPanel, Connects
  <2>2. overlapped' = (overlapped \/ Busy \/ attempts # {}) /\ left' = FALSE
        /\ UNCHANGED <<isSocketOpen, reconnectAttempts, attempts, timerRef, beats, beatRef>>
    BY <1>3 DEF connectPanel, Connects
  <2>3. SocketTypes'
    <3>1. socket' \in [Sockets -> SocketStates]
      BY <1>1, <2>1 DEF SocketTypes, SocketStates
    <3> QED BY <1>1, <2>1, <2>2, <3>1 DEF SocketTypes
  <2>4. ASSUME Calm, ~Busy, attempts = {} PROVE Calm'
    <3>1. Living = {} /\ ~IsOpen(wsRef)
      BY <1>3, <2>4, PanelAssumption DEF Calm, PresentOnly, Living, IsOpen, Busy
    <3>2. socket'[s] = "connecting" /\ \A t \in Sockets \ {s} : socket'[t] = socket[t]
      BY <1>1, <2>1 DEF SocketTypes
    <3>3. Living' = {s} /\ ~IsOpen(wsRef)'
      BY <2>1, <3>1, <3>2 DEF Living, IsOpen
    <3>4. PresentOnly'
      BY <2>1, <2>2, <2>4, <3>2, <3>3 DEF Calm, PresentOnly, Busy
    <3>5. Shown'
      BY <2>2, <2>4, <3>1, <3>3 DEF Calm, Shown
    <3>6. Beating'
      BY <2>2, <2>4, <3>1, <3>3 DEF Calm, Beating
    <3>7. Waiting'
      BY <2>2, <2>4 DEF Calm, Waiting
    <3> QED BY <3>4, <3>5, <3>6, <3>7 DEF Calm
  <2> QED BY <1>1, <2>2, <2>3, <2>4 DEF SocketsFine
<1> QED BY <1>2, <1>3

\* The attempt that waited was the only one, and no socket lived.
LEMMA ReconnectKeeps == ASSUME SocketsFine, NEW c \in Sockets, Reconnects(c) PROVE SocketsFine'
<1>1. SocketTypes /\ (overlapped \/ Calm)
  BY DEF SocketsFine
<1>2. c \in attempts /\ attempts' = attempts \ {c} /\ reconnectAttempts' = reconnectAttempts + 1
      /\ UNCHANGED <<isSocketOpen, timerRef, beats, beatRef, left>>
  BY DEF Reconnects
<1>3. socket' \in [Sockets -> SocketStates] /\ wsRef' \in Sockets \union {NoSocket}
  <2>1. CASE UNCHANGED <<socket, wsRef>>
    BY <1>1, <2>1 DEF SocketTypes
  <2>2. CASE \E s \in Sockets :
            socket[s] = "unused" /\ socket' = [socket EXCEPT ![s] = "connecting"] /\ wsRef' = s
    BY <1>1, <2>2 DEF SocketTypes, SocketStates
  <2> QED BY <2>1, <2>2 DEF Reconnects, Connects
<1>4. SocketTypes'
  BY <1>1, <1>2, <1>3 DEF SocketTypes
<1>5. ASSUME Calm PROVE overlapped' \/ Calm'
  <2>1. Living = {} /\ reconnectAttempts < MaxReconnectAttempts /\ ~left /\ attempts' = {}
    BY <1>2, <1>5 DEF Calm, PresentOnly, Waiting
  <2>2. ~(wsRef # NoSocket /\ socket[wsRef] = "open") /\ ~IsOpen(wsRef)
    BY <1>1, <2>1 DEF Living, SocketTypes, IsOpen
  <2>3. PICK s \in Sockets :
            socket[s] = "unused" /\ socket' = [socket EXCEPT ![s] = "connecting"] /\ wsRef' = s
    BY <2>2 DEF Reconnects, Connects
  <2>4. socket'[s] = "connecting" /\ \A t \in Sockets \ {s} : socket'[t] = socket[t]
    BY <1>1, <2>3 DEF SocketTypes
  <2>5. Living' = {s} /\ ~IsOpen(wsRef)'
    BY <2>1, <2>3, <2>4 DEF Living, IsOpen
  <2>6. PresentOnly'
    BY <1>2, <1>5, <2>1, <2>3, <2>4, <2>5 DEF Calm, PresentOnly
  <2>7. Shown'
    BY <1>2, <1>5, <2>2, <2>5 DEF Calm, Shown
  <2>8. Beating'
    BY <1>2, <1>5, <2>2, <2>5 DEF Calm, Beating
  <2>9. Waiting'
    BY <1>1, <1>2, <2>1, PanelAssumption DEF SocketTypes, Waiting
  <2> QED BY <2>6, <2>7, <2>8, <2>9 DEF Calm
<1>6. overlapped => overlapped'
  BY DEF Reconnects, Connects
<1> QED BY <1>1, <1>4, <1>5, <1>6 DEF SocketsFine

\* What opens is the present socket, or something overlapped before.
LEMMA OpenKeeps == ASSUME SocketsFine, NEW s \in Sockets, onopen(s) PROVE SocketsFine'
<1>1. SocketTypes /\ (overlapped \/ Calm)
  BY DEF SocketsFine
<1>2. socket[s] = "connecting" /\ socket' = [socket EXCEPT ![s] = "open"] /\ isSocketOpen' = TRUE
      /\ reconnectAttempts' = 0 /\ beats' = beats \union {s} /\ beatRef' = s
      /\ UNCHANGED <<wsRef, attempts, timerRef, left, overlapped>>
  BY DEF onopen
<1>3. SocketTypes'
  <2>1. socket' \in [Sockets -> SocketStates]
    BY <1>1, <1>2 DEF SocketTypes, SocketStates
  <2> QED BY <1>1, <1>2, <2>1 DEF SocketTypes
<1>4. ASSUME Calm PROVE Calm'
  <2>1. s \in Living /\ wsRef = s /\ ~left /\ attempts = {} /\ ~IsOpen(wsRef)
    BY <1>2, <1>4 DEF Calm, PresentOnly, Waiting, Living, IsOpen
  <2>2. socket'[s] = "open" /\ \A t \in Sockets \ {s} : socket'[t] = socket[t]
    BY <1>1, <1>2 DEF SocketTypes
  <2>3. Living' = Living /\ IsOpen(s)' /\ wsRef' = s
    BY <1>2, <2>1, <2>2 DEF Living, IsOpen
  <2>4. PresentOnly'
    BY <1>2, <1>4, <2>1, <2>2, <2>3 DEF Calm, PresentOnly
  <2>5. Shown'
    BY <1>2, <2>3 DEF Shown, IsOpen
  <2>6. beats = {} /\ beats' = {s}
    BY <1>2, <1>4, <2>1 DEF Calm, Beating
  <2>7. Beating'
    BY <1>2, <2>3, <2>6 DEF Beating, IsOpen
  <2>8. Waiting'
    BY <1>2, <2>1, PanelAssumption DEF Waiting
  <2> QED BY <2>4, <2>5, <2>7, <2>8 DEF Calm
<1> QED BY <1>1, <1>2, <1>3, <1>4 DEF SocketsFine

\* What closes was the present socket, or one that was left; only after the former does an attempt wait.
LEMMA CloseKeeps ==
    ASSUME SocketsFine, NEW s \in Sockets, NEW normally \in BOOLEAN, onclose(s, normally)
    PROVE  SocketsFine'
<1>1. SocketTypes /\ (overlapped \/ Calm)
  BY DEF SocketsFine
<1>2. socket[s] \in {"connecting", "open", "closing", "aborted"} /\ socket' = [socket EXCEPT ![s] = "closed"]
      /\ isSocketOpen' = FALSE /\ beats' = beats \ {beatRef} /\ beatRef' = NoSocket
      /\ UNCHANGED <<wsRef, reconnectAttempts, left>>
  BY DEF onclose
<1>3. attempts' = (IF TriesAgain(normally) THEN attempts \union {s} ELSE attempts)
      /\ timerRef' = (IF TriesAgain(normally) THEN s ELSE timerRef)
  BY DEF onclose
<1>4. overlapped' = (overlapped \/ (\E other \in Sockets \ {s} : socket[other] \in {"connecting", "open"})
                     \/ (left /\ ~normally))
  BY DEF onclose
<1>5. socket' \in [Sockets -> SocketStates] /\ socket'[s] = "closed"
      /\ \A t \in Sockets \ {s} : socket'[t] = socket[t]
  BY <1>1, <1>2 DEF SocketTypes, SocketStates
<1>6. SocketTypes'
  BY <1>1, <1>2, <1>3, <1>5 DEF SocketTypes
<1>7. ASSUME Calm, ~(left /\ ~normally), \A other \in Sockets \ {s} : socket[other] \notin {"connecting", "open"}
      PROVE  Calm'
  <2>1. Living' = {} /\ ~IsOpen(wsRef)'
    BY <1>5, <1>7 DEF Living, IsOpen
  <2>2. TriesAgain(normally) => ~left /\ reconnectAttempts < MaxReconnectAttempts /\ attempts = {}
    <3> SUFFICES ASSUME TriesAgain(normally) PROVE ~left /\ reconnectAttempts < MaxReconnectAttempts /\ attempts = {}
      OBVIOUS
    <3>1. ~left /\ reconnectAttempts < MaxReconnectAttempts
      BY <1>7 DEF TriesAgain
    <3>2. s \in Living
      BY <1>2, <1>7, <3>1 DEF Calm, PresentOnly, Living
    <3> QED BY <1>7, <3>1, <3>2 DEF Calm, Waiting
  <2>3. PresentOnly'
    BY <1>2, <1>3, <1>5, <1>7, <2>1, <2>2 DEF Calm, PresentOnly
  <2>4. Shown'
    BY <1>2, <2>1 DEF Shown
  <2>5. beats' = {}
    <3>1. CASE IsOpen(wsRef)
      BY <1>2, <1>7, <3>1 DEF Calm, Beating
    <3>2. CASE ~IsOpen(wsRef)
      BY <1>2, <1>7, <3>2 DEF Calm, Beating
    <3> QED BY <3>1, <3>2
  <2>6. Beating'
    BY <2>1, <2>5 DEF Beating
  <2>7. Waiting'
    <3>1. CASE TriesAgain(normally)
      BY <1>2, <1>3, <2>1, <2>2, <3>1, <1>7 DEF Calm, Waiting
    <3>2. CASE ~TriesAgain(normally)
      BY <1>2, <1>3, <2>1, <3>2, <1>7 DEF Calm, Waiting
    <3> QED BY <3>1, <3>2
  <2> QED BY <2>3, <2>4, <2>6, <2>7 DEF Calm
<1> QED BY <1>1, <1>4, <1>6, <1>7 DEF SocketsFine

\* The timer and the interval cleared are the only ones, and the socket closed is the only one that lives.
LEMMA DisconnectKeeps == ASSUME SocketsFine, disconnectPanel PROVE SocketsFine'
<1>1. SocketTypes /\ (overlapped \/ Calm)
  BY DEF SocketsFine
<1>2. attempts' = attempts \ {timerRef} /\ timerRef' = NoSocket /\ beats' = beats \ {beatRef} /\ beatRef' = NoSocket
      /\ wsRef' = NoSocket /\ isSocketOpen' = FALSE /\ reconnectAttempts' = 0 /\ left' = TRUE
      /\ overlapped' = (overlapped \/ \E s \in Sockets : socket[s] = "connecting")
  BY DEF disconnectPanel
<1>3. ASSUME NEW s \in Sockets
      PROVE  /\ s = wsRef /\ socket[s] = "open" => socket'[s] = "closing"
             /\ s = wsRef /\ socket[s] = "connecting" => socket'[s] = "aborted"
             /\ s # wsRef \/ socket[s] \notin {"open", "connecting"} => socket'[s] = socket[s]
  BY DEF disconnectPanel
<1>4. socket' \in [Sockets -> SocketStates]
  <2>1. DOMAIN socket' = Sockets /\ socket' = [s \in Sockets |-> socket'[s]]
    BY DEF disconnectPanel
  <2>2. ASSUME NEW s \in Sockets PROVE socket'[s] \in SocketStates
    BY <1>1, <1>3 DEF SocketTypes, SocketStates
  <2> QED BY <2>1, <2>2
<1>5. SocketTypes'
  BY <1>1, <1>2, <1>4 DEF SocketTypes
<1>6. ASSUME Calm, \A s \in Sockets : socket[s] # "connecting" PROVE Calm'
  <2>1. Living' = {}
    <3> SUFFICES ASSUME NEW s \in Sockets PROVE socket'[s] \notin {"connecting", "open"}
      BY DEF Living
    <3>1. CASE socket[s] = "open"
      BY <1>3, <1>6, <3>1 DEF Calm, PresentOnly, Living
    <3>2. CASE socket[s] # "open"
      BY <1>3, <1>6, <3>2
    <3> QED BY <3>1, <3>2
  <2>2. ~IsOpen(wsRef)'
    BY <1>2, PanelAssumption DEF IsOpen
  <2>3. attempts' = {}
    BY <1>2, <1>6 DEF Calm, Waiting
  <2>4. PresentOnly'
    <3>1. \A s \in Sockets : socket'[s] # "aborted"
      BY <1>3, <1>6 DEF Calm, PresentOnly
    <3> QED BY <1>2, <2>1, <2>3, <3>1 DEF PresentOnly
  <2>5. Shown'
    BY <1>2, <2>2 DEF Shown
  <2>6. beats' = {}
    <3>1. CASE IsOpen(wsRef)
      BY <1>2, <1>6, <3>1 DEF Calm, Beating
    <3>2. CASE ~IsOpen(wsRef)
      BY <1>2, <1>6, <3>2 DEF Calm, Beating
    <3> QED BY <3>1, <3>2
  <2>7. Beating'
    BY <2>2, <2>6 DEF Beating
  <2>8. Waiting'
    BY <1>2, <2>3, PanelAssumption DEF Waiting
  <2> QED BY <2>4, <2>5, <2>7, <2>8 DEF Calm
<1> QED BY <1>1, <1>2, <1>5, <1>6 DEF SocketsFine

-----------------------------------------------------------------------------
\* The latest k of a list that has grown by one are the new one and the latest k - 1 of what it was.
LEMMA LatestOfMore ==
    ASSUME NEW S, NEW a \in Seq(S), NEW m \in S, NEW k \in Nat \ {0}, NEW shown,
           shown = SubSeq(a, 1, IF Len(a) < k THEN Len(a) ELSE k)
    PROVE  /\ <<m>> \o a \in Seq(S)
           /\ <<m>> \o SubSeq(shown, 1, IF Len(shown) < k - 1 THEN Len(shown) ELSE k - 1)
                  = SubSeq(<<m>> \o a, 1, IF Len(<<m>> \o a) < k THEN Len(<<m>> \o a) ELSE k)
<1>1. PICK n \in Nat : n = (IF Len(a) < k THEN Len(a) ELSE k)
  OBVIOUS
<1>2. PICK l \in Nat : l = (IF n < k - 1 THEN n ELSE k - 1)
  BY <1>1
<1>3. n <= Len(a) /\ l <= n /\ l <= k - 1 /\ l + 1 = (IF Len(a) + 1 < k THEN Len(a) + 1 ELSE k)
  BY <1>1, <1>2
<1>4. shown \in Seq(S) /\ Len(shown) = n /\ \A i \in 1 .. n : shown[i] = a[i]
  <2>1. \A i \in 1 .. n : a[i] \in S
    BY <1>3, ElementOfSeq
  <2>2. SubSeq(a, 1, n) \in Seq(S) /\ Len(SubSeq(a, 1, n)) = (IF 1 <= n THEN n - 1 + 1 ELSE 0)
        /\ \A i \in 1 .. n - 1 + 1 : SubSeq(a, 1, n)[i] = a[1 + i - 1]
    BY <2>1, SubSeqProperties
  <2> QED BY <1>1, <2>2
<1>5. PICK older : older = SubSeq(shown, 1, l)
  OBVIOUS
<1>6. older \in Seq(S) /\ Len(older) = l /\ \A i \in 1 .. l : older[i] = a[i]
  <2>1. \A i \in 1 .. l : i \in 1 .. Len(shown) /\ shown[i] \in S /\ shown[i] = a[i]
    BY <1>3, <1>4, ElementOfSeq
  <2>0. 1 \in Int /\ l \in Int
    BY <1>2
  <2>2. SubSeq(shown, 1, l) \in Seq(S) /\ Len(SubSeq(shown, 1, l)) = (IF 1 <= l THEN l - 1 + 1 ELSE 0)
        /\ \A i \in 1 .. l - 1 + 1 : SubSeq(shown, 1, l)[i] = shown[1 + i - 1]
    BY <2>0, <2>1, SubSeqProperties
  <2>3. ASSUME NEW i \in 1 .. l PROVE SubSeq(shown, 1, l)[i] = a[i]
    <3>1. i \in 1 .. l - 1 + 1 /\ 1 + i - 1 = i
      BY <1>2
    <3> QED BY <2>1, <2>2, <3>1
  <2>4. Len(SubSeq(shown, 1, l)) = l
    <3>1. l \in Nat /\ (IF 1 <= l THEN l - 1 + 1 ELSE 0) = l
      BY <1>2
    <3> QED BY <2>2, <3>1
  <2> QED BY <1>5, <2>2, <2>3, <2>4
<1>7. PICK one : one = <<m>>
  OBVIOUS
<1>8. one \in Seq(S) /\ Len(one) = 1 /\ one[1] = m
  BY <1>7
<1>9. PICK all : all = one \o a
  OBVIOUS
<1>10. all \in Seq(S) /\ Len(all) = Len(a) + 1 /\ all[1] = m /\ \A i \in 2 .. Len(a) + 1 : all[i] = a[i - 1]
  <2>1. one \o a \in Seq(S) /\ Len(one \o a) = Len(one) + Len(a)
        /\ \A i \in 1 .. Len(one) + Len(a) : (one \o a)[i] = IF i <= Len(one) THEN one[i] ELSE a[i - Len(one)]
    BY <1>8, ConcatProperties
  <2> QED BY <1>8, <1>9, <2>1
<1>11. PICK grown : grown = one \o older
  OBVIOUS
<1>12. grown \in Seq(S) /\ Len(grown) = l + 1 /\ grown[1] = m /\ \A i \in 2 .. l + 1 : grown[i] = a[i - 1]
  <2>1. one \o older \in Seq(S) /\ Len(one \o older) = Len(one) + Len(older)
        /\ \A i \in 1 .. Len(one) + Len(older) :
               (one \o older)[i] = IF i <= Len(one) THEN one[i] ELSE older[i - Len(one)]
    BY <1>6, <1>8, ConcatProperties
  <2> QED BY <1>6, <1>8, <1>11, <2>1
<1>13. PICK latest : latest = SubSeq(all, 1, l + 1)
  OBVIOUS
<1>14. latest \in Seq(S) /\ Len(latest) = l + 1 /\ \A i \in 1 .. l + 1 : latest[i] = all[i]
  <2>1. \A i \in 1 .. l + 1 : all[i] \in S
    BY <1>3, <1>10, ElementOfSeq
  <2>2. SubSeq(all, 1, l + 1) \in Seq(S)
        /\ Len(SubSeq(all, 1, l + 1)) = (IF 1 <= l + 1 THEN l + 1 - 1 + 1 ELSE 0)
        /\ \A i \in 1 .. l + 1 - 1 + 1 : SubSeq(all, 1, l + 1)[i] = all[1 + i - 1]
    BY <2>1, SubSeqProperties
  <2> QED BY <1>13, <2>2
<1>15. grown = latest
  <2>1. ASSUME NEW i \in 1 .. l + 1 PROVE grown[i] = latest[i]
    <3>1. CASE i = 1
      BY <1>2, <1>10, <1>12, <1>14, <3>1
    <3>2. CASE i # 1
      <4>1. i \in 2 .. l + 1 /\ i \in 2 .. Len(a) + 1
        BY <1>2, <1>3, <3>2
      <4> QED BY <1>10, <1>12, <1>14, <4>1
    <3> QED BY <3>1, <3>2
  <2> QED BY <1>12, <1>14, <2>1, SeqEqual
<1>16. Len(all) = Len(a) + 1 /\ l + 1 = (IF Len(all) < k THEN Len(all) ELSE k)
  BY <1>3, <1>10
<1> QED BY <1>2, <1>4, <1>5, <1>7, <1>9, <1>10, <1>11, <1>13, <1>15, <1>16

LEMMA ListKeeps ==
    ASSUME LatestFine,
           clearNotifications \/ (\E s \in Sockets, m \in Messages : handleMessage(s, m))
           \/ (\E m \in Messages : markAsRead(m))
    PROVE  LatestFine'
<1>1. CASE clearNotifications
  <2>1. arrived' = <<>> /\ notifications' = <<>> /\ arrived' \in Seq(Messages) /\ Len(arrived') = 0
    BY <1>1 DEF clearNotifications
  <2>2. SubSeq(<<>>, 1, 0) = <<>>
    BY SubSeqEmpty
  <2> QED BY <2>1, <2>2, PanelAssumption DEF LatestFine, LatestAreKept
<1>2. ASSUME NEW s \in Sockets, NEW m \in Messages, handleMessage(s, m) PROVE LatestFine'
  <2>1. notifications' = <<m>> \o Kept(notifications) /\ arrived' = <<m>> \o arrived
    BY <1>2 DEF handleMessage
  <2>2. PICK a, shown : a = arrived /\ shown = notifications
    OBVIOUS
  <2>3. a \in Seq(Messages) /\ shown = SubSeq(a, 1, IF Len(a) < KeepLast THEN Len(a) ELSE KeepLast)
    BY <2>2 DEF LatestFine, LatestAreKept
  <2>4. /\ <<m>> \o a \in Seq(Messages)
        /\ <<m>> \o SubSeq(shown, 1, IF Len(shown) < KeepLast - 1 THEN Len(shown) ELSE KeepLast - 1)
               = SubSeq(<<m>> \o a, 1, IF Len(<<m>> \o a) < KeepLast THEN Len(<<m>> \o a) ELSE KeepLast)
    BY <2>3, LatestOfMore, PanelAssumption
  <2> QED BY <2>1, <2>2, <2>4 DEF Kept, LatestFine, LatestAreKept
<1>3. ASSUME NEW m \in Messages, markAsRead(m) PROVE LatestFine'
  BY <1>3 DEF markAsRead, LatestFine, LatestAreKept
<1> QED BY <1>1, <1>2, <1>3

LEMMA PanelStep == PanelInv /\ (ConnectionNext \/ ListNext) => PanelInv'
<1> SUFFICES ASSUME PanelInv, ConnectionNext \/ ListNext PROVE PanelInv'
  OBVIOUS
<1>1. SocketsFine /\ LatestFine
  BY DEF PanelInv
<1>2. CASE connectPanel
  BY <1>1, <1>2, ConnectKeeps, SameLatest DEF PanelInv, connectPanel
<1>3. CASE disconnectPanel
  BY <1>1, <1>3, DisconnectKeeps, SameLatest DEF PanelInv, disconnectPanel
<1>4. ASSUME NEW s \in Sockets, Reconnects(s) PROVE PanelInv'
  BY <1>1, <1>4, ReconnectKeeps, SameLatest DEF PanelInv, Reconnects
<1>5. ASSUME NEW s \in Sockets, onopen(s) PROVE PanelInv'
  BY <1>1, <1>5, OpenKeeps, SameLatest DEF PanelInv, onopen
<1>6. ASSUME NEW s \in Sockets, ErrorMessage(s) PROVE PanelInv'
  BY <1>1, <1>6, SameSockets, SameLatest DEF PanelInv, ErrorMessage, UnchangedSockets, SocketVars
<1>7. ASSUME NEW s \in Sockets, NEW normally \in BOOLEAN, onclose(s, normally) PROVE PanelInv'
  BY <1>1, <1>7, CloseKeeps, SameLatest DEF PanelInv, onclose
<1>8. CASE clearNotifications
  BY <1>1, <1>8, SameSockets, ListKeeps DEF PanelInv, clearNotifications, UnchangedSockets, SocketVars
<1>9. ASSUME NEW s \in Sockets, NEW m \in Messages, handleMessage(s, m) PROVE PanelInv'
  BY <1>1, <1>9, SameSockets, ListKeeps DEF PanelInv, handleMessage, UnchangedSockets, SocketVars
<1>10. ASSUME NEW m \in Messages, markAsRead(m) PROVE PanelInv'
  BY <1>1, <1>10, SameSockets, ListKeeps DEF PanelInv, markAsRead, UnchangedSockets, SocketVars
<1>11. CASE ConnectionNext
  BY <1>2, <1>3, <1>4, <1>5, <1>6, <1>7, <1>11 DEF ConnectionNext
<1>12. CASE ListNext
  BY <1>2, <1>5, <1>7, <1>8, <1>9, <1>10, <1>12 DEF ListNext
<1> QED BY <1>11, <1>12

LEMMA PanelStutter == PanelInv /\ UNCHANGED PanelVars => PanelInv'
BY SameSockets, SameLatest DEF PanelInv, PanelVars, UnchangedList, SocketVars

LEMMA PanelSuffices ==
    PanelInv => PanelTypeOK /\ ConnectedIsOpen /\ QuietAfterDisconnect /\ GivesUpInTime /\ LatestAreKept
<1> SUFFICES ASSUME PanelInv
             PROVE  PanelTypeOK /\ ConnectedIsOpen /\ QuietAfterDisconnect /\ GivesUpInTime /\ LatestAreKept
  OBVIOUS
<1>1. SocketTypes /\ (overlapped \/ Calm) /\ arrived \in Seq(Messages) /\ LatestAreKept
  BY DEF PanelInv, SocketsFine, LatestFine
<1>2. unreadCount \in 0 .. KeepLast
  <2>1. PICK n \in Nat : n = (IF Len(arrived) < KeepLast THEN Len(arrived) ELSE KeepLast)
    BY <1>1, PanelAssumption
  <2>2. \A i \in 1 .. n : arrived[i] \in Messages
    BY <1>1, <2>1, ElementOfSeq, PanelAssumption
  <2>3. SubSeq(arrived, 1, n) \in Seq(Messages) /\ Len(SubSeq(arrived, 1, n)) = (IF 1 <= n THEN n - 1 + 1 ELSE 0)
    BY <2>2, SubSeqProperties
  <2>4. notifications \in Seq(Messages) /\ Len(notifications) = n
    BY <1>1, <2>1, <2>3 DEF LatestAreKept
  <2>5. DOMAIN notifications = 1 .. n
    BY <2>4
  <2>6. IsFiniteSet(1 .. n) /\ Cardinality(1 .. n) = n
    BY FS_Interval
  <2>7. PICK unread : unread = {i \in DOMAIN notifications : notifications[i] \notin readNotifications}
    OBVIOUS
  <2>8. unread \in SUBSET (1 .. n)
    BY <2>5, <2>7
  <2>9. IsFiniteSet(unread) /\ Cardinality(unread) <= n
    BY <2>6, <2>8, FS_Subset
  <2>10. Cardinality(unread) \in Nat
    BY <2>9, FS_CardinalityType
  <2> QED BY <2>1, <2>7, <2>9, <2>10, PanelAssumption DEF unreadCount
<1>3. PanelTypeOK
  BY <1>1, <1>2 DEF PanelTypeOK, SocketTypes, SocketStates
<1>4. ASSUME Calm PROVE ConnectedIsOpen
  <2>1. IsOpen(wsRef) <=> (wsRef # NoSocket /\ socket[wsRef] = "open")
    BY <1>1, PanelAssumption DEF IsOpen, SocketTypes
  <2>2. isSocketOpen = (wsRef # NoSocket /\ socket[wsRef] = "open")
    BY <1>4, <2>1, Zenon DEF Calm, Shown
  <2>3. beats = (IF isSocketOpen THEN {wsRef} ELSE {})
    BY <1>4 DEF Calm, Shown, Beating
  <2> QED BY <2>2, <2>3 DEF ConnectedIsOpen
<1>5. ASSUME Calm PROVE QuietAfterDisconnect
  <2> SUFFICES ASSUME left
               PROVE  attempts = {} /\ beats = {} /\ \A s \in Sockets : socket[s] \notin {"connecting", "open"}
    BY DEF QuietAfterDisconnect
  <2>1. Living = {} /\ attempts = {} /\ wsRef = NoSocket
    BY <1>5 DEF Calm, PresentOnly
  <2>2. beats = {}
    BY <1>5, <2>1, PanelAssumption DEF Calm, Beating, IsOpen
  <2> QED BY <2>1, <2>2 DEF Living
<1>6. ASSUME Calm PROVE GivesUpInTime
  BY <1>6 DEF Calm, Waiting, GivesUpInTime
<1>7. overlapped => ConnectedIsOpen /\ QuietAfterDisconnect /\ GivesUpInTime
  BY DEF ConnectedIsOpen, QuietAfterDisconnect, GivesUpInTime
<1> QED BY <1>1, <1>3, <1>4, <1>5, <1>6, <1>7

\* With any sockets and messages, however connections are opened, lost and given up, the page shows the
\* latest notifications, and, but for what overlapped, its own connection as it is, and comes to rest.
THEOREM PanelShowsTheLatest ==
    PanelSpec => [](PanelTypeOK /\ ConnectedIsOpen /\ QuietAfterDisconnect /\ GivesUpInTime /\ LatestAreKept)
<1>1. PanelInit => PanelInv
  BY PanelInitially
<1>2. PanelInv /\ [ConnectionNext \/ ListNext]_PanelVars => PanelInv'
  BY PanelStep, PanelStutter
<1>3. PanelInv => PanelTypeOK /\ ConnectedIsOpen /\ QuietAfterDisconnect /\ GivesUpInTime /\ LatestAreKept
  BY PanelSuffices
<1> QED BY <1>1, <1>2, <1>3, PTL DEF PanelSpec

-----------------------------------------------------------------------------
(***************************************************************************)
(* The composition.                                                        *)
(***************************************************************************)
\* A step of the platform is one of the loan routes or changes nothing of theirs.
LEMMA PlatformStepsLoans ==
    ASSUME [PlatformNext]_PlatformVars
    PROVE  [LoansNext]_LoansVars
<1>1. CASE UNCHANGED PlatformVars
  BY <1>1 DEF PlatformVars
<1>2. CASE PlatformNext
  <2>1. CASE UnchangedServices
    BY <2>1 DEF UnchangedServices
  <2>2. CASE ~UnchangedServices
    BY <1>2, <2>2 DEF PlatformNext
  <2> QED BY <2>1, <2>2
<1> QED BY <1>1, <1>2

\* On a platform with any clients, applications, payments and amounts, requests that interleave
\* statement by statement keep the rows of loans, payments and refunds together.
THEOREM RowsAlwaysStayTogether == PlatformSpec => []RowsStayTogether
<1>1. PlatformInit => LoansInv
  BY LoansInitially DEF PlatformInit
<1>2. LoansInv /\ [PlatformNext]_PlatformVars => LoansInv'
  BY PlatformStepsLoans, LoansStep, LoansStutter
<1>3. LoansInv => RowsStayTogether
  BY LoansInvSuffices DEF RowsStayTogether
<1> QED BY <1>1, <1>2, <1>3, PTL DEF PlatformSpec

-----------------------------------------------------------------------------
FoundedInv == HealthInv /\ RegistryInv /\ ScriptsInv

\* A step of the platform is one of the health monitor, or leaves it alone, and so for the others.
LEMMA PlatformStepsHealth ==
    ASSUME [PlatformNext]_PlatformVars
    PROVE  /\ HealthNext \/ UNCHANGED HealthVars
           /\ RegistryNext \/ UNCHANGED RegistryVars
           /\ DeploymentNext \/ WaitNext \/ UNCHANGED DeploymentVars
<1>1. CASE UNCHANGED PlatformVars
  BY <1>1 DEF PlatformVars
<1>2. CASE PlatformNext
  <2>1. HealthNext \/ UNCHANGED HealthVars
    BY <1>2 DEF PlatformNext, UnchangedServices
  <2>2. RegistryNext \/ UNCHANGED RegistryVars
    BY <1>2 DEF PlatformNext, UnchangedServices
  <2>3. DeploymentNext \/ WaitNext \/ UNCHANGED DeploymentVars
    BY <1>2 DEF PlatformNext, UnchangedOutside
  <2> QED BY <2>1, <2>2, <2>3
<1> QED BY <1>1, <1>2

\* On a platform with any services, instances, checks in flight and images, whatever is believed
\* of a service's health, or reported by a deployment, rests on checks of it that ended.
THEOREM HealthIsAlwaysFounded == PlatformSpec => []HealthIsFounded
<1>1. PlatformInit => FoundedInv
  BY HealthInitially, RegistryInitially, DeployInitially, WaitInitially DEF PlatformInit, FoundedInv, ScriptsInv
<1>2. FoundedInv /\ [PlatformNext]_PlatformVars => FoundedInv'
  <2>1. RegistryInv /\ UNCHANGED RegistryVars => RegistryInv'
    BY RegistryStutter DEF RegistryVars
  <2> QED BY <2>1, PlatformStepsHealth, HealthStep, HealthStutter, RegistryStep, ScriptsStep DEF FoundedInv
<1>3. FoundedInv => HealthIsFounded
  BY ScriptsSuffice DEF FoundedInv, HealthInv, RegistryInv, HealthIsFounded
<1> QED BY <1>1, <1>2, <1>3, PTL DEF PlatformSpec
-----------------------------------------------------------------------------
CachesInv == LimiterInv /\ CacheInv /\ StoreInv /\ InvalidationInv /\ ApiInv

\* A step of the platform is one of the limiter, or leaves it alone, and so for the caches and clients.
LEMMA PlatformStepsCaches ==
    ASSUME [PlatformNext]_PlatformVars
    PROVE  /\ LimiterNext \/ BucketNext \/ UNCHANGED LimiterVars
           /\ ResponsesNext \/ ScoresNext \/ ApplicationsNext \/ UNCHANGED CacheVars
           /\ ValuesNext \/ CountersNext \/ UNCHANGED StoreVars
           /\ InvalidationsNext \/ SchedulesNext \/ UNCHANGED InvalidationVars
           /\ ApiNext \/ UNCHANGED ApiVars
<1>1. CASE UNCHANGED PlatformVars
  BY <1>1 DEF PlatformVars
<1>2. CASE PlatformNext
  <2>1. LimiterNext \/ BucketNext \/ UNCHANGED LimiterVars
    BY <1>2 DEF PlatformNext, UnchangedLibraries
  <2>2. ResponsesNext \/ ScoresNext \/ ApplicationsNext \/ UNCHANGED CacheVars
    BY <1>2 DEF PlatformNext, UnchangedLibraries
  <2>3. ValuesNext \/ CountersNext \/ UNCHANGED StoreVars
    BY <1>2 DEF PlatformNext, UnchangedLibraries
  <2>4. InvalidationsNext \/ SchedulesNext \/ UNCHANGED InvalidationVars
    BY <1>2 DEF PlatformNext, UnchangedLibraries
  <2>5. ApiNext \/ UNCHANGED ApiVars
    BY <1>2 DEF PlatformNext, UnchangedOutside
  <2> QED BY <2>1, <2>2, <2>3, <2>4, <2>5
<1> QED BY <1>1, <1>2

LEMMA CachesKeep == CachesInv /\ [PlatformNext]_PlatformVars => CachesInv'
<1> SUFFICES ASSUME CachesInv, [PlatformNext]_PlatformVars PROVE CachesInv'
  OBVIOUS
<1>1. LimiterInv'
  BY PlatformStepsCaches, LimiterStep, LimiterStutter DEF CachesInv
<1>2. CacheInv'
  BY PlatformStepsCaches, ResponsesStep, ScoresStep, ApplicationsStep, CacheStutter DEF CachesInv
<1>3. StoreInv'
  BY PlatformStepsCaches, ValuesStep, CountersStep, StoreStutter DEF CachesInv
<1>4. InvalidationInv'
  BY PlatformStepsCaches, InvalidationsStep, SchedulesStep, InvalidationStutter DEF CachesInv
<1>5. ApiInv'
  BY PlatformStepsCaches, ApiStep, ApiStutter DEF CachesInv
<1> QED BY <1>1, <1>2, <1>3, <1>4, <1>5 DEF CachesInv

\* On a platform with any users, keys, clients and limits, however calls interleave, time passes and
\* Redis fails, limits hold, what the caches answer is current and the asker's own, what they count
\* adds up, and a cancelled invalidation never runs, with the exceptions each part names.
THEOREM CachesAreAlwaysFaithful == PlatformSpec => []CachesAreFaithful
<1>1. PlatformInit => CachesInv
  BY LimiterInitially, CacheInitially, StoreInitially, InvalidationInitially, ApiInitially
     DEF PlatformInit, CachesInv
<1>2. CachesInv => CachesAreFaithful
  BY LimiterSuffices, CacheSuffices, StoreSuffices, InvalidationSuffices, ApiSuffices
     DEF CachesInv, CachesAreFaithful
<1> QED BY <1>1, <1>2, CachesKeep, PTL DEF PlatformSpec

-----------------------------------------------------------------------------
SignalsInv == BusInv /\ AlertsInv /\ MonitoringInv /\ ApiInv /\ PanelInv

\* A step of the platform is one of the event bus, or leaves it alone, and so for what else signals.
LEMMA PlatformStepsSignals ==
    ASSUME [PlatformNext]_PlatformVars
    PROVE  /\ EventBusNext \/ UNCHANGED EventBusVars
           /\ AlertsNext \/ MeasuresNext \/ UNCHANGED AlertVars
           /\ ClientNext \/ MonitoringNext \/ UNCHANGED MonitoringVars
           /\ ConnectionNext \/ ListNext \/ UNCHANGED PanelVars
<1>1. CASE UNCHANGED PlatformVars
  BY <1>1 DEF PlatformVars
<1>2. CASE PlatformNext
  <2>1. EventBusNext \/ UNCHANGED EventBusVars
    BY <1>2 DEF PlatformNext, UnchangedServices
  <2>2. AlertsNext \/ MeasuresNext \/ UNCHANGED AlertVars
    BY <1>2 DEF PlatformNext, UnchangedServices
  <2>3. ClientNext \/ MonitoringNext \/ UNCHANGED MonitoringVars
    BY <1>2 DEF PlatformNext, UnchangedLibraries
  <2>4. ConnectionNext \/ ListNext \/ UNCHANGED PanelVars
    BY <1>2 DEF PlatformNext, UnchangedOutside
  <2> QED BY <2>1, <2>2, <2>3, <2>4
<1> QED BY <1>1, <1>2

LEMMA SignalsKeep == SignalsInv /\ [PlatformNext]_PlatformVars => SignalsInv'
<1> SUFFICES ASSUME SignalsInv, [PlatformNext]_PlatformVars PROVE SignalsInv'
  OBVIOUS
<1>1. BusInv'
  BY PlatformStepsSignals, BusStep, BusStutter DEF SignalsInv
<1>2. AlertsInv'
  BY PlatformStepsSignals, AlertsStep, MeasuresStep, AlertsStutter DEF SignalsInv
<1>3. MonitoringInv'
  BY PlatformStepsSignals, ClientStep, MonitoringStep, MonitoringStutter DEF SignalsInv
<1>4. ApiInv'
  BY PlatformStepsCaches, ApiStep, ApiStutter DEF SignalsInv
<1>5. PanelInv'
  BY PlatformStepsSignals, PanelStep, PanelStutter DEF SignalsInv
<1> QED BY <1>1, <1>2, <1>3, <1>4, <1>5 DEF SignalsInv

\* On a platform with any listeners, rules, metrics, sockets and messages, whoever listens or is paged
\* hears what happened, when it is time and once, with the exceptions each part names.
THEOREM SignalsAreAlwaysTrue == PlatformSpec => []SignalsAreTrue
<1>1. PlatformInit => SignalsInv
  BY BusInitially, AlertsInitially, MonitoringInitially, ApiInitially, PanelInitially DEF PlatformInit, SignalsInv
<1>2. SignalsInv => SignalsAreTrue
  BY BusSuffices, AlertsSuffices, MonitoringSuffices, ApiSuffices, PanelSuffices DEF SignalsInv, SignalsAreTrue
<1> QED BY <1>1, <1>2, SignalsKeep, PTL DEF PlatformSpec

-----------------------------------------------------------------------------
\* What the types of the remaining parts need beyond the invariants above.
HealthBounded ==
    system \in Statuses \union {"unknown"} /\ \A s \in Services : Len(results[s]) <= KeptResults
ImagesBounded ==
    /\ built \subseteq Images /\ loaded \subseteq transferred /\ schema \in {"old", "new"} /\ seen \subseteq Images
    /\ step \in Preparing => loaded = {}
TypesInv == SignalsInv /\ CachesInv /\ LoansInv /\ FoundedInv /\ HealthBounded /\ ImagesBounded

\* The history takes one result more, and drops the oldest when it is full.
LEMMA FilingIsBounded ==
    ASSUME HealthTypes, HealthBounded, NEW s \in Services, NEW value, NEW answered \in BOOLEAN,
           updateHealthCheck(s, value, answered)
    PROVE  \A t \in Services : Len(results'[t]) <= KeptResults
<1>1. PICK old : old = results[s]
  OBVIOUS
<1>2. old \in Seq(BOOLEAN) /\ Len(old) \in Nat /\ Len(old) <= KeptResults
  BY <1>1 DEF HealthTypes, HealthBounded
<1>3. PICK more : more = Append(old, answered)
  OBVIOUS
<1>4. more \in Seq(BOOLEAN) /\ Len(more) = Len(old) + 1 /\ more # <<>>
  BY <1>2, <1>3
<1>5. PICK rest : rest = (IF Len(more) > KeptResults THEN Tail(more) ELSE more)
  OBVIOUS
<1>6. Len(rest) <= KeptResults
  <2>1. Len(more) > KeptResults => Len(Tail(more)) = Len(more) - 1
    BY <1>4, HeadTailProperties
  <2> QED BY <1>2, <1>4, <1>5, <2>1, HealthAssumption
<1>7. results' = [results EXCEPT ![s] = rest]
  BY <1>1, <1>3, <1>5 DEF updateHealthCheck
<1> QED BY <1>6, <1>7 DEF HealthTypes, HealthBounded

LEMMA HealthStaysBounded ==
    HealthInv /\ HealthBounded /\ (HealthNext \/ UNCHANGED HealthVars) => HealthBounded'
<1> SUFFICES ASSUME HealthInv, HealthBounded, HealthNext \/ UNCHANGED HealthVars PROVE HealthBounded'
  OBVIOUS
<1>1. HealthTypes
  BY DEF HealthInv
<1>2. CASE UNCHANGED HealthVars
  BY <1>2 DEF HealthVars, HealthBounded
<1>3. CASE checkSystemResources
  BY <1>3 DEF checkSystemResources, HealthBounded
<1>4. ASSUME NEW s \in Services, registerService(s) \/ performHealthCheck(s) PROVE HealthBounded'
  BY <1>4 DEF registerService, performHealthCheck, HealthBounded
<1>5. ASSUME NEW s \in Services, unregisterService(s) PROVE HealthBounded'
  <2>1. results' = [results EXCEPT ![s] = <<>>] /\ system' = system /\ Len(<<>>) = 0
    BY <1>5 DEF unregisterService
  <2>2. ASSUME NEW t \in Services PROVE Len(results'[t]) <= KeptResults
    <3>1. CASE t = s
      BY <1>1, <2>1, <3>1, HealthAssumption DEF HealthTypes
    <3>2. CASE t # s
      BY <1>1, <2>1, <3>2 DEF HealthTypes, HealthBounded
    <3> QED BY <3>1, <3>2
  <2> QED BY <2>1, <2>2 DEF HealthBounded
<1>6. ASSUME NEW c \in InFlight PROVE checking[c].service \in Services
  <2>1. checking[c] \in CheckInFlight
    BY <1>1, <1>6 DEF HealthTypes, InFlight
  <2> QED BY <2>1, HealthFacts
<1>7. ASSUME NEW c \in Checks, NoAnswer(c) PROVE HealthBounded'
  <2>1. c \in InFlight /\ system' = system
    BY <1>7 DEF NoAnswer
  <2>2. CASE UNCHANGED <<health, results>>
    BY <2>1, <2>2 DEF HealthBounded
  <2>3. CASE updateHealthCheck(checking[c].service, "unhealthy", FALSE)
    BY <1>1, <1>6, <2>1, <2>3, FilingIsBounded DEF HealthBounded
  <2> QED BY <1>7, <2>2, <2>3 DEF NoAnswer
<1>8. ASSUME NEW c \in Checks, NEW answer \in Answers, Answered(c, answer) PROVE HealthBounded'
  <2>1. c \in InFlight /\ system' = system
        /\ updateHealthCheck(checking[c].service, checkServiceHealth(answer), TRUE)
    BY <1>8 DEF Answered
  <2> QED BY <1>1, <1>6, <2>1, FilingIsBounded DEF HealthBounded
<1> QED BY <1>2, <1>3, <1>4, <1>5, <1>7, <1>8 DEF HealthNext

\* Images are loaded only when they have been copied, which only the preparation does.
LEMMA ImagesStayBounded ==
    ScriptsInv /\ ImagesBounded /\ (DeploymentNext \/ WaitNext \/ UNCHANGED DeploymentVars) => ImagesBounded'
<1> SUFFICES ASSUME ScriptsInv, ImagesBounded, DeploymentNext \/ WaitNext \/ UNCHANGED DeploymentVars
             PROVE  ImagesBounded'
  OBVIOUS
<1> USE DEF ImagesBounded
<1>1. CASE UNCHANGED DeploymentVars
  BY <1>1 DEF DeploymentVars
<1>2. CASE WaitNext
  <2>1. UNCHANGED <<built, loaded, transferred, schema, step>>
    BY <1>2, Zenon DEF WaitNext, wait_for_infrastructure, wait_for_service, report, pick_service, ServiceMoves,
       UnchangedDeploy
  <2>2. seen' \subseteq Images
    <3>1. ASSUME NEW ready \in BOOLEAN, wait_for_infrastructure(ready) PROVE seen' \subseteq Images
      BY <3>1 DEF wait_for_infrastructure
    <3>2. CASE report \/ \E image \in Images : pick_service(image) \/ ServiceMoves(image)
      BY <3>2 DEF report, pick_service, ServiceMoves, UnchangedWait
    <3>3. CASE wait_for_service
      <4>1. waiting.image \in Images
        BY <3>3 DEF wait_for_service, ScriptsInv, WaitInv, Waits, WaitingFor
      <4>2. seen' \subseteq seen \union {waiting.image}
        BY <3>3 DEF wait_for_service
      <4> QED BY <4>1, <4>2
    <3> QED BY <1>2, <3>1, <3>2, <3>3 DEF WaitNext
  <2> QED BY <2>1, <2>2
<1>3. CASE DeploymentNext
  <2>0. seen' = seen
    BY <1>3, WaitIgnoresDeploy
  <2> USE DEF UnchangedServer, To, Exits, Preparing
  <2>1. ASSUME NEW works \in BOOLEAN, check_prerequisites(works) PROVE ImagesBounded'
    BY <2>0, <2>1 DEF check_prerequisites
  <2>2. ASSUME NEW works \in BOOLEAN, test_deployment(works) PROVE ImagesBounded'
    BY <2>0, <2>2 DEF test_deployment
  <2>3. ASSUME NEW works \in BOOLEAN, setup_monitoring(works) PROVE ImagesBounded'
    BY <2>0, <2>3 DEF setup_monitoring
  <2>4. ASSUME NEW works \in BOOLEAN, cleanupDeployment(works) PROVE ImagesBounded'
    BY <2>0, <2>4 DEF cleanupDeployment
  <2>5. ASSUME NEW works \in BOOLEAN, NEW image \in Images, build_images(image, works) PROVE ImagesBounded'
    BY <2>0, <2>5 DEF build_images
  <2>6. ASSUME NEW works \in BOOLEAN, NEW some \in SUBSET Images, deploy_remote(works, some) PROVE ImagesBounded'
    BY <2>0, <2>6 DEF deploy_remote
  <2>7. ASSUME NEW works \in BOOLEAN, NEW some \in SUBSET Images, NEW n \in DOMAIN Stages,
               deploy_services(n, works, some)
        PROVE  ImagesBounded'
    <3>1. step' \notin Preparing /\ UNCHANGED <<built, loaded, transferred, schema>>
      BY <2>7, StageFacts DEF deploy_services
    <3> QED BY <2>0, <3>1
  <2>8. ASSUME NEW works \in BOOLEAN, NEW migrates \in BOOLEAN, run_migrations(works, migrates) PROVE ImagesBounded'
    BY <2>0, <2>8 DEF run_migrations
  <2>9. CASE verify_deployment
    BY <2>0, <2>9 DEF verify_deployment
  <2>10. ASSUME NEW arguments \in [skipBuild : BOOLEAN, skipTest : BOOLEAN, force : BOOLEAN],
                NEW images \in {{}, Images}, main(arguments, images)
         PROVE  ImagesBounded'
    BY <2>0, <2>10 DEF main
  <2> QED BY <1>3, <2>1, <2>2, <2>3, <2>4, <2>5, <2>6, <2>7, <2>8, <2>9, <2>10 DEF DeploymentNext
<1> QED BY <1>1, <1>2, <1>3

LEMMA FoundedKeeps == FoundedInv /\ [PlatformNext]_PlatformVars => FoundedInv'
<1>1. RegistryInv /\ UNCHANGED RegistryVars => RegistryInv'
  BY RegistryStutter DEF RegistryVars
<1> QED BY <1>1, PlatformStepsHealth, HealthStep, HealthStutter, RegistryStep, ScriptsStep DEF FoundedInv

LEMMA LoansTyped == LoansInv => LoansTypeOK
BY DEF LoansInv, RowTypes, LoansTypeOK, OnFile, Unused
LEMMA HealthTyped == HealthInv /\ HealthBounded => HealthTypeOK
BY DEF HealthInv, HealthTypes, HealthBounded, HealthTypeOK
LEMMA DeploymentTyped == ScriptsInv /\ ImagesBounded => DeploymentTypeOK
BY DEF ScriptsInv, DeployInv, WaitInv, Waits, WaitingFor, ImagesBounded, DeploymentTypeOK

\* A service that is registered has been given a status.
KnownHaveStatus == \A s \in known : status[s] \in {"healthy", "unhealthy"}
LEMMA KnownKeepStatus ==
    RegistryInv /\ KnownHaveStatus /\ (RegistryNext \/ UNCHANGED RegistryVars) => KnownHaveStatus'
<1> SUFFICES ASSUME RegistryInv, KnownHaveStatus, RegistryNext \/ UNCHANGED RegistryVars PROVE KnownHaveStatus'
  OBVIOUS
<1> USE DEF KnownHaveStatus
<1>1. status \in [GatewayServices -> {"unknown", "healthy", "unhealthy"}] /\ known \subseteq GatewayServices
  BY DEF RegistryInv, RegistryTypes
<1>2. CASE UNCHANGED RegistryVars
  BY <1>2 DEF RegistryVars
<1>3. ASSUME NEW s \in GatewayServices, registerGatewayService(s) PROVE KnownHaveStatus'
  BY <1>1, <1>3 DEF registerGatewayService
<1>4. ASSUME NEW s \in GatewayServices, recordServiceCall(s) PROVE KnownHaveStatus'
  BY <1>4 DEF recordServiceCall, updateServiceHealth
<1>5. ASSUME NEW s \in GatewayServices, NEW id, NEW healthy,
             addServiceInstance(s, id, healthy) \/ removeServiceInstance(s, id)
      PROVE  KnownHaveStatus'
  BY <1>5 DEF addServiceInstance, removeServiceInstance
<1>6. ASSUME NEW p \in Probes, NEW s \in GatewayServices, performHealthChecks(p, s) PROVE KnownHaveStatus'
  BY <1>6 DEF performHealthChecks
<1>7. ASSUME NEW p \in Probes, NEW news \in {"healthy", "unhealthy"}, ProbeEnds(p, news) PROVE KnownHaveStatus'
  BY <1>1, <1>7 DEF ProbeEnds, updateServiceHealth
<1> QED BY <1>2, <1>3, <1>4, <1>5, <1>6, <1>7 DEF RegistryNext
LEMMA RegistryTyped == RegistryInv /\ KnownHaveStatus => RegistryTypeOK
BY DEF RegistryInv, RegistryTypes, Instance, KnownHaveStatus, RegistryTypeOK

\* Every part of the platform keeps to its source's types, for any values of the constants.
THEOREM PlatformIsTyped == PlatformSpec => []PlatformTypeOK
<1>1. PlatformInit => TypesInv /\ KnownHaveStatus
  <2> SUFFICES ASSUME PlatformInit PROVE TypesInv /\ KnownHaveStatus
    OBVIOUS
  <2>1. SignalsInv
    BY BusInitially, AlertsInitially, MonitoringInitially, ApiInitially, PanelInitially DEF PlatformInit, SignalsInv
  <2>2. CachesInv
    BY LimiterInitially, CacheInitially, StoreInitially, InvalidationInitially, ApiInitially
       DEF PlatformInit, CachesInv
  <2>3. LoansInv
    BY LoansInitially DEF PlatformInit
  <2>4. FoundedInv
    BY HealthInitially, RegistryInitially, DeployInitially, WaitInitially DEF PlatformInit, FoundedInv, ScriptsInv
  <2>5. HealthBounded
    <3>1. \A s \in Services : results[s] = <<>>
      BY DEF PlatformInit, HealthInit
    <3> QED BY <3>1, HealthAssumption DEF PlatformInit, HealthInit, HealthBounded
  <2>6. ImagesBounded
    BY DEF PlatformInit, DeploymentInit, ImagesBounded
  <2>7. KnownHaveStatus
    BY DEF PlatformInit, RegistryInit, KnownHaveStatus
  <2> QED BY <2>1, <2>2, <2>3, <2>4, <2>5, <2>6, <2>7 DEF TypesInv
<1>2. TypesInv /\ KnownHaveStatus /\ [PlatformNext]_PlatformVars => (TypesInv /\ KnownHaveStatus)'
  <2> SUFFICES ASSUME TypesInv, KnownHaveStatus, [PlatformNext]_PlatformVars PROVE (TypesInv /\ KnownHaveStatus)'
    OBVIOUS
  <2>1. SignalsInv' /\ CachesInv'
    BY SignalsKeep, CachesKeep DEF TypesInv
  <2>2. LoansInv'
    BY PlatformStepsLoans, LoansStep, LoansStutter DEF TypesInv
  <2>3. FoundedInv'
    BY FoundedKeeps DEF TypesInv
  <2>4. HealthBounded' /\ ImagesBounded' /\ KnownHaveStatus'
    BY PlatformStepsHealth, HealthStaysBounded, ImagesStayBounded, KnownKeepStatus DEF TypesInv, FoundedInv
  <2> QED BY <2>1, <2>2, <2>3, <2>4 DEF TypesInv
<1>3. TypesInv /\ KnownHaveStatus => PlatformTypeOK
  <2> SUFFICES ASSUME TypesInv, KnownHaveStatus PROVE PlatformTypeOK
    OBVIOUS
  <2>1. LoansTypeOK /\ HealthTypeOK /\ RegistryTypeOK /\ DeploymentTypeOK
    BY LoansTyped, HealthTyped, RegistryTyped, DeploymentTyped DEF TypesInv, FoundedInv
  <2>2. EventBusTypeOK /\ AlertsTypeOK /\ MonitoringTypeOK /\ PanelTypeOK
    BY BusSuffices, AlertsSuffices, MonitoringSuffices, PanelSuffices DEF TypesInv, SignalsInv
  <2>3. LimiterTypeOK /\ CacheTypeOK /\ StoreTypeOK /\ InvalidationTypeOK /\ ApiTypeOK
    BY LimiterSuffices, CacheSuffices, StoreSuffices, InvalidationSuffices, ApiSuffices DEF TypesInv, CachesInv
  <2> QED BY <2>1, <2>2, <2>3 DEF PlatformTypeOK
<1> QED BY <1>1, <1>2, <1>3, PTL DEF PlatformSpec
=============================================================================
