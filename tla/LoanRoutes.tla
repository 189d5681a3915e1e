------------------------------ MODULE LoanRoutes -------------------------------
(***************************************************************************)
(* apps/api: loan applications, payments and refunds, rows of PostgreSQL   *)
(* that each handler reads in one statement and writes in a later one,     *)
(* without a transaction.  A row's foreign keys are checked as it is       *)
(* written.  The loans table is read but never filled by this program.     *)
(***************************************************************************)
EXTENDS Requests

CONSTANTS
    Admins,              \* the staff who are more than moderators
    Loans, PaymentIds,   \* uuids of applications and of payments
    LoanStates, PaymentStates,   \* what the staff set in an instance
    PaidAmounts

ASSUME LoanRoutesAssumption ==
    /\ LoanStates \subseteq {"pending", "approved", "rejected", "funded", "active", "completed", "defaulted"}
    /\ PaymentStates \subseteq {"pending", "completed", "failed", "cancelled", "refunded"}
    /\ PaidAmounts \subseteq Int /\ "none" \notin PaymentIds

VARIABLES
    loanRows,       \* loan_applications
    booked,         \* ids of loans rows that some other program wrote, one for an application
    paymentRows,    \* payments
    asking,         \* the request each client is in
    overtaken,      \* history: applications funded during a deletion of them
    excused         \* history: payments refunded by two requests at once, or reset by hand

LoansVars == <<loanRows, booked, paymentRows, asking, overtaken, excused>>

LoanRow == [user : Clients,
            status : {"pending", "approved", "rejected", "funded", "active", "completed", "defaulted"}]
PaymentRow == [loan : Loans, user : Clients, amount : Int,
               status : {"pending", "completed", "failed", "cancelled", "refunded"}, of : PaymentIds \union {"none"}]
AcceptsPayments == {"funded", "active"}
Deleted(row) == [status |-> "deleted", last |-> row.status]
OnFile(a) == loanRows[a] \in LoanRow

LoansInit ==
    /\ loanRows = [a \in Loans |-> Unused] /\ booked = {}
    /\ paymentRows = [p \in PaymentIds |-> Unused]
    /\ asking = [k \in Clients |-> Resting]
    /\ overtaken = {} /\ excused = {}

Asking(k, pc) == asking[k].pc = pc
Ask(k, call) ==
    /\ asking' = [asking EXCEPT ![k] = call]
    /\ UNCHANGED <<loanRows, booked, paymentRows, overtaken>>

-----------------------------------------------------------------------------
\* The first statement of a handler, and what it decides.

createLoanApplication(k) ==
    \E a \in Loans :
        /\ loanRows[a] = Unused
        /\ loanRows' = [loanRows EXCEPT ![a] = [user |-> k, status |-> "pending"]]
        /\ UNCHANGED <<booked, paymentRows, asking, overtaken, excused>>

\* Any status may follow any other.
updateLoanStatus(k) ==
    \E a \in Loans, s \in LoanStates :
        /\ k \in Staff /\ OnFile(a)
        /\ Ask(k, [pc |-> "setLoan", app |-> a, status |-> s])
        /\ UNCHANGED excused

\* Faulty variant: the status is not looked at.
deleteLoanAnyway(k) ==
    \E a \in Loans : /\ k \in Staff /\ OnFile(a)
                     /\ Ask(k, [pc |-> "deleteLoan", app |-> a]) /\ UNCHANGED excused

deleteLoan(k) ==
    \E a \in Loans : /\ k \in Staff /\ OnFile(a) /\ loanRows[a].status \notin AcceptsPayments
                     /\ Ask(k, [pc |-> "deleteLoan", app |-> a]) /\ UNCHANGED excused

\* The payment is the borrower's, whoever makes it.
createPayment(k) ==
    \E a \in Loans, x \in PaidAmounts :
        /\ OnFile(a) /\ loanRows[a].status \in AcceptsPayments
        /\ k \in Admins \/ loanRows[a].user = k
        /\ Ask(k, [pc |-> "insertPayment",
                   row |-> [loan |-> a, user |-> loanRows[a].user, amount |-> x,
                            status |-> "pending", of |-> "none"]])
        /\ UNCHANGED excused

processPayment(k) ==
    \E p \in PaymentIds, s \in PaymentStates :
        /\ k \in Staff /\ OnRecord(paymentRows[p])
        /\ Ask(k, [pc |-> "setPayment", payment |-> p, status |-> s, by |-> "hand"])
        /\ UNCHANGED excused

Refunding(j, p) == \/ Asking(j, "insertRefund") /\ asking[j].row.of = p
                   \/ Asking(j, "setPayment") /\ asking[j].by = "refund" /\ asking[j].payment = p

\* Faulty variant: what was refunded before can be refunded.
refundPaymentAgain(k) ==
    \E p \in PaymentIds, x \in PaidAmounts :
        LET payment == paymentRows[p] IN
        /\ k \in Staff /\ OnRecord(payment) /\ x <= payment.amount
        /\ Ask(k, [pc |-> "insertRefund", row |-> [payment EXCEPT !.amount = -x, !.status = "refunded", !.of = p],
                   full |-> x = payment.amount])
        /\ excused' = IF \E j \in Clients : Refunding(j, p) THEN excused \union {p} ELSE excused

\* Without an amount all of it is refunded.  Refunds are payments, and can be refunded too.
refundPayment(k) ==
    \E p \in PaymentIds :
        LET payment == paymentRows[p] IN
        /\ k \in Staff /\ OnRecord(payment) /\ payment.status = "completed"
        /\ \E x \in PaidAmounts \union {payment.amount} :
               /\ x <= payment.amount
               /\ Ask(k, [pc |-> "insertRefund",
                          row |-> [payment EXCEPT !.amount = -x, !.status = "refunded", !.of = p],
                          full |-> x = payment.amount])
        /\ excused' = IF \E j \in Clients : Refunding(j, p) THEN excused \union {p} ELSE excused

-----------------------------------------------------------------------------
\* The statement that writes.  An update of a row that is gone changes nothing.

SetLoan(k) ==
    LET call == asking[k] IN
    /\ Asking(k, "setLoan")
    /\ asking' = [asking EXCEPT ![k] = Resting]
    /\ IF OnFile(call.app)
       THEN /\ loanRows' = [loanRows EXCEPT ![call.app].status = call.status]
            /\ overtaken' = IF \E j \in Clients : Asking(j, "deleteLoan") /\ asking[j].app = call.app
                            THEN overtaken \union {call.app} ELSE overtaken
       ELSE UNCHANGED <<loanRows, overtaken>>
    /\ UNCHANGED <<booked, paymentRows, excused>>

\* Faulty variant: without the loans table's reference to loan_applications.
RemoveLoanReferred(k) ==
    LET a == asking[k].app IN
    /\ Asking(k, "deleteLoan")
    /\ asking' = [asking EXCEPT ![k] = Resting]
    /\ loanRows' = IF OnFile(a) THEN [loanRows EXCEPT ![a] = Deleted(loanRows[a])] ELSE loanRows
    /\ UNCHANGED <<booked, paymentRows, overtaken, excused>>

\* An application that a loan refers to stays.
RemoveLoan(k) ==
    LET a == asking[k].app IN
    /\ Asking(k, "deleteLoan")
    /\ asking' = [asking EXCEPT ![k] = Resting]
    /\ loanRows' = IF OnFile(a) /\ a \notin booked
                   THEN [loanRows EXCEPT ![a] = Deleted(loanRows[a])] ELSE loanRows
    /\ UNCHANGED <<booked, paymentRows, overtaken, excused>>

NewIds == {p \in PaymentIds : paymentRows[p] = Unused}
NewId == CHOOSE p \in NewIds : TRUE     \* which one it is makes no difference

\* The payment must refer to a loan of the application's own id.
InsertPayment(k) ==
    LET row == asking[k].row IN
    /\ Asking(k, "insertPayment")
    /\ asking' = [asking EXCEPT ![k] = Resting]
    /\ IF row.loan \in booked
       THEN NewIds # {} /\ paymentRows' = [paymentRows EXCEPT ![NewId] = row]
       ELSE UNCHANGED paymentRows
    /\ UNCHANGED <<loanRows, booked, overtaken, excused>>

SetPayment(k) ==
    LET call == asking[k] IN
    /\ Asking(k, "setPayment")
    /\ asking' = [asking EXCEPT ![k] = Resting]
    /\ paymentRows' = [paymentRows EXCEPT ![call.payment].status = call.status]
    /\ excused' = IF call.by = "hand"
                     /\ (\/ \E r \in PaymentIds : OnRecord(paymentRows[r]) /\ paymentRows[r].of = call.payment
                         \/ \E j \in Clients : Refunding(j, call.payment))
                  THEN excused \union {call.payment} ELSE excused
    /\ UNCHANGED <<loanRows, booked, overtaken>>

InsertRefund(k) ==
    LET call == asking[k] IN
    /\ Asking(k, "insertRefund")
    /\ NewIds # {} /\ paymentRows' = [paymentRows EXCEPT ![NewId] = call.row]
    /\ asking' = [asking EXCEPT ![k] =
           IF call.full
           THEN [pc |-> "setPayment", payment |-> call.row.of, status |-> "refunded", by |-> "refund"]
           ELSE Resting]
    /\ UNCHANGED <<loanRows, booked, overtaken, excused>>

\* Some other program books an application as a loan of the same id.
BookLoan(a) ==
    /\ OnFile(a) /\ loanRows[a].status \in AcceptsPayments
    /\ booked' = booked \union {a}
    /\ UNCHANGED <<loanRows, paymentRows, asking, overtaken, excused>>

LoansNext ==
    \/ \E a \in Loans : BookLoan(a)
    \/ \E k \in Clients :
        \/ /\ asking[k] = Resting
           /\ \/ createLoanApplication(k) \/ updateLoanStatus(k) \/ deleteLoan(k)
              \/ createPayment(k) \/ processPayment(k) \/ refundPayment(k)
        \/ SetLoan(k) \/ RemoveLoan(k) \/ InsertPayment(k) \/ SetPayment(k) \/ InsertRefund(k)
LoansSpec == LoansInit /\ [][LoansNext]_LoansVars

-----------------------------------------------------------------------------
\* What the queries answer.  GET / asks loan_applications whose they are, GET /:loanId asks
\* loans, where only a booked loan is found.
ListedLoans(k) == {a \in Loans : OnFile(a) /\ (k \in Admins \/ loanRows[a].user = k)}
LoanShown(k, a) == OnFile(a) /\ (k \in Admins \/ (a \in booked /\ loanRows[a].user = k))
ListedPayments(k) == {p \in PaymentIds : OnRecord(paymentRows[p])
                                         /\ (k \in Admins \/ paymentRows[p].user = k)}
PaymentShown(k, p) == p \in ListedPayments(k)

-----------------------------------------------------------------------------
\* The rows are of the types of db/schema.ts.
LoansTypeOK ==
    /\ \A a \in Loans : OnFile(a) \/ loanRows[a].status \in {"unused", "deleted"}
    /\ \A p \in PaymentIds : paymentRows[p] \in PaymentRow \union {Unused}
    /\ booked \union overtaken \subseteq Loans /\ excused \subseteq PaymentIds

\* An application is funded or active when it is deleted only if it became so between the
\* deletion's look at its status and the DELETE.
DeletedWasIdle ==
    \A a \in Loans \ overtaken :
        loanRows[a].status = "deleted" => loanRows[a].last \notin AcceptsPayments

\* Whatever is deleted, set and refunded meanwhile, every payment and refund belongs to an
\* application that is still on file and of the same borrower, who is shown both.
PaymentsKeepTheirLoan ==
    \A p \in PaymentIds : OnRecord(paymentRows[p]) =>
        LET row == paymentRows[p] IN
        /\ OnFile(row.loan) /\ loanRows[row.loan].user = row.user
        /\ LoanShown(row.user, row.loan) /\ PaymentShown(row.user, p)
        /\ row.of # "none" => OnRecord(paymentRows[row.of]) /\ paymentRows[row.of].loan = row.loan

\* A payment is refunded in full more than once only if two refunds of it overlapped or the
\* staff set its status by hand after a refund.
RefundedOnce ==
    \A p \in PaymentIds \ excused :
        Cardinality({r \in PaymentIds : OnRecord(paymentRows[r]) /\ paymentRows[r].of = p
                                        /\ paymentRows[r].amount = -paymentRows[p].amount}) <= 1
=============================================================================
