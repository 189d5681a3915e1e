----------------------------- MODULE Disbursement ------------------------------
(***************************************************************************)
(* services/disbursement: single payouts and batches of them.  A batch is  *)
(* processed in order, waiting for the provider at each payout; jobs of    *)
(* different clients interleave.  Nothing is stored: a job's results are   *)
(* its answer.  The processing queue is never filled, so processQueue and  *)
(* cancelDisbursement, which deletes from it, change nothing.              *)
(***************************************************************************)
EXTENDS Requests, Functions

CONSTANTS
    Jobs,          \* HTTP requests
    Orders,        \* sequences of payouts that a job can ask for
    Strict         \* STRICT_VALIDATION

ASSUME DisbursementAssumption == \A order \in Orders : order \in Seq({order[i] : i \in DOMAIN order})

VARIABLES
    jobs,          \* what each job has done
    paid           \* what the provider was made to pay: [job, item, amount]

DisbursementVars == <<jobs, paid>>

\* ids: the client names the application and the offer, and is a user;
\* located: an account number, a phone number or a wallet address.
Payout == [amount : Nat \ {0}, currency : {"NGN", "USD", "GHS", "KES", "ZAR", "EUR", "GBP"},
           ids : BOOLEAN, located : BOOLEAN, country : {"NG", "IR"}, purpose : {"salary", "gambling"}]
Result == [status : {"completed", "failed"}, fees : Int, netAmount : Int]
Providers == <<[id |-> "provider-001", currencies |-> {"NGN", "USD"}, isActive |-> TRUE],
               [id |-> "provider-002", currencies |-> {"NGN", "USD", "GHS", "KES"}, isActive |-> TRUE]>>
settings == [maxSingleTransaction |-> 5000000, restrictedCountries |-> {"IR", "KP", "SY"},
             restrictedPurposes |-> {"gambling", "adult", "weapons"}]
DefaultMethod == [fees |-> <<[type |-> "percentage", amount |-> 0, permille |-> 15]>>]

Valid(payout) == IF Strict THEN payout.ids ELSE payout.located

\* The daily and monthly limits are compared with this one amount and are larger.
Compliant(payout) ==
    /\ payout.amount <= settings.maxSingleTransaction
    /\ payout.country \notin settings.restrictedCountries
    /\ payout.purpose \notin settings.restrictedPurposes

Compatible(payout) ==
    {i \in 1 .. Len(Providers) : Providers[i].isActive /\ payout.currency \in Providers[i].currencies}

\* In thousandths; the first tier that the amount falls into counts.
FeePart(fee, amount) ==
    CASE fee.type = "fixed" -> fee.amount * 1000
      [] fee.type = "percentage" -> amount * fee.permille
      [] fee.type = "tiered" ->
            LET fits == {i \in 1 .. Len(fee.tiers) : fee.tiers[i].min <= amount /\ amount <= fee.tiers[i].max}
            IN  IF fits = {} THEN 0
                ELSE fee.tiers[CHOOSE i \in fits : \A j \in fits : i <= j].fee * 1000
Rounded(thousandths) == (thousandths + 500) \div 1000

\* Without a method: 1.5% and a fixed 100.
calculateFees(amount, fees) ==
    Rounded(IF fees = <<>> THEN amount * 15 + 100000
            ELSE SumFunction([i \in 1 .. Len(fees) |-> FeePart(fees[i], amount)]))

\* Faulty variant: a payout that was turned away still costs its fee.
RejectedCharging(payout) ==
    [status |-> "failed", fees |-> calculateFees(payout.amount, DefaultMethod.fees),
     netAmount |-> payout.amount]

\* A check that throws: nothing is paid, and nothing is charged for it.
Rejected(payout) == [status |-> "failed", fees |-> 0, netAmount |-> payout.amount]
Executed(payout, status) ==
    LET fees == calculateFees(payout.amount, DefaultMethod.fees)
    IN  [status |-> status, fees |-> fees, netAmount |-> payout.amount - fees]

DisbursementInit == jobs = [j \in Jobs |-> Unused] /\ paid = {}

-----------------------------------------------------------------------------
Current(j) == jobs[j].requests[Len(jobs[j].results) + 1]
Working(j, status) == jobs[j].status = status /\ Len(jobs[j].results) < Len(jobs[j].requests)
Received(j, result) ==
    jobs' = [jobs EXCEPT ![j].results = Append(@, result), ![j].status = "processing"]

\* A zod schema checks what it asks for: a positive amount in a known currency.
createDisbursement(j) ==
    \E order \in Orders :
        /\ jobs[j] = Unused /\ Len(order) = 1 /\ order[1] \in Payout
        /\ jobs' = [jobs EXCEPT ![j] = [kind |-> "single", requests |-> order, results |-> <<>>,
                                        status |-> "processing"]]
        /\ UNCHANGED paid
createBatchDisbursement(j) ==
    \E order \in Orders :
        /\ jobs[j] = Unused /\ \A i \in 1 .. Len(order) : order[i] \in Payout
        /\ jobs' = [jobs EXCEPT ![j] = [kind |-> "batch", requests |-> order, results |-> <<>>,
                                        status |-> "processing"]]
        /\ UNCHANGED paid

\* Validation, compliance, the choice of a provider and its fees, up to the provider's call.
processDisbursement(j) ==
    /\ Working(j, "processing")
    /\ IF Valid(Current(j)) /\ Compliant(Current(j)) /\ Compatible(Current(j)) # {}
       THEN jobs' = [jobs EXCEPT ![j].status = "calling"]
       ELSE Received(j, Rejected(Current(j)))
    /\ UNCHANGED paid

\* The provider answers.  The mocks of callBankAPI and callFintechAPI succeed; the code
\* after them handles both answers.  The webhook says completed either way.
executeDisbursement(j) ==
    /\ Working(j, "calling")
    /\ \/ /\ Received(j, Executed(Current(j), "completed"))
          /\ paid' = paid \union {[job |-> j, item |-> Len(jobs[j].results) + 1,
                                   amount |-> Executed(Current(j), "completed").netAmount]}
       \/ Received(j, Executed(Current(j), "failed")) /\ UNCHANGED paid

Total(j, amount(_)) == SumFunction([i \in 1 .. Len(jobs[j].results) |-> amount(i)])
Successes(j) == {i \in 1 .. Len(jobs[j].results) : jobs[j].results[i].status = "completed"}

\* The end of processBatchDisbursement.
Summarise(j) ==
    LET job == jobs[j]
        successes == Cardinality(Successes(j))
        failures == Len(job.results) - successes IN
    /\ job.status = "processing" /\ job.kind = "batch" /\ Len(job.results) = Len(job.requests)
    /\ jobs' = [jobs EXCEPT ![j] =
           [kind |-> "batch", requests |-> job.requests, results |-> job.results,
            status |-> IF failures = 0 THEN "completed" ELSE IF successes = 0 THEN "failed" ELSE "partial",
            summary |-> [successCount |-> successes, failureCount |-> failures,
                         totalAmount |-> Total(j, LAMBDA i : job.requests[i].amount),
                         totalFees |-> Total(j, LAMBDA i : job.results[i].fees),
                         netAmount |-> Total(j, LAMBDA i : job.results[i].netAmount)]]]
    /\ UNCHANGED paid

DisbursementNext ==
    \E j \in Jobs : \/ createDisbursement(j) \/ createBatchDisbursement(j) \/ processDisbursement(j)
                    \/ executeDisbursement(j) \/ Summarise(j)
DisbursementSpec == DisbursementInit /\ [][DisbursementNext]_DisbursementVars

-----------------------------------------------------------------------------
\* The results are of the types of types/disbursement.ts.
DisbursementTypeOK ==
    \A j \in Jobs : OnRecord(jobs[j]) =>
        /\ jobs[j].status \in {"processing", "calling", "completed", "failed", "partial"}
        /\ \A i \in 1 .. Len(jobs[j].results) : jobs[j].results[i] \in Result

\* A batch's answer accounts for what happened to it: its amounts are its fees and net
\* amounts, it counts as successes exactly what the provider was made to pay, each once and
\* net of its fee, and it is completed or failed only if all of it was paid or nothing was.
BatchAccountsForPayouts ==
    \A j \in Jobs : OnRecord(jobs[j]) /\ jobs[j].status \in {"completed", "failed", "partial"} =>
        LET job == jobs[j]
            mine == {p \in paid : p.job = j} IN
        /\ job.summary.totalAmount = job.summary.totalFees + job.summary.netAmount
        /\ job.summary.successCount = Cardinality(mine)
        /\ \A p \in mine : p.amount = job.requests[p.item].amount - job.results[p.item].fees
        /\ job.status = "completed" <=> Cardinality(mine) = Len(job.requests)
        /\ job.status = "failed" <=> mine = {} /\ job.requests # <<>>
=============================================================================
