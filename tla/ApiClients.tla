------------------------------- MODULE ApiClients -------------------------------
(***************************************************************************)
(* The clients of HTTP APIs: CreditService and UserService of the SDK over *)
(* its HttpClient, which limits its own rate and retries some failures,    *)
(* and SMEAPIClient, which retries them all.  A request may be executed    *)
(* although its answer never arrives or is an error.                       *)
(***************************************************************************)
EXTENDS Requests

CONSTANTS
    MaxRetries, SmeRetries,    \* the greatest retryAttempts, and retries of SMEAPIClient
    MaxRate                    \* the greatest rateLimitPerHour

ASSUME ApiClientsAssumption == MaxRetries \in Nat /\ SmeRetries \in Nat /\ MaxRate \in Nat \ {0}

VARIABLES
    config,       \* retryAttempts and rateLimitPerHour
    requestCount, \* requests of the present hour
    hourOver,     \* whether more than an hour has passed since lastResetTime
    requesting,       \* the call each client is in
    settled,      \* how its last call ended
    executed,     \* history: how often the server did what the call asks for
    unheard,      \* history: how often it did so, and the client saw a failure
    sentInHour, allowed \* history: requests since lastResetTime, and the greatest rate meanwhile

ApiVars == <<config, requestCount, hourOver, requesting, settled, executed, unheard, sentInHour, allowed>>

ApiInit ==
    /\ config = [retries |-> MaxRetries, rate |-> MaxRate]
    /\ requestCount = 0 /\ hourOver = FALSE /\ sentInHour = 0 /\ allowed = MaxRate
    /\ requesting = [k \in Clients |-> Resting] /\ settled = [k \in Clients |-> "nothing"]
    /\ executed = [k \in Clients |-> 0] /\ unheard = [k \in Clients |-> 0]

UnchangedLimit == UNCHANGED <<config, requestCount, hourOver, sentInHour, allowed>>
Asks(k, call) == requesting' = [requesting EXCEPT ![k] = call]
Settle(k, how) == settled' = [settled EXCEPT ![k] = how]

-----------------------------------------------------------------------------
\* What the services refuse before anything is sent.
BeginCall(k, api, valid) ==
    /\ requesting[k] = Resting
    /\ Asks(k, IF valid THEN [pc |-> "send", api |-> api, attempt |-> 0] ELSE Resting)
    /\ Settle(k, IF valid THEN "pending" ELSE "refused")
    /\ executed' = [executed EXCEPT ![k] = 0] /\ unheard' = [unheard EXCEPT ![k] = 0]
    /\ UnchangedLimit
createApplication(k, amount) == BeginCall(k, "sdk", amount > 0)
updateApplication(k, fields) == BeginCall(k, "sdk", fields # {} /\ \A amount \in fields : amount > 0)
submitApplication(k) == BeginCall(k, "sdk", TRUE)
\* An approval at the rate 0 is refused, like one without a rate.
makeCreditDecision(k, approve, amount, rate) == BeginCall(k, "sdk", approve => (amount > 0 /\ rate \in 1 .. 100))
calculateLoanQuote(k, amount, term) == BeginCall(k, "sdk", amount > 0 /\ term > 0)
createUser(k) == BeginCall(k, "sdk", TRUE)
updateUser(k, fields) == BeginCall(k, "sdk", fields # {})
deleteUser(k) == BeginCall(k, "sdk", TRUE)
suspendUser(k) == BeginCall(k, "sdk", TRUE)
reactivateUser(k) == BeginCall(k, "sdk", TRUE)
\* Reads are limited, retried and refused like the rest; one that needs an id, an address or a
\* query is not sent without it.
getApplicationById(k, given) == BeginCall(k, "sdk", given)
listApplications(k) == BeginCall(k, "sdk", TRUE)
getApplicationsByUserId(k, given) == BeginCall(k, "sdk", given)
getApplicationAnalytics(k) == BeginCall(k, "sdk", TRUE)
getLoanById(k, given) == BeginCall(k, "sdk", given)
listLoans(k) == BeginCall(k, "sdk", TRUE)
getLoansByUserId(k, given) == BeginCall(k, "sdk", given)
getUserById(k, given) == BeginCall(k, "sdk", given)
listUsers(k) == BeginCall(k, "sdk", TRUE)
getUserByEmail(k, given) == BeginCall(k, "sdk", given)
getUserStats(k, given) == BeginCall(k, "sdk", given)
searchUsers(k, given) == BeginCall(k, "sdk", given)
\* initiateTransfer, createVirtualAccount and the other calls of SMEAPIClient.
initiateTransfer(k) == BeginCall(k, "sme", TRUE)

\* Faulty variant: one request more.
OverLimitByOne(count) == count > config.rate

OverLimit(count) == count >= config.rate
\* The first request after the hour resets the count.  A request over the limit ends the
\* call, a retry too: what the interceptor throws is not retried.
checkOwnRate(k) ==
    LET count == IF hourOver THEN 0 ELSE requestCount
        over == OverLimit(count) IN
    /\ requesting[k].pc = "send" /\ requesting[k].api = "sdk"
    /\ hourOver' = FALSE /\ requestCount' = IF over THEN count ELSE count + 1
    /\ sentInHour' = (IF hourOver THEN 0 ELSE sentInHour) + (IF over THEN 0 ELSE 1)
    /\ allowed' = IF hourOver THEN config.rate ELSE allowed
    /\ Asks(k, IF over THEN Resting ELSE [requesting[k] EXCEPT !.pc = "wire"])
    /\ Settle(k, IF over THEN "limited" ELSE settled[k])
    /\ UNCHANGED <<config, executed, unheard>>
SmeSends(k) ==
    /\ requesting[k].pc = "send" /\ requesting[k].api = "sme" /\ Asks(k, [requesting[k] EXCEPT !.pc = "wire"])
    /\ UNCHANGED <<settled, executed, unheard>> /\ UnchangedLimit

\* 408, 429, 502, 503, 504 and no response at all are retried, by SMEAPIClient everything.
handleError(answer) == answer \in {"none", "busy"}
shouldRetry(call, answer) ==
    IF call.api = "sdk" THEN handleError(answer) /\ call.attempt < config.retries
    ELSE call.attempt < SmeRetries
\* An answer that says it did not succeed, or cannot be parsed, is an error for the services.
Accepted(api, answer) == answer = "ok" \/ (api = "sme" /\ answer = "odd")
ApiAnswers == {"ok", "odd", "none", "busy", "error"}
\* The server does what it is asked for, or not, and what it answers, or not, arrives.
request(k, does, answer) ==
    LET call == requesting[k] IN
    /\ call.pc = "wire" /\ (answer = "ok" => does)
    /\ executed' = [executed EXCEPT ![k] = @ + (IF does THEN 1 ELSE 0)]
    /\ CASE Accepted(call.api, answer) -> Asks(k, Resting) /\ Settle(k, answer) /\ UNCHANGED unheard
         [] ~Accepted(call.api, answer) ->
               /\ unheard' = [unheard EXCEPT ![k] = @ + (IF does THEN 1 ELSE 0)]
               /\ IF answer # "odd" /\ shouldRetry(call, answer)
                  THEN Asks(k, [call EXCEPT !.pc = "backoff", !.attempt = @ + 1]) /\ UNCHANGED settled
                  ELSE Asks(k, Resting) /\ Settle(k, "failed")
    /\ UnchangedLimit
\* retryRequest, once its delay is over.
retryRequest(k) ==
    /\ requesting[k].pc = "backoff" /\ Asks(k, [requesting[k] EXCEPT !.pc = "send"])
    /\ UNCHANGED <<settled, executed, unheard>> /\ UnchangedLimit

updateConfig(retries, rate) ==
    /\ config' = [retries |-> retries, rate |-> rate]
    /\ allowed' = IF rate > allowed THEN rate ELSE allowed
    /\ UNCHANGED <<requestCount, hourOver, sentInHour, requesting, settled, executed, unheard>>
HourPasses ==
    /\ ~hourOver /\ hourOver' = TRUE
    /\ UNCHANGED <<config, requestCount, sentInHour, allowed, requesting, settled, executed, unheard>>

ApiNext ==
    \/ \E k \in Clients :
        \/ \E amount \in {0, 1} : \/ createApplication(k, amount) \/ updateApplication(k, {amount})
                                  \/ \E more \in {0, 1} : calculateLoanQuote(k, amount, more)
                                                          \/ makeCreditDecision(k, TRUE, amount, more)
        \/ submitApplication(k) \/ createUser(k) \/ updateUser(k, {}) \/ updateUser(k, {1}) \/ deleteUser(k)
        \/ suspendUser(k) \/ reactivateUser(k) \/ initiateTransfer(k)
        \/ listApplications(k) \/ getApplicationAnalytics(k) \/ listLoans(k) \/ listUsers(k)
        \/ getApplicationById(k, TRUE) \/ getApplicationsByUserId(k, TRUE) \/ getLoanById(k, TRUE)
        \/ getLoansByUserId(k, TRUE) \/ getUserById(k, TRUE) \/ getUserStats(k, TRUE)
        \/ \E given \in BOOLEAN : getUserByEmail(k, given) \/ searchUsers(k, given)
        \/ checkOwnRate(k) \/ SmeSends(k) \/ retryRequest(k)
        \/ \E does \in BOOLEAN, answer \in ApiAnswers : request(k, does, answer)
    \/ \E retries \in 0 .. MaxRetries, rate \in 1 .. MaxRate : updateConfig(retries, rate)
    \/ HourPasses
ApiSpec == ApiInit /\ [][ApiNext]_ApiVars

-----------------------------------------------------------------------------
\* The counts and the calls are what the clients make them.
ApiTypeOK ==
    /\ config \in [retries : 0 .. MaxRetries, rate : 1 .. MaxRate] /\ {requestCount, sentInHour} \subseteq Nat
    /\ settled \in [Clients -> {"nothing", "pending", "refused", "limited", "failed", "ok", "odd"}]

\* A call that resolves was executed; one that is executed again was so by an attempt whose
\* answer was lost or said it failed, and never more often than there are retries.
RepeatsWereUnheard ==
    \A k \in Clients :
        /\ settled[k] = "ok" => executed[k] >= 1
        /\ executed[k] <= unheard[k] + (IF settled[k] \in {"ok", "odd"} THEN 1 ELSE 0)
        /\ executed[k] <= 1 + (IF MaxRetries > SmeRetries THEN MaxRetries ELSE SmeRetries)

\* Since the count was last reset the SDK has sent no more requests, retries included, than the
\* greatest rate it was configured with meanwhile.
OwnRateKept == sentInHour <= allowed
=============================================================================
