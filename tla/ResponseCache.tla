----------------------------- MODULE ResponseCache -----------------------------
(***************************************************************************)
(* libs/cache: cached API responses, cached credit scores and applications *)
(* with their indexes, and the rules that invalidate them.  What is cached *)
(* was read before it is stored, and meanwhile it may change.              *)
(***************************************************************************)
EXTENDS Requests

CONSTANTS
    Users, Applicants,     \* users of the API; users with a score
    CreditApps, AppStates, \* cached applications and two of their statuses
    KeyPrefix,             \* whether Redis keys have a prefix, as they have by default
    MaxVersion             \* bounds the changes of a score

ASSUME ResponseCacheAssumption == MaxVersion \in Nat \ {0}

VARIABLES
    score,         \* the version of each applicant's score, at its source
    scores,        \* credit:score:<user>, 0 for no such key
    responses,     \* api_cache:<hash>: for whom the body under each key was made
    apps,          \* credit:application:<id>: the status it was cached with
    byStatus,      \* credit:apps_by_status:<status>
    ratings,       \* credit:risk_rating:<user>: the version of the score it was cached with
    calling,       \* the request each client is in
    changed,       \* applicants whose score changed in a request not yet answered
    triggered,     \* applicants whose change is announced, and not yet dealt with
    outrun,        \* history: applicants whose score changed while a reader held it
    unindexed,     \* history: [app, status] whose index expired or could not be written
    unrated        \* history: applicants whose rating could not be written, or was out of turn

CacheVars == <<score, scores, responses, apps, byStatus, ratings, calling, changed, triggered, outrun,
               unindexed, unrated>>

Nobody == "nobody"                    \* a request without a user
Responses == Users \union {Nobody}    \* the keys: one endpoint, by user
NoResponse == "no response"

CacheInit ==
    /\ score = [u \in Applicants |-> 1] /\ scores = [u \in Applicants |-> 0]
    /\ responses = [r \in Responses |-> NoResponse]
    /\ apps = [a \in CreditApps |-> "none"] /\ byStatus = [s \in AppStates |-> {}]
    /\ calling = [k \in Clients |-> Resting] /\ changed = {} /\ triggered = {}
    /\ ratings = [u \in Applicants |-> 0] /\ outrun = {} /\ unindexed = {} /\ unrated = {}

Call(k, call) == calling' = [calling EXCEPT ![k] = call]
UnchangedCaches == UNCHANGED <<scores, responses, apps, byStatus, ratings>>
UnchangedScores == UNCHANGED <<score, changed, triggered, outrun, unindexed, unrated>>

-----------------------------------------------------------------------------
\* Faulty variant: the rule's own varyBy is all there is.
generateCacheKeyVaried(user) == Nobody

\* The user is in the key once something has authenticated the request.
generateCacheKey(user) == user

\* sessionMiddleware: a session that is not valid leaves the request without a user, or ends it
\* where one is required.
sessionMiddleware(k, user, valid, required) ==
    /\ (valid /\ user # Nobody) \/ ~required
    /\ Call(k, [pc |-> "limit", user |-> IF valid THEN user ELSE Nobody])
    /\ UnchangedCaches /\ UnchangedScores
\* A request over its limit is answered with 429; one that cannot be counted passes.
rateLimitMiddleware(k, allowed) ==
    /\ calling[k].pc = "limit"
    /\ Call(k, IF allowed THEN [calling[k] EXCEPT !.pc = "look"] ELSE Resting)
    /\ UnchangedCaches /\ UnchangedScores

\* Only a GET that does not forbid it, for an endpoint with a rule.
shouldCache(method, cacheControl) == method = "GET" /\ cacheControl \notin {"no-cache", "no-store"}

\* apiCacheMiddleware: a hit is the answer; others go on to their handler.
Lookup(k, user, seenAs, cacheable) ==
    /\ Call(k, IF cacheable /\ responses[generateCacheKey(seenAs)] = NoResponse
               THEN [pc |-> "handle", user |-> user] ELSE Resting)
    /\ UnchangedCaches /\ UnchangedScores
apiCacheMiddleware(k, method, cacheControl) ==
    /\ calling[k].pc = "look"
    /\ Lookup(k, calling[k].user, calling[k].user, shouldCache(method, cacheControl))
\* In front of what authenticates, it looks for the response to nobody.
apiCacheMiddlewareFirst(k, user, method, cacheControl) ==
    Lookup(k, user, Nobody, shouldCache(method, cacheControl))
\* Whatever the handler answers is cached, under the key the request has by then.
cacheResponse(k, fits) ==
    /\ calling[k].pc = "handle"
    /\ responses' = IF fits THEN [responses EXCEPT ![generateCacheKey(calling[k].user)] = calling[k].user]
                    ELSE responses
    /\ Call(k, Resting)
    /\ UNCHANGED <<scores, apps, byStatus, ratings>> /\ UnchangedScores
\* invalidateResponse, or a response whose time is over when it is looked for.
ResponseGoes(r) ==
    /\ responses[r] # NoResponse /\ responses' = [responses EXCEPT ![r] = NoResponse]
    /\ UNCHANGED <<scores, apps, byStatus, ratings, calling>> /\ UnchangedScores

-----------------------------------------------------------------------------
UnchangedOthers == UNCHANGED <<responses, apps, byStatus, unindexed>>
Rating(u, k) == \E other \in Clients \ {k} : calling[other].pc = "rate" /\ calling[other].user = u

\* A miss: the score is read at its source, and cached when it is there.
getCreditScore(k, u) ==
    /\ scores[u] = 0 /\ Call(k, [pc |-> "score", user |-> u, version |-> score[u]])
    /\ UnchangedCaches /\ UnchangedScores
setCreditScore(k, stored) ==
    LET u == calling[k].user IN
    /\ calling[k].pc = "score"
    /\ scores' = IF stored THEN [scores EXCEPT ![u] = calling[k].version] ELSE scores
    /\ Call(k, IF stored THEN [calling[k] EXCEPT !.pc = "rate"] ELSE Resting)
    /\ unrated' = IF stored /\ Rating(u, k) THEN unrated \union {u} ELSE unrated
    /\ UNCHANGED <<score, ratings, changed, triggered, outrun>> /\ UnchangedOthers
\* After the score, its rating; what fails is only logged.
cacheRiskRating(k, works) ==
    LET u == calling[k].user IN
    /\ calling[k].pc = "rate" /\ Call(k, Resting)
    /\ ratings' = IF works THEN [ratings EXCEPT ![u] = calling[k].version] ELSE ratings
    /\ unrated' = IF ~works \/ Rating(u, k) THEN unrated \union {u} ELSE unrated
    /\ UNCHANGED <<score, scores, changed, triggered, outrun>> /\ UnchangedOthers

ScoreChanges(u) ==
    /\ score[u] < MaxVersion /\ score' = [score EXCEPT ![u] = @ + 1]
    /\ changed' = changed \union {u}
    /\ outrun' = IF \E k \in Clients : calling[k].pc = "score" /\ calling[k].user = u
                  THEN outrun \union {u} ELSE outrun
    /\ UNCHANGED <<scores, ratings, calling, triggered, unrated>> /\ UnchangedOthers
\* cacheInvalidationMiddleware announces what the answer says was done, an error nothing.
cacheInvalidationMiddleware(u, succeeded) ==
    /\ u \in changed /\ changed' = changed \ {u}
    /\ triggered' = IF succeeded THEN triggered \union {u} ELSE triggered
    /\ outrun' = IF succeeded THEN outrun ELSE outrun \union {u}
    /\ UNCHANGED <<score, scores, ratings, calling, unrated>> /\ UnchangedOthers

\* Faulty variant: only the tag, which nothing is filed under.
TargetsTagged(event) == {}

\* What each default rule finds: nothing is ever filed under a tag, the hash in a response's
\* key matches no pattern, no key has the form user:<id>:* or session:*:<id>, and SCAN, unlike
\* other commands, does not add the prefix to its pattern.
Targets(event) ==
    CASE event = "credit.score.updated" -> IF KeyPrefix THEN {} ELSE {"score"}
      [] event = "application.status.changed" -> {"application"}
      [] OTHER -> {}
\* The rule's keys are deleted; a deletion that fails is reported to nobody.
triggerInvalidation(u, works) ==
    /\ u \in triggered /\ triggered' = triggered \ {u}
    /\ scores' = IF works /\ "score" \in Targets("credit.score.updated") THEN [scores EXCEPT ![u] = 0] ELSE scores
    /\ outrun' = IF works THEN outrun ELSE outrun \union {u}
    /\ UNCHANGED <<score, ratings, calling, changed, unrated>> /\ UnchangedOthers
\* One command for the score, the rating and the other records of the user.
invalidateUserCache(u) ==
    /\ scores' = [scores EXCEPT ![u] = 0] /\ ratings' = [ratings EXCEPT ![u] = 0]
    /\ UNCHANGED <<score, calling, changed, triggered, outrun, unrated>> /\ UnchangedOthers
ScoreExpires(u) ==
    /\ scores[u] # 0 /\ scores' = [scores EXCEPT ![u] = 0]
    /\ outrun' = IF \E k \in Clients : calling[k].pc = "score" /\ calling[k].user = u THEN outrun ELSE outrun \ {u}
    /\ UNCHANGED <<score, ratings, calling, changed, triggered, unrated>> /\ UnchangedOthers
RatingExpires(u) ==
    /\ ratings[u] # 0 /\ ratings' = [ratings EXCEPT ![u] = 0]
    /\ UNCHANGED <<score, scores, calling, changed, triggered, outrun, unrated>> /\ UnchangedOthers

-----------------------------------------------------------------------------
UnchangedCredit == UNCHANGED <<score, scores, responses, ratings, changed, triggered, outrun, unrated>>

\* The application first, then its indexes; a write that fails is only logged.
setCreditApplication(k, a, s) ==
    /\ apps' = [apps EXCEPT ![a] = s]
    /\ Call(k, [pc |-> "index", app |-> a, status |-> s])
    /\ UNCHANGED <<byStatus, unindexed>> /\ UnchangedCredit

\* Faulty variant: an application that is in an index is left there.
cacheApplicationOnce(k, works) ==
    LET a == calling[k].app
        s == calling[k].status IN
    /\ calling[k].pc = "index"
    /\ byStatus' = IF works /\ \A t \in AppStates : a \notin byStatus[t]
                   THEN [byStatus EXCEPT ![s] = @ \union {a}] ELSE byStatus
    /\ unindexed' = IF works THEN unindexed \ {<<a, s>>} ELSE unindexed \union {<<a, s>>}
    /\ Call(k, Resting)
    /\ UNCHANGED apps /\ UnchangedCredit

cacheApplicationByStatus(k, works) ==
    LET a == calling[k].app
        s == calling[k].status IN
    /\ calling[k].pc = "index"
    /\ byStatus' = IF works THEN [byStatus EXCEPT ![s] = @ \union {a}] ELSE byStatus
    /\ unindexed' = IF works THEN unindexed \ {<<a, s>>} ELSE unindexed \union {<<a, s>>}
    /\ Call(k, Resting)
    /\ UNCHANGED apps /\ UnchangedCredit
\* invalidateApplicationCache, the rule application.status.changed, or the end of the ttl; the
\* indexes stay as they are.
invalidateApplicationCache(a) ==
    /\ apps[a] # "none" /\ apps' = [apps EXCEPT ![a] = "none"]
    /\ UNCHANGED <<byStatus, calling, unindexed>> /\ UnchangedCredit
\* An index lives a day from the last addition, a decided application a week.
IndexExpires(s) ==
    /\ byStatus[s] # {} /\ byStatus' = [byStatus EXCEPT ![s] = {}]
    /\ unindexed' = unindexed \union {<<a, s>> : a \in byStatus[s]}
    /\ UNCHANGED <<apps, calling>> /\ UnchangedCredit
getApplicationsByStatus(s) == byStatus[s]

-----------------------------------------------------------------------------
ResponsesNext ==
    \/ \E k \in Clients, user \in Responses :
        /\ calling[k] = Resting
        /\ \/ \E valid, required \in BOOLEAN : sessionMiddleware(k, user, valid, required)
           \/ \E cacheControl \in {"none", "no-cache"} : apiCacheMiddlewareFirst(k, user, "GET", cacheControl)
    \/ \E k \in Clients :
        \/ \E allowed \in BOOLEAN : rateLimitMiddleware(k, allowed)
        \/ \E method \in {"GET", "POST"}, cacheControl \in {"none", "no-cache"} :
              apiCacheMiddleware(k, method, cacheControl)
        \/ \E fits \in BOOLEAN : cacheResponse(k, fits)
    \/ \E r \in Responses : ResponseGoes(r)
ScoresNext ==
    \/ \E k \in Clients :
        \/ calling[k] = Resting /\ \E u \in Applicants : getCreditScore(k, u)
        \/ \E works \in BOOLEAN : setCreditScore(k, works) \/ cacheRiskRating(k, works)
    \/ \E u \in Applicants : \/ ScoreChanges(u) \/ invalidateUserCache(u) \/ ScoreExpires(u) \/ RatingExpires(u)
                             \/ \E works \in BOOLEAN :
                                   cacheInvalidationMiddleware(u, works) \/ triggerInvalidation(u, works)
ApplicationsNext ==
    \/ \E k \in Clients :
        \/ calling[k] = Resting /\ \E a \in CreditApps, s \in AppStates : setCreditApplication(k, a, s)
        \/ \E works \in BOOLEAN : cacheApplicationByStatus(k, works)
    \/ \E a \in CreditApps : invalidateApplicationCache(a)
    \/ \E s \in AppStates : IndexExpires(s)
CacheSpec == CacheInit /\ [][ResponsesNext \/ ScoresNext \/ ApplicationsNext]_CacheVars

-----------------------------------------------------------------------------
\* The keys hold what the services put there.
CacheTypeOK ==
    /\ {scores, ratings} \subseteq [Applicants -> 0 .. MaxVersion]
    /\ responses \in [Responses -> Responses \union {NoResponse}]
    /\ apps \in [CreditApps -> AppStates \union {"none"}] /\ byStatus \in [AppStates -> SUBSET CreditApps]

\* A response made for a user is never found by a request of another, or of nobody, although
\* the key is computed anew when it is stored.
ResponsesKeepTheirUser == \A r \in Responses : responses[r] \in {NoResponse, r}

\* Once its change is announced and dealt with, an old score is cached only if it was on its way
\* into the cache when the score changed, or if the request or the deletion failed, or if keys
\* have a prefix, with which it is never found.
StaleOnlyByOverlap ==
    \A u \in Applicants \ (changed \union triggered \union outrun) : KeyPrefix \/ scores[u] \in {0, score[u]}

\* A score and a rating that are both cached were cached together, unless the rating is still to
\* be written, could not be, or was written while another was.
RatedTogether ==
    \A u \in Applicants \ unrated :
        ratings[u] \in {0, scores[u]} \/ scores[u] = 0 \/ \E k \in Clients : calling[k].pc = "rate" /\ calling[k].user = u

\* A cached application is found under its status, unless its index expired before it or
\* could not be written.
FoundByStatus ==
    \A a \in CreditApps :
        LET s == apps[a] IN
        s = "none" \/ a \in byStatus[s] \/ <<a, s>> \in unindexed
        \/ \E k \in Clients : calling[k].pc = "index" /\ calling[k].app = a
=============================================================================
