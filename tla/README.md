# Verification of the Credit-as-a-Service platform

TLA+ models of the platform's stateful core, the TLC runs that check them on
small instances, and the theorems that TLAPS proves about them for every value
of the constants. Everything is translated from the source; line numbers for
every definition are in `PROJECT.json` ("map"), together with the list of
hazards, the findings and the faulty variants each property is tried against.

## 1. The system

The repository is a monorepo of Node services, a Fastify API, a set of Solidity
contracts and several user interfaces. Services keep their state in Redis, as
whole JSON documents behind `libs/cache`, or in memory; the API keeps it in
PostgreSQL; the contracts keep it on chain. No service takes a lock anywhere.

| Part | State | Operations | How it meets others | What is hard |
|---|---|---|---|---|
| Repayment engine (`services/repayment`) | `schedule:`, `transaction:`, `autodebit:` documents | create schedule, process payment, set up auto debit, payment plan, early payment | provider call in the middle of a payment; cache | overlapping payments save whole stale schedules; Redis drops writes; retries |
| Ledger (`services/ledger`) | accounts, account codes, entry sequence, entries, events | create account, create/post/reverse entry, ledger transaction | cache | get-then-set sequence, two reversals or a post in between, a crash between two writes |
| Contracts (`packages/contracts`) | collateral and locks, tokens held, credit positions, credit histories, pause | deposit, withdraw, lock, release, liquidate, swap; request, repay, liquidate a credit; score updates | the aggregator calls manager and oracle in one transaction | three contracts must agree; bonus, rounding, score arithmetic |
| WebSocket hub (`services/notifications/realtime`) | connections, index by user, index by channel | connect, subscribe, unsubscribe, heartbeat, disconnect, send to user/channel/role | event bus and notification service send through it | connections dropped in the middle of a handler; clients that vanish |
| Session store (`libs/cache/session-service.ts`) | `session:<id>` keys with a ttl, `user_sessions:<user>` set with a ttl | create, validate, update, destroy, destroy all | Redis commands of concurrent requests | each operation is several commands; two ttls that belong together; swallowed errors |
| Rate limiter (`libs/cache/rate-limiting-service.ts`) | sorted set, bucket, block key | check, token bucket, block, reset | cache middleware | failing open, refill rounding, a block between two commands |
| Cache service, Redis client, monitoring, invalidation (`libs/cache`) | keys, counters, lists; connection statuses; alert rules; schedules, statistics | get/set/warm, count, push and pop; connect; check; invalidate now, later, by event | all services | commands lost or sent twice, checks that overlap, timers of what was cancelled |
| Credit and API caches, middleware (`libs/cache`) | scores, ratings, applications and their index, responses | look up, store, invalidate | session, limit and cache middleware in one chain | what is stored was read before it changed; keys by user |
| Onboarding (`services/onboarding`) | application document, list of uploads | create, edit, submit, verify, approve, reject, upload | verification providers, compliance, OCR | verifications and decisions overlap, each saving the whole document |
| Collections (`services/collections`) | case and action documents | cases, actions, hardship plans, promises, disputes, legal referral | cache | an action completed twice; lost updates of a case |
| Disbursement (`services/disbursement`) | none but what a job holds | single and batch payouts | payment provider | partial failures and what the answer says of them |
| Loan and payment routes (`apps/api`) | `loan_applications`, `loans`, `payments` rows | apply, set status, delete; pay, process, refund | PostgreSQL foreign keys | check, then act; repeated refunds |
| User, login and API key routes (`apps/api`) | `users`, `api_keys` rows; signed tokens | register, log in, refresh, administer | PostgreSQL unique keys | rows that change between statements; tokens that outlive what they say |
| Notification delivery (`services/notifications`) | message and template documents | send, process, webhook, retry | providers | webhook racing the provider's answer; retries that never run |
| Event bus, scheduled notifications | last 1000 events, timers | publish, subscribe, schedule | WebSocket hub | listeners that throw, notices cancelled when due |
| Alert manager, health monitor (`services/monitoring`) | rules, active alerts, cooldowns, silences; checks, intervals | evaluate, resolve, silence; register, check, unregister | timers, HTTP | timers that overlap, checks in flight when a service is removed |
| Service registry (`services/api-gateway`) | services, instances, health | register, record call, check | HTTP | slow checks that end after later ones |
| Provider administration (`services/admin-provider-management`) | onboardings, projects, margins, integrations, in memory | submit, approve, reject; margins; service requests, deployments | event loop, pings | decisions taken twice; bounds of a margin that cross |
| Offers, underwriting, risk, compliance | none | scoring | called by others | many thresholds, monotonicity |
| SDK and SME client (`packages/sdk`, `services/sme-integration`) | configuration, count of the hour | one call per API operation | HTTP | retries of what was executed, their own rate limit |
| Notification page (`packages/ui-kit`) | socket, timers, list | connect, reconnect, receive, clear, read | WebSocket | handlers of sockets given up long ago |
| Deployment scripts (`scripts`) | images, services | build, test, ship, migrate, start, verify; wait for health | ssh, docker, curl | failures that end the script, and those that do not |
| Lead distribution, Kafka, common events, auth, metrics, GraphQL, UIs | little or none | wrappers, stubs, rendering, configuration | | |

`PROJECT.json` lists every one of these as a component, with its status.

Things found while reading that no model needs but a reader should know: the
notification service's `index.ts` imports `eventHandlerRegistry` from
`event-bus.ts`, which does not export it (`event-handlers.ts` does); `EventBus`
fills `recipients`, which `WebSocketManager` does not look at (it goes by user,
role and channel); the payment route inserts the id of a loan *application*
where the schema references `loans`, a table no route fills.

## 2. The modules

`Ideal*` modules are abstract specifications, `MC*` modules hold the constants
and symmetry of a model, `*Proofs` modules hold theorems, `Sums` what is proved
about sums over finite sets and integer division and used by several of them. Operators called
"Faulty variant" are never used by the specifications: each is a plausible
mistake in the operator that follows it. `PROJECT.json` ("mutants") lists one
for every property; where a property is a conjunction of what several modules
state, the variants of the other modules break its other conjuncts.

Services that share no state are composed by a variable that says whose
behaviour it is: `CustomerServices`, `PlatformServices` and `Scoring` are such
compositions, and one run explores all of their parts.

### Repayment (`IdealRepayment`, `Repayment`, `MCRepayment`, `RepaymentProofs`)

One action per stretch of `processPayment` between two awaits that other calls
can get into: `BeginPayment` (read the schedule, store the pending
transaction), `ChargeSucceeds`/`ChargeFails` (the provider), `ApplyPayment`
(save the call's own, possibly stale, copy of the schedule) and
`EmitPaymentMade`. `createSchedule`, `createPaymentPlan`, `processEarlyPayment`
and the two writes of `setupAutoDebit` are the other actions. A schedule is
reduced to its status, the transaction that paid each installment, and whether
`endDate` is still a `Date` or has become a string on its way through JSON.
`FaultySpec` adds Redis outages, during which `CacheService` answers null and
drops writes, and the expiry of schedules; `SerialSpec` has neither, and callers
do not overlap payments of one schedule.

### Ledger (`IdealLedger`, `Ledger`, `MCLedger`, `LedgerProofs`)

Calls that record an entry go through `Submit` or `BeginReverse`,
`ReadSequence`, `WriteSequence`, `Validate`, `SaveEntry`, `AnnounceEntry`, and
then `SaveTransaction` or `SaveReversed` and `AnnounceReversal`: one action per
cache operation, and a call may stop for good after any of them, which is also
how a crash looks. Line items are sequences of records with real amounts, so
that `Balanced`, `OneSided`, `Mirror` and the approval threshold are computed
as in the code. `SerialSpec` keeps operations on one entry, and numbering, apart.

### Contracts (`ContractBase`, `CollateralManager`, `CreditScoringOracle`, `CreditProtocol`, `CreditProofs`)

A contract call is a transaction, hence one action; whatever would revert it is
a guard. `CollateralManager` and `CreditScoringOracle` have one action per
external function, with integer division as on chain. `CreditProtocol` composes
them under `CreditAggregator`: requesting, repaying and liquidating a credit
change position, lock and history in one step. `Scoring` drives the
oracle alone, with its owner's imports, resets and pauses. Amounts are whole
tokens and time is counted in ticks of `DaysPerTick` days.

### WebSocket hub (`IdealHub`, `WebSocketHub`, `WebSocketHubProofs`)

A handler runs to its end before another starts, so it is one action. A `send`
may throw, as the sockets in the service's tests can, and then the connection is
dropped inside the same handler: the parameter `F` of a sender is the set of
connections that fail. `IdealHub` has sessions and notices, no indexes; a
session there has every user its client has named since it connected, since a
second subscription adds a user and removes none.
Malformed messages change nothing and are not actions.

### Session store (`SessionStore`, `SessionProofs`)

The sessions of one user (the keys of different users are disjoint). A call is
a record with the operation, the next Redis command and what it carries; every
command is an action, and commands of `Callers` interleave. `getSession` and
`destroySession`, which call each other, are the commands `get`, `extend`,
`del` and `srem` with the number of enclosing `destroySession` frames in
`owed`; past two frames only the parity of their number is kept, since further
deletions of the same key change nothing. Times are what is left of
them, in ticks, and `Tick` ages keys, sessions and what calls hold in memory.
With `RedisMayFail` any command may fail, which `CacheService` hides.

### Customer services (`CustomerServices` over `Requests`, `CustomerProofs`)

`Requests` holds what the HTTP services share: `Clients`, each in at most one
request of a service, and requests as records that say which step comes next. A
step ends at an await that reads or changes what others see.

* `Onboarding`: an application from creation to approval or rejection, with
  verifications, compliance checks and edits that each save the copy they read,
  and the upload of files with the list they are entered in.
* `Collections`: cases, their actions, hardship plans, promises, disputes and
  referrals; one cache operation per step.
* `Disbursement`: single payouts and batches, in order, with validation,
  compliance, fees and the provider; the result is the job's answer.
* `NotificationDelivery`: templates, messages, their processing, the provider's
  second of thought and the webhooks that come meanwhile.
* `UserRoutes`: rows of users and API keys, passwords (numbers: how often one was
  set), credit scores, and the tokens that were signed; one SQL statement per step.
  What a request shows of users is in `serving` between its query and its answer.
  `UsersNext` and `SecretsNext` are two services of the composition, "users" and
  "secrets": administration beside logins, and passwords, scores and reads beside logins.
* `ProviderAdmin`, `Margins`: the onboarding of credit providers with projects,
  margins, integrations and deployments. It is all in memory, so calls interleave
  only where the event loop lets them. `Margins` computes what a lead is charged.

### Platform services (`PlatformServices`, `PlatformProofs`)

* `LoanRoutes`: applications, payments, refunds; one statement per step, foreign
  keys checked as PostgreSQL does.
* `EventBus`: publishing is one step, whatever its listeners throw; scheduled
  notices are timers, with the longest delay `setTimeout` can wait.
* `AlertManager`: samples, rules, alerts, cooldowns and silences by the minute.
* `HealthMonitor`, `ServiceRegistry`: checks that are in flight while services
  come, change and go.
* `RateLimiter`: window, block and bucket, one Redis round trip per step.
* `ResponseCache`: a request's way through the middleware, cached responses,
  credit scores, ratings and applications with what invalidates them. `responses`
  says for whom each response was made.
* `CacheStore`: values, counters and lists. A command is answered, executed
  twice, executed without an answer, or neither (`Outcomes`).
* `CacheMonitoring`: the three connections and the `isConnected` flag, and health
  checks that overlap, each evaluating the rules one at a time.
* `CacheInvalidation`: invalidations now, at a time and after a delay, and their
  statistics, kept in memory and in Redis.
* `ApiClients`: the clients of the APIs. The server may have executed what it
  answers with an error, or does not answer at all.
* `NotificationPanel`: the page's socket and timers through `useNotifications`.
  `overlapped` remembers that two connections were on their way at once.
* `Deployment`: `deploy.sh` step by step, each command of which may fail, and
  `wait-for-health.sh`.

### Scoring (`Scoring`, `Assessments`; theorems in `CreditProofs`)

`Assessments` holds the engines that judge an application and keep nothing, as
operators; one step is one question. `Scoring` puts it beside the oracle, whose
updates it lets come in any order; `last` remembers the one made last.

## 3. The runs

| Run | Question | Bounds |
|---|---|---|
| `repayment_faults` | Through outages, expiry and overlapping payments: is an installment marked paid only by its own charge, a schedule completed only when all is charged, and no record a lie? | 1 schedule, 2 installments, 3 payments, 1 auto debit |
| `repayment_serial` | Without overlap, does the engine implement `IdealRepayment`, liveness included, and does the auto debit pointer name a setup of its schedule? | 3 payments, 2 installments, 2 auto debit setups |
| `ledger_concurrent` | Reversals, approvals and ledger transactions under any interleaving and stop: is every reversed entry reversed, nothing approved by itself, every accepted entry balanced, and its mirror accepted? | 3 entries, 2 users, line lists out of balance by the tolerance either way |
| `ledger_serial` | Kept apart, do calls implement `IdealLedger`? | 3 entries, 2 users |
| `scoring` | Does the oracle's score move with behaviour, over any sequence of updates? Is a better applicant never treated worse by the engines, and whoever is found compliant documented? | 6 updates in 3 ticks of a year; inputs on both sides of each threshold |
| `credit_lifecycle` | Do locks, deposits, histories and positions agree, and is a credit settled once? | 2 users, 2 credits, 3 ticks |
| `credit_swaps` | Does a swap ever gain value, with pauses and emergency withdrawals? | 2 tokens, amounts to 6 |
| `hub_clients` | Whatever is dropped in the middle of a handler, are the indexes right and invisible to who gets which notice, and are clients that vanish dropped in the end? | 2 connections, of which 1 may vanish, 2 users, 1 channel, 1 role |
| `session_limit` | Does the session limit hold, and does the set know every session, under overlapping creations and destructions? | 2 callers, 4 sessions, 1 allowed, within one tick |
| `session_calls` | All operations, commands that fail, time that passes: does a session that was deleted while nobody else had it stay deleted, and does every call return? | 2 callers, 1 session, ttl 1 |
| `customer_services` | Is anything lost but by requests that overlap (`UpdatesLostOnlyByOverlap`)? Did providers do what is said of them (`ProvidersAreAccountedFor`)? Does access follow what is known of a person (`AccessIsEarned`)? | 2 clients, 1 document of each kind, 2 uploads, 2 jobs of up to 2 payouts, 3 users, 2 lenders |
| `platform_services` | Do rows stay together (`RowsStayTogether`), are signals true (`SignalsAreTrue`), is health founded on checks (`HealthIsFounded`), and are caches, counts and limits faithful (`CachesAreFaithful`)? | 2 clients, 3 payments, 3 events, 2 checks at once, 2 keys, 3 sockets, 3 images in 2 stages |

The line lists of the ledger are those on both sides of the balance check and
over the approval threshold; an entry an automated caller records over the
threshold is a draft like any other. `CallsReturn` leaves two ways to go on for
ever, both real: a session that has no ttl (see below), and other calls that keep
writing an expired session back while a destruction walks through it. Two actors
suffice for each race here, because every operation touches one document,
entry, key or connection at a time; a third (payment, entry, session, token,
socket) is there where two earlier ones have to leave something behind. Amounts
are picked so that each comparison in the code is passed, failed and met exactly;
the clock so that terms, ttls, windows, cooldowns and the score's history bands
are all crossed. Lists the code cuts at 1000, 100 or 50 are cut at 2 or 3.
`customer_services` explores overlapping requests for individuals, and requests
of businesses one at a time (`IndividualsOnly`, `OneAtATime`); a margin at a time
(`OneMargin`) and little engineering work (`LittleWork`); two users who ever were staff
(`TwoStaff`) where rows are administered, and one user's password, set twice at most, or
score (`OneSecret`) where secrets are, with one user at a time deactivated or deleted
(`OneUnwelcome`); `platform_services` bounds failures
counted by the health monitor (`FailuresBound`), payments that are no refunds to
one (`OnePayment`), and rule objects disturbed, cached values out of date and
alerts not saved to one of each (`OneException`). The runs that
switch deadlock checking off are of models that really stop, when their ids are
used up. `SYMMETRY` is used where ids are only compared.

### Defects and surprises

The properties are stated so that they hold beside these; "findings" in
`PROJECT.json` quotes the lines of the repository that say otherwise. A history
variable (`outrun`, `overlapped`, `unheard`...) records that an exception
applied, and the property says what holds without it.

Money and records

* Two payments of one schedule that overlap each save the schedule they read:
  the second erases the first one's mark (`repayment-engine.ts:594`), hence
  `SerialSpec`. `processPayment` charges an installment again when it is called
  again (`:145`). Every early payment on a stored schedule throws: `endDate` is a
  string by then (`:666`); `early` is `"threw"` there.
* Concurrent entries may draw one number (`ledger-engine.ts:614`), concurrent
  `createAccount` calls give one code to two accounts (`:66`).
* The bonus of a liquidation is taken from what is locked behind other credits
  (`CollateralManager.sol:137`). A first default can raise the stored score from
  500 to 1000, the recalculation being on another scale
  (`CreditScoringOracle.sol:85`), and an imported score is not bounded (`:281`);
  `ScoreFollowsBehaviour` is therefore about the computed score.
* A batch's `netAmount` counts payouts that failed, its webhook says completed
  even if it failed, and `cancelDisbursement` answers true for a payout in
  flight: the queue is never filled. `/analytics` and `/health` are shadowed by
  `/:id` (`disbursement-routes.ts:26`).
* Partial refunds are each compared with the payment alone (`payments.ts:748`), and
  a payment can only be inserted if a `loans` row has the application's id. The
  owner of an application is refused its page (`loans.ts:71`).
* An approved provider can still be rejected (`admin-provider-onboarding-service.ts:190`): its margin stays active, its project in progress.
  `optimizeMarginConfiguration` changes the stored configuration, so a mere
  recommendation is charged; a minimum fee becomes a minimum percentage, which
  may exceed the maximum and then wins.
* Underwriting lists income, industry and country limits and checks none; every
  application scores 500 to 610 in the risk engine and is "medium"; two documents
  always score 100, an expired passport among them; offers are made for rejected
  assessments and may be below the provider's minimum.

Access and sessions

* An update in the last second stores a session without a ttl
  (`session-service.ts:138`). A validation that overlaps a destruction writes
  the session back (`:264`), hence `destroyed` has only the sessions that no
  other call had in hand. The ttl of the user's set is renewed by `createSession`
  alone (`:282`): it can expire before sessions that are in use, which the limit
  then does not count; `session_limit` stays within one tick.
  `enforceMaxSessions` removes members in the order of SMEMBERS (`:309`),
  perhaps the one just created, and `destroyUserSessions` deletes the set with
  sessions added meanwhile (`:188`).
* Refreshed tokens keep the role the old one had, and tokens of deleted,
  deactivated or demoted users stay valid, as do all tokens after a logout
  (`auth.ts:418`) or a new password. Two administrators can delete each
  other; only deleting oneself is prevented. Two changes of one password that
  overlap both check the old one, and the later one wins: `PasswordsHold` counts such
  users as `barred`, and so does a login that overlaps a change. Being staff is read
  off the token, hence `staffed` remembers who ever was.
* When Redis fails, requests pass the rate limiter. A bucket's refill is rounded
  down and the time counted as used (`rate-limiting-service.ts:175`).

Signals

* A hub connection that subscribed as two users stays under the first after it
  is gone (`websocket-server.ts:141`); nothing is ever sent to it.
* Scheduled notices over HTTP are rejected (a date in JSON is a string), drop the
  wish for mail or SMS, and fire at once if they are more than 24.8 days away.
* A rule that came in as JSON has no condition and makes `checkResolvedAlerts`
  throw, so that later alerts are never resolved; a removed rule's alerts stay
  active; the timer of a shorter silence ends a longer one.
* Any HTTP answer, even 500, is a passed health check; a check in flight puts
  back the health of a service that was unregistered (`health-monitor.ts:286`).
  `recordServiceCall` of the gateway marks every instance as not healthy while
  the service stays healthy.
* A failed message is scheduled for a retry, but it is not eligible
  for one, and no job looks at retries or queues.
* A resolved alert of the cache monitor stays in `activeAlerts`, so its rule never
  alerts again; while Redis is down the rules, "Redis Connection Lost" among
  them, are not evaluated; a fresh cache has hit rate 0 and is "degraded".
* On the notification page, `disconnect()` while the socket connects leads to a
  reconnection (`useNotifications.tsx:124`); `connect()` while an attempt waits
  leaves a second socket that `disconnect()` does not close; a default
  `channels = []` is new at each rendering, so each change reconnects.

Caches and clients

* Rules of invalidation look for keys of forms that no key has, or for tags
  nothing is filed under, and `SCAN` is not given the key prefix
  (`cache-invalidation-service.ts:208`): `KeyPrefix` is FALSE in the run, so that
  something is invalidated at all. A score's validity in hours is used as
  seconds, and a fraction makes the command fail (`credit-cache-service.ts:75`).
  Error responses are cached. `clearCache` deletes the metrics only.
* `cancelScheduledInvalidation` answers true while the invalidation is under way;
  delayed rules' timers survive their removal and `cleanup`. The stored statistics
  are parsed twice and so never read back.
* `CacheService` answers an error like absence, and ioredis sends a command again
  whose connection broke: a counter may be incremented twice, an item lost.
* The SDK's own limit surfaces as a TypeError (`http-client.ts:135`); an approval at
  the rate 0 is refused as if none were given; over the end of an hour twice the
  rate can be sent. `SMEAPIClient` retries everything, transfers and 4xx included.

Deployment

* `verify_deployment` splits endpoints at the wrong colon, so every check fails
  (`deploy.sh:299`); nothing is rolled back. A failing database test ends the
  script even with `--force` (`:136`). Failures at the other end of ssh are not
  seen. Exit 0 of `wait-for-health.sh` means that each service was healthy once.

## 4. Fairness

Only what the scheduling of Node or Redis gives, in the modules that state
liveness. A promise that is pending is
settled: `SerialSpec` of Repayment and Ledger has weak fairness on the next step
of a call in flight. The hub's heartbeat is a `setInterval`: weak fairness on
`heartbeat`. A Redis command is answered, if with an error, and time passes:
`LiveSpec` of the session store. Nothing is assumed of clients or providers, and
no run relies on a command to succeed in the end.

## 5. The theorems

All are proved by TLAPS with the backends Z3, Zenon and LS4, for any sets of
schedules, entries, users, channels and so on, finite or infinite but where an
assumption says otherwise, from the assumptions on constants that the modules
state and TLC evaluates: sentinels differ from ids; amounts, times, limits and what
engines are told are natural numbers; what is summed or counted over is finite
(`Users` and `CreditIds` of the contracts, `Sessions`, `StoreKeys` of a cache; lists of lines and
payouts are sequences). Nothing else is assumed; the one theorem about a
restricted use, the session limit, states its restriction (`Quiet`).

* **`RepaymentProofs`**. Type correctness, `PaidWasCharged`,
  `CompletedOnlyWhenAllCharged` and `RecordsMatchCharges` are not inductive: the
  stored schedule is overwritten by copies that calls hold. The invariant `IInv`
  therefore says of *every* copy, stored or held by a call, that its marks are
  charges (`StoredHonest`, `CallsHonest`), and of every charge that its
  call has got past the provider (`ChargedCalls`). `SerialRefinesIdeal` shows that
  without overlap initial states and steps map to `IdealRepayment`, from
  `SerialInv`, which adds that a call's copy is what is stored (`Alone`, `Fresh`).
  `PointersNameSetups` needs beside it that whatever a set-up is about to link has been
  stored (`SetupsStored`).
* **`LedgerProofs`**. `LInv` ties what a call holds to what is stored: the entry
  a reversal read has been posted and never changes its lines
  (`ReversalsHold`), a post in flight holds a draft (`PostsHold`), a call that is
  past saving has its entry stored (`CallsStored`). From it follow
  `ApprovalRespected`, `ReversedHasReversal`, `ReversalMirrorsOriginal` and
  `CompletedTransactionHasEntry`, under any interleaving. `EntriesAreBalanced` shows
  that what passed validation stays valid (`LinesValid`: accounts keep their codes) and
  that swapping debits and credits keeps a list valid (`MirrorIsValid`), since the
  balance is compared both ways. `SerialLedgerRefinesIdeal` maps calls kept apart to
  `IdealLedger`: `SerialInv` says who may be at which entry, so that a draft read is still
  a draft when it is written.
* **`WebSocketHubProofs`**. The exactness of the channel index and the
  completeness of the user index are inductive with the types (`Good`). They are
  stated of arbitrary values and not of the variables, since a handler drops
  connections from an intermediate state; a further conjunct says that no index
  knows a connection not yet made, so that a new session starts without users.
  `HubImplementsIdeal` proves `Spec => ImplementsIdeal`, every step mapping to a
  step or a stutter, for any clients that may vanish.
* **`SessionProofs`**. `StoreInv` says that calls and the set only know sessions that have
  been created, and that no call is about to write a session that was deleted while
  nobody else had it; `DestroyedStayGone` follows. The
  index and the limit hold for `Quiet` constants only (no time passes, nothing fails,
  sessions are created and destroyed and nothing else): the set's own ttl, a failed
  command and a session written back by `getSession` each break them, as section 3 says.
  `QuietInv` follows every session from SET to SADD and from DEL to SREM, what is written
  back behind a deletion included, and counts: a creation has still to look at the limit, or
  what no call will end (`Doomed`) is within it.
* **`CreditProofs`**. The contracts' books are sums: what is locked of a user's token is
  the sum of what that user's active credits lock (`LocksBackCredits`), what the contract
  holds is the sum of what it has booked (`ManagerStaysSolvent`), each step changing both
  sides by the same amount; they need that no amount runs below zero, which is
  `CreditTypeCorrect`. `HistoriesMatchCredits` does the same with the cardinalities of sets
  of settled credits and the oracle's counters, `CreditsSettleForGood` is an action
  property with the liquidation threshold, `SwapsNeverGain` is about two roundings in a row.
  `ScoresFollowBehaviour`: rounding down is monotone, so a payment on time raises its share of
  the payments, a default lowers it, a further default costs more, and the clamp
  keeps the order (`PenaltyMoves`, `ScoreMoves`). `BetterFareNoWorse` takes the engines part
  by part: a table of bands gives what a case distinction gives (`TwoBands` to
  `FiveBands`, for descending thresholds), each part is monotone, and so are weighted sums,
  roundings and caps of them; offers are compared by lender, each having at most one
  (`OffersMove`). `CompliantAreDocumented` counts points: a utility bill alone is worth
  enough, whatever else was shown.
* **`CustomerProofs`**. Each service has an invariant of its own that its steps keep
  (`OnboardingInv`, `CollectionsInv`, `DeliveryInv`, `DisbursementInv`, `UsersInv`,
  `AdminInv`, `UploadsInv`), and the steps of the others leave it alone. Those of the services that
  save whole documents say that, unless it was contested, a document is as its last request
  left it, every copy held differs from it by what its request will change, and only one
  request holds one; the routes' relate rows to what was read of
  them a statement earlier; `SecretsInv` adds that whoever is changing a password has shown
  the one in force unless it was changed meanwhile, and that a token of the staff, a login
  as staff and an answer about others each come from a row that once said so. A job's invariant says how far it is (`Progress`) and that
  its answer accounts for each payout before that place (`Accounted`), so that totals
  are sums over a prefix. `BoundsHold` is arithmetic: what a validated margin
  charges lies within its bounds through each rounding and each rule, by induction over the
  list of rules of the recursive function that applies them.
* **`PlatformProofs`**. `LoansInv` ties what a handler read
  in one statement to the rows it meets in a later one (`HeldRows`), and says that the
  rows' references exist (`References`). `RefundedOnce` counts rows, so `RefundsAlone`
  counts what is on its way as well: of a payment that is not excused there is at
  most one refund, stored or about to be, and none on its way once there is one.
  In the monitor, `Counted` says of a number of failures and
  a history which results they are, so that it can be followed through appending
  and dropping the oldest; `ChecksAreWatched` covers the checks still in flight.
  In the registry, news of one service touches the instances of that service
  alone because ids name their service (`IdsAreOwn`), and instances added before it is
  registered are vouched for (`AddedAreVouched`). In the scripts, what has arrived is
  tied to the step (`ArrivedByStep`) and what is new on the server to what has arrived
  (`NewWhenArrived`), since a script that fails leaves both; `WaitInv` keeps the
  service being looked at out of both lists.
  `LimiterInv` is two sums: what passed a window is covered by what the window holds
  (`Covers`), and a bucket's tokens with those it granted by what it has earned since it was
  opened, rounded down at each refill (`BucketHonest`). `CacheInv` says of every score and rating on its
  way to the cache, and not only of those in it, that it is current or old for a named reason,
  and of an application that it is indexed or that whoever cached it last will index it
  (`Found`). `StoreInv` has an item in one place or handed over once (`ItemFine`), unless a
  command was executed twice, and the counter between what was answered and what may have been
  executed besides (`CounterFine`). `InvalidationInv` says what each state of a schedule allows,
  `ApiInv` that while a call is under way each attempt was executed at most once and
  none of its answers was heard (`CallerFine`). `BusInv` has the store as the end of all that
  was published, through listeners that throw; `MonitoringInv` ties alerts to the verdict of
  the last check of their rule, whichever check that was.
  `AlertsInv` says that the sample an alert names lies in the window of that alert and that the
  pair's last alert is no earlier, so that a cooldown no shorter than the window separates two of
  them, and that an undisturbed silence has one timer, which rings when the silence ends
  (`SilencesFine`). `PanelInv` is the discipline of the page's sockets while nothing overlaps
  (`Calm`): one socket at most lives, it is the present one, an attempt waits only without
  one and is the one the timer stands for, and after `disconnect` neither is left;
  `LatestOfMore` is the arithmetic of a list cut to its latest.
  As the parts leave each other's state alone, `RowsAlwaysStayTogether`, `HealthIsAlwaysFounded`,
  `CachesAreAlwaysFaithful`, `SignalsAreAlwaysTrue` and `PlatformIsTyped` lift all this to the composition.
  For `CacheStore` the proof did not go through at first: the two branches of the fetcher's `CASE`
  could both hold, and TLC had always taken the first; they exclude each other now.
* **`Sums`**. The library's induction theorems take operators, which no installed prover can
  instantiate. Induction over the natural numbers is therefore derived for *sets*
  (`NatSetInduction`, from the well-foundedness of `<`), and so is that the
  recursive function behind the community modules' sums has a value whatever
  `CHOOSE` takes first. `SumAdds`, `SumMoves` and `SumOfSums` say how a sum changes
  when a term changes, moves or is split; `DivFacts`, `DivMax` and `DivGrows` what `\div` does.

Every invariant that a run checks, and every action property, is stated by one of these theorems.
Only model-checked: liveness (`CallsReturn`, `VanishedIsDropped`) and `ENABLED`, out of the
provers' reach. The refinements of `IdealRepayment` and
`IdealLedger` are proved step by step; that they also implement the ideal's liveness is checked.

## 6. What is left out, and the plan

Of the modelled parts: payment amounts and reminders in Repayment
(`findScheduledPayment` is a stub), the addresses and weights that the
contracts' owner sets and nothing modelled reads, rejected WebSocket messages,
session statistics (stubs), a session store with `extendOnAccess` switched off
(it is on by default), the page's subscription messages, the proxy the gateway
configures, Redis sets and hashes (like values and counters, but for the resent
command that comes after its inverse). The documents' other fields decide nothing.

### Not modelled

* **Credit providers and lead distribution**: the repositories and services
  they call (`LeadRepository`, `WebhookService`, `NotificationService`) are stubs
  that lack the methods called, rows are parsed twice, and the schema lacks columns
  the queries name: no call gets as far as changing something.
* **Authentication service**: session storage, the check of credentials, second
  factors, API keys and rate checks are stubs that return constants; nothing is
  kept. Who may do what in the API is in `UserRoutes`.
* **Kafka service and event publication**: a thin layer over kafkajs. Handler
  errors are caught, so nothing is redelivered.
* **Metrics and dashboards**: aggregation and formatting of numbers.
* **User interfaces, GraphQL gateway, configuration**: rendering, schemas and
  values; `k8s/deploy.sh` and the backup script are sequences of single commands.

### Next

1. Liveness of the parts whose timers the code keeps running: alerts that are
   resolved, silences that end, services that are looked at again.
