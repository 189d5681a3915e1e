--------------------------- MODULE PlatformServices ----------------------------
(***************************************************************************)
(* What the platform runs on, side by side: the rows of loans and payments *)
(* behind the API, the event bus, metrics and alerts, health checks, the   *)
(* gateway's registry, rate limits and caches; around it the clients of    *)
(* its APIs, the page that shows notifications, and its deployment.  They  *)
(* have no state in common, so a behaviour is one of one part.             *)
(***************************************************************************)
EXTENDS LoanRoutes, EventBus, AlertManager, HealthMonitor, ServiceRegistry, RateLimiter, ResponseCache,
        CacheStore, CacheMonitoring, CacheInvalidation, ApiClients, NotificationPanel, Deployment

VARIABLE part     \* whose behaviour it is

ServiceParts == {"loans", "bus", "alerts", "measures", "health", "registry"}
LibraryParts == {"window", "bucket", "responses", "scores", "applications", "values", "counters",
                 "connections", "cache checks", "invalidations", "schedules"}
OutsideParts == {"sdk", "page", "list", "deployment", "waiting"}

Only(name) == part = name /\ UNCHANGED part
PlatformVars == <<part, LoansVars, EventBusVars, AlertVars, HealthVars, RegistryVars, LimiterVars, CacheVars,
                  StoreVars, MonitoringVars, InvalidationVars, ApiVars, PanelVars, DeploymentVars>>
PlatformInit ==
    /\ part \in ServiceParts \union LibraryParts \union OutsideParts
    /\ LoansInit /\ EventBusInit /\ AlertsInit /\ HealthInit /\ RegistryInit /\ LimiterInit /\ CacheInit
    /\ StoreInit /\ MonitoringInit /\ InvalidationInit /\ ApiInit /\ PanelInit /\ DeploymentInit
\* The caches' libraries, and the rest of the platform.
UnchangedLibraries == UNCHANGED <<LimiterVars, CacheVars, StoreVars, MonitoringVars, InvalidationVars>>
UnchangedOutside == UNCHANGED <<ApiVars, PanelVars, DeploymentVars>>
UnchangedServices == UNCHANGED <<LoansVars, EventBusVars, AlertVars, HealthVars, RegistryVars>>
PlatformNext ==
    \/ /\ part \in ServiceParts /\ UnchangedLibraries /\ UnchangedOutside
       /\ \/ Only("loans") /\ LoansNext /\ UNCHANGED <<EventBusVars, AlertVars, HealthVars, RegistryVars>>
          \/ Only("bus") /\ EventBusNext /\ UNCHANGED <<LoansVars, AlertVars, HealthVars, RegistryVars>>
          \/ Only("alerts") /\ AlertsNext /\ UNCHANGED <<LoansVars, EventBusVars, HealthVars, RegistryVars>>
          \/ Only("measures") /\ MeasuresNext /\ UNCHANGED <<LoansVars, EventBusVars, HealthVars, RegistryVars>>
          \/ Only("health") /\ HealthNext /\ UNCHANGED <<LoansVars, EventBusVars, AlertVars, RegistryVars>>
          \/ Only("registry") /\ RegistryNext /\ UNCHANGED <<LoansVars, EventBusVars, AlertVars, HealthVars>>
    \/ /\ part \in LibraryParts /\ UnchangedServices /\ UnchangedOutside
       /\ \/ Only("window") /\ LimiterNext /\ UNCHANGED <<CacheVars, StoreVars, MonitoringVars, InvalidationVars>>
          \/ Only("bucket") /\ BucketNext /\ UNCHANGED <<CacheVars, StoreVars, MonitoringVars, InvalidationVars>>
          \/ Only("responses") /\ ResponsesNext /\ UNCHANGED <<LimiterVars, StoreVars, MonitoringVars, InvalidationVars>>
          \/ Only("scores") /\ ScoresNext /\ UNCHANGED <<LimiterVars, StoreVars, MonitoringVars, InvalidationVars>>
          \/ Only("applications") /\ ApplicationsNext
             /\ UNCHANGED <<LimiterVars, StoreVars, MonitoringVars, InvalidationVars>>
          \/ Only("values") /\ ValuesNext /\ UNCHANGED <<LimiterVars, CacheVars, MonitoringVars, InvalidationVars>>
          \/ Only("counters") /\ CountersNext /\ UNCHANGED <<LimiterVars, CacheVars, MonitoringVars, InvalidationVars>>
          \/ Only("connections") /\ ClientNext /\ UNCHANGED <<LimiterVars, CacheVars, StoreVars, InvalidationVars>>
          \/ Only("cache checks") /\ MonitoringNext /\ UNCHANGED <<LimiterVars, CacheVars, StoreVars, InvalidationVars>>
          \/ Only("invalidations") /\ InvalidationsNext /\ UNCHANGED <<LimiterVars, CacheVars, StoreVars, MonitoringVars>>
          \/ Only("schedules") /\ SchedulesNext /\ UNCHANGED <<LimiterVars, CacheVars, StoreVars, MonitoringVars>>
    \/ /\ part \in OutsideParts /\ UnchangedLibraries /\ UnchangedServices
       /\ \/ Only("sdk") /\ ApiNext /\ UNCHANGED <<PanelVars, DeploymentVars>>
          \/ Only("page") /\ ConnectionNext /\ UNCHANGED <<ApiVars, DeploymentVars>>
          \/ Only("list") /\ ListNext /\ UNCHANGED <<ApiVars, DeploymentVars>>
          \/ Only("deployment") /\ DeploymentNext /\ UNCHANGED <<ApiVars, PanelVars>>
          \/ Only("waiting") /\ WaitNext /\ UNCHANGED <<ApiVars, PanelVars>>
PlatformSpec == PlatformInit /\ [][PlatformNext]_PlatformVars

-----------------------------------------------------------------------------
\* getCooldownPeriod.
SmallCooldown == [s \in Severities |-> IF s = "critical" THEN 2 ELSE 3]

\* deploy_services starts the services in stages.
TwoStages == <<Priority, Images \ Priority>>

\* Bound: one payment, which the other payment rows refund.
OnePayment ==
    \A p, q \in PaymentIds :
        /\ OnRecord(paymentRows[p]) /\ paymentRows[p].of = "none"
        /\ OnRecord(paymentRows[q]) /\ paymentRows[q].of = "none"
        => p = q
\* Bound: one rule object is updated, or silenced again while silent; one cached value is out of
\* date by an overlap or a failure; one alert of the caches is not saved as it was raised.
OneException == Cardinality(disturbed) <= 1 /\ Cardinality(outdated) <= 1 /\ Cardinality(unsaved) <= 1

-----------------------------------------------------------------------------
\* Every part's state is of the types its source declares.
PlatformTypeOK ==
    /\ LoansTypeOK /\ EventBusTypeOK /\ AlertsTypeOK /\ HealthTypeOK /\ RegistryTypeOK
    /\ LimiterTypeOK /\ CacheTypeOK /\ StoreTypeOK /\ MonitoringTypeOK /\ InvalidationTypeOK
    /\ ApiTypeOK /\ PanelTypeOK /\ DeploymentTypeOK

\* Rows refer to each other without a transaction around a handler's statements: payments and
\* refunds keep their application, which is deleted only when idle, and money goes back once.
RowsStayTogether == DeletedWasIdle /\ PaymentsKeepTheirLoan /\ RefundedOnce

\* Whoever listens or is paged hears what happened, when it is time and once: events and
\* scheduled notices, alerts and silences, measures, what the caches' monitor tells, what a
\* client of an API is answered, and what a page shows of its connection and its notifications.
SignalsAreTrue ==
    /\ EventsAreKept /\ ScheduledOnTime /\ SampleRaisesOnce /\ SilenceHolds /\ MeasuresAreKept
    /\ ReadyWhenReady /\ AlertsFollowVerdicts /\ SavedAsRaised
    /\ RepeatsWereUnheard /\ ConnectedIsOpen /\ QuietAfterDisconnect /\ GivesUpInTime /\ LatestAreKept

\* What is believed of a service's health rests on checks of it that ended, however they overlap
\* and whatever is registered meanwhile, and so does what a deployment reports.
HealthIsFounded ==
    FailuresAreCounted /\ OnlyWatchedCount /\ HealthyOnGoodNews /\ NothingRenewedInPart /\ HealthyWasSeen

\* However calls interleave, time passes and Redis fails, limits hold, what the caches answer is
\* current and the asker's own, what they count adds up, and a cancelled invalidation never runs,
\* with the exceptions each part names.
CachesAreFaithful ==
    /\ WindowLimit /\ TokensAreEarned /\ OwnRateKept
    /\ ResponsesKeepTheirUser /\ StaleOnlyByOverlap /\ RatedTogether /\ FoundByStatus
    /\ OldOnlyByOverlap /\ RateIsCurrent /\ IncrementsAreKept /\ HandedOverOnce
    /\ CancelledNeverRuns /\ WaitingIsPending /\ StatsAddUp
=============================================================================
