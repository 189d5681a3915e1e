----------------------------- MODULE ProviderAdmin -----------------------------
(***************************************************************************)
(* services/admin-provider-management: the onboarding of credit providers  *)
(* by administrators, the integration project and the margin that follow   *)
(* an approval, service requests, custom integrations and deployments.     *)
(* Everything is in memory.  A call is a sequence of microtasks: what      *)
(* another call can come between is the search for the email address and   *)
(* the creation, if both calls begin in the same turn of the event loop,   *)
(* the ping of a new endpoint and the two seconds of a deployment.  A      *)
(* provider and its onboarding are created together and share an id here.  *)
(***************************************************************************)
EXTENDS Requests, Margins

CONSTANTS
    Lenders,          \* the credit providers
    ProviderEmails,
    Submissions,      \* what is said of a provider that is onboarded
    MarginUpdates,    \* configurations that administrators enter
    LeadAmounts,      \* amounts whose margin is looked at
    MaxActions,       \* bounds adminActionLogs
    MaxWork           \* bounds service requests and deployments that engineers are given

\* What the types of a submission and of a margin configuration allow; a percentage that
\* is not given is 0.
ASSUME AdminAssumption ==
    /\ Submissions \subseteq
           [support : BOOLEAN, complexity : {"simple", "moderate", "complex"}, dedicated : BOOLEAN,
            readiness : {"ready", "partial", "none"}, weeks : Nat,
            structure : {"per_lead", "percentage", "hybrid"}, percentage : Nat, minimumFee : Nat]
    /\ MarginUpdates \subseteq MarginConfig
    /\ LeadAmounts \subseteq Nat

VARIABLES
    onboardings,      \* onboardings and providers, which hold the same records
    integrations,     \* integrationConfigs
    margins,          \* marginConfigs
    serviceRequests,
    adminLog,         \* adminActionLogs
    mails,            \* notificationQueue; a mail without recipients is not sent anywhere
    adminCalls,       \* the call each client is in
    customIntegrations, deployments, providerAPIs,
    recordedScore,    \* the score that getProviderPerformance makes up and keeps
    lookedForTwice,       \* history: emails two creations looked for at once
    unchecked         \* history: providers whose margin nobody validated

AdminVars == <<onboardings, integrations, margins, serviceRequests, adminLog, mails, adminCalls,
               customIntegrations, deployments, providerAPIs, recordedScore, lookedForTwice, unchecked>>
Work == <<customIntegrations, deployments, providerAPIs>>

NoConfig == [status |-> "none"]
NoMargin == [type |-> "none"]
OnboardingStates == {"pending_review", "approved", "rejected", "suspended"}
RequestTypes == {"api_integration", "webhook_setup", "data_mapping", "custom_development",
                 "troubleshooting", "performance_optimization", "compliance_setup"}
Onboarded(p) == onboardings[p] # NoConfig
ProviderRecord == [email : ProviderEmails, status : OnboardingStates, is : Submissions]
Undefined == "undefined"

Engineer(id, role, expertise, workload, maximum) ==
    [id |-> id, role |-> role, expertise |-> expertise, workload |-> workload, maximum |-> maximum]
Engineers == <<
    Engineer("alice", "senior", {"api_integration", "customer_service", "custom_development"}, 2, 5),
    Engineer("bob", "mid", {"api_integration", "webhook_setup", "testing_support"}, 3, 5),
    Engineer("carol", "junior", {"data_mapping", "testing_support", "go_live_support"}, 1, 4)>>
\* By their places in the list; find takes the first.
getAvailableEngineers == {i \in DOMAIN Engineers : Engineers[i].workload < Engineers[i].maximum}
Found(places) == Engineers[CHOOSE i \in places : \A j \in places : i <= j].id

AdminInit ==
    /\ onboardings = [p \in Lenders |-> NoConfig] /\ integrations = [p \in Lenders |-> NoConfig]
    /\ margins = [p \in Lenders |-> NoMargin] /\ serviceRequests = <<>> /\ adminLog = <<>> /\ mails = <<>>
    /\ adminCalls = [k \in Clients |-> Resting] /\ recordedScore = [p \in Lenders |-> NoScore]
    /\ customIntegrations = {} /\ deployments = <<>> /\ providerAPIs = {}
    /\ lookedForTwice = {} /\ unchecked = {}

-----------------------------------------------------------------------------
\* What the steps of calls are made of.
Log(p, action) == Append(adminLog, [of |-> p, action |-> action])
logAdminAction(p, action) == adminLog' = Log(p, action) /\ Len(adminLog') <= MaxActions
updateOnboardingStatus(p, status) == onboardings' = [onboardings EXCEPT ![p].status = status]
activateMarginConfiguration(p) ==
    margins' = IF margins[p] = NoMargin THEN margins ELSE [margins EXCEPT ![p].active = TRUE]

\* The mails that NotificationService sends.  A mail is sent by the time it is queued: the channels
\* are loggers.
Mail(type, p, to) == [type |-> type, of |-> p, to |-> to]
Send(sent) == mails' = mails \o sent
OnboardingMail(p) == <<Mail("provider_onboarding", p, "admin")>>
ApprovalMail(p) == <<Mail("provider_approved", p, "provider")>>
RejectionMail(p) == <<Mail("provider_rejected", p, "provider")>>
ServiceRequestMail(p, engineer) == <<Mail("service_request", p, engineer)>>
MarginMail(p) == <<Mail("margin_updated", p, "nobody")>>
ProjectMails(p, team) == [i \in DOMAIN team |-> Mail("integration_project", p, team[i])]
CustomIntegrationMail(p) == <<Mail("custom_integration", p, "nobody")>>
APISetupMail(p) == <<Mail("api_setup_completed", p, "nobody")>>
DeploymentMail == <<Mail("deployment_completed", "integration", "nobody")>>

CallBegins(k, call) == adminCalls[k] = Resting /\ adminCalls' = [adminCalls EXCEPT ![k] = call]
CallEnds(k) == adminCalls' = [adminCalls EXCEPT ![k] = Resting]
ServiceRequest(p, kind, engineer, hours, cost) ==
    [of |-> p, kind |-> kind, engineer |-> engineer, hours |-> hours, cost |-> cost]

ServiceLevel(is) ==
    IF is.complexity = "complex" \/ is.dedicated THEN "premium"
    ELSE IF is.complexity = "moderate" THEN "standard" ELSE "basic"
IntegrationCosts(is) ==
    LET setup == CASE is.complexity = "complex" -> 7500 [] is.complexity = "moderate" -> 5000 [] OTHER -> 2500
        custom == CASE is.complexity = "complex" -> 5000 [] is.complexity = "moderate" -> 2500 [] OTHER -> 0
        monthly == IF is.dedicated THEN 1500 ELSE 0
    IN [setup |-> setup, monthly |-> monthly, custom |-> custom, total |-> setup + custom + monthly * 12]
IntegrationConfig(is) ==
    [level |-> ServiceLevel(is), costs |-> IntegrationCosts(is), apiDevelopment |-> is.readiness = "none",
     maintenance |-> is.dedicated, weeks |-> is.weeks, status |-> "pending"]
\* The minimum is a fee and the margin a percentage; the maximum is always 25 %.
InitialMargin(is) ==
    [type |-> IF is.structure = "percentage" THEN "fixed_percentage" ELSE "tiered",
     base |-> OrElse(is.percentage, Percent(5)), tiers |-> <<>>, multipliers |-> NoMultipliers,
     minimum |-> is.minimumFee, maximum |-> Percent(25), rules |-> <<>>, active |-> FALSE]

\* The first senior who knows APIs and is not too busy, and for premium service another who
\* knows customers.  Only the first engineer does, so there never is another.
assignIntegrationTeam(level) ==
    LET Knows(i, work) == work \in Engineers[i].expertise
        leads == {i \in getAvailableEngineers :
                      Engineers[i].role = "senior" /\ Knows(i, "api_integration") /\ Engineers[i].workload < 3}
        others == {i \in getAvailableEngineers :
                       /\ leads # {} => Engineers[i].id # Found(leads)
                       /\ Knows(i, "customer_service") /\ Engineers[i].workload < 4}
    IN (IF leads = {} THEN <<>> ELSE <<Found(leads)>>)
       \o (IF level = "premium" /\ others # {} THEN <<Found(others)>> ELSE <<>>)

\* Requirements Analysis, API Development, Testing & Validation and Go Live.
MilestoneKinds == <<"api_integration", "custom_development", "testing_support", "go_live_support">>
MilestoneHours == <<16, 80, 32, 16>>
MilestoneCosts == <<2000, 10000, 4000, 2000>>
MilestoneRequests(p, team) ==
    [i \in 1..4 |-> ServiceRequest(p, MilestoneKinds[i], IF team = <<>> THEN Undefined ELSE team[1],
                                   MilestoneHours[i], MilestoneCosts[i])]

\* Whoever knows this kind of work and has less than five things to do, else the first.
\* Nobody's workload is ever updated.
assignEnginner(kind) ==
    LET able == {i \in getAvailableEngineers : kind \in Engineers[i].expertise /\ Engineers[i].workload < 5}
    IN IF able # {} THEN Found(able)
       ELSE IF getAvailableEngineers = {} THEN Undefined ELSE Found(getAvailableEngineers)

-----------------------------------------------------------------------------
\* AdminProviderOnboardingService.
InUse(email) == \E p \in Lenders : Onboarded(p) /\ onboardings[p].email = email

findByEmail(k, email, is) ==
    /\ ~InUse(email) /\ CallBegins(k, [pc |-> "createProvider", email |-> email, is |-> is])
    /\ lookedForTwice' = IF \E other \in Clients : /\ adminCalls[other].pc = "createProvider"
                                               /\ adminCalls[other].email = email
                     THEN lookedForTwice \union {email} ELSE lookedForTwice
    /\ UNCHANGED <<onboardings, integrations, margins, serviceRequests, adminLog, mails, Work,
                   recordedScore, unchecked>>
createProviderOnboarding(k, p) ==
    LET call == adminCalls[k] IN
    /\ call.pc = "createProvider" /\ ~Onboarded(p) /\ CallEnds(k)
    /\ onboardings' = [onboardings EXCEPT ![p] = [email |-> call.email, status |-> "pending_review", is |-> call.is]]
    /\ integrations' = IF call.is.support THEN [integrations EXCEPT ![p] = IntegrationConfig(call.is)]
                       ELSE integrations
    /\ margins' = [margins EXCEPT ![p] = InitialMargin(call.is)] /\ unchecked' = unchecked \union {p}
    /\ logAdminAction(p, "provider_created") /\ Send(OnboardingMail(p))
    /\ UNCHANGED <<serviceRequests, Work, recordedScore, lookedForTwice>>

\* The project that an approval begins, if support was asked for.
initiateIntegrationProject(p) ==
    LET team == assignIntegrationTeam(integrations[p].level) IN
    /\ integrations[p] # NoConfig /\ integrations' = [integrations EXCEPT ![p].status = "in_progress"]
    /\ serviceRequests' = serviceRequests \o MilestoneRequests(p, team)
    /\ Send(ProjectMails(p, team) \o ApprovalMail(p))
Approve(p) ==
    /\ updateOnboardingStatus(p, "approved")
    /\ IF onboardings[p].is.support THEN initiateIntegrationProject(p)
       ELSE /\ Send(ApprovalMail(p)) /\ UNCHANGED <<integrations, serviceRequests>>
    /\ activateMarginConfiguration(p)
    /\ logAdminAction(p, "provider_approved")
    /\ UNCHANGED <<adminCalls, Work, recordedScore, lookedForTwice, unchecked>>

\* Faulty variant: also whoever was rejected, or approved before.
approveAnyOnboarding(p) == Onboarded(p) /\ Approve(p)

approveProviderOnboarding(p) == Onboarded(p) /\ onboardings[p].status = "pending_review" /\ Approve(p)

\* Whatever the status was; the margin and the project of an approved provider stay as they are.
rejectProviderOnboarding(p) ==
    /\ Onboarded(p) /\ updateOnboardingStatus(p, "rejected")
    /\ logAdminAction(p, "provider_rejected") /\ Send(RejectionMail(p))
    /\ UNCHANGED <<integrations, margins, serviceRequests, adminCalls, Work, recordedScore, lookedForTwice, unchecked>>

\* Nobody asks whether there is such a provider.
createCustomerServiceRequest(p, kind) ==
    LET engineer == assignEnginner(kind) IN
    /\ serviceRequests' = Append(serviceRequests, ServiceRequest(p, kind, engineer, 0, 0))
    /\ Send(ServiceRequestMail(p, engineer)) /\ logAdminAction(p, "service_request_created")
    /\ UNCHANGED <<onboardings, integrations, margins, adminCalls, Work, recordedScore, lookedForTwice, unchecked>>

\* Through the onboarding service, which tells the provider, or the margin service, which validates.
PutMargin(p, config) ==
    /\ margins' = [margins EXCEPT ![p] = [config EXCEPT !.active =
                       IF margins[p] = NoMargin THEN FALSE ELSE margins[p].active]]
    /\ logAdminAction(p, "margin_updated")
    /\ UNCHANGED <<onboardings, integrations, serviceRequests, adminCalls, Work, recordedScore, lookedForTwice>>
updateMarginConfiguration(p, config) ==
    /\ PutMargin(p, config) /\ unchecked' = unchecked \union {p}
    /\ Send(MarginMail(p))
updateValidatedMargin(p, config) ==
    /\ validateMarginConfiguration(config) /\ PutMargin(p, config)
    /\ unchecked' = unchecked \ {p} /\ UNCHANGED mails

\* The made-up performance is kept from the first call on.
getProviderPerformance(p) == recordedScore' = [recordedScore EXCEPT ![p] = 78]

\* The recommendation shares its margin structure with the stored configuration, which is
\* thereby changed; the impact compares the structure with itself, so it is always 0.
optimizeMarginConfiguration(p, goal) ==
    /\ margins[p] # NoMargin /\ margins' = [margins EXCEPT ![p].base = OptimizedBase(margins[p], goal)]
    /\ getProviderPerformance(p)
    /\ UNCHANGED <<onboardings, integrations, serviceRequests, adminLog, mails, adminCalls, Work,
                   lookedForTwice, unchecked>>

-----------------------------------------------------------------------------
\* IntegrationService.  In half points: mappings, authentication, format, own logic, webhooks.
assessIntegrationComplexity(spec) ==
    LET points == spec.mappings
                  + (CASE spec.auth = "oauth" -> 6 [] spec.auth = "jwt" -> 4 [] OTHER -> 2)
                  + (CASE spec.format = "xml" -> 4 [] spec.format = "csv" -> 3 [] OTHER -> 0)
                  + (IF spec.logic THEN 10 ELSE 0) + spec.webhooks * 3
    IN IF points <= 10 THEN "simple" ELSE IF points <= 30 THEN "moderate" ELSE "complex"
DeliveryWeeks(spec) ==
    CASE assessIntegrationComplexity(spec) = "complex" -> 6
      [] assessIntegrationComplexity(spec) = "moderate" -> 4 [] OTHER -> 2
Spec(mappings, auth, format, logic, webhooks) ==
    [mappings |-> mappings, auth |-> auth, format |-> format, logic |-> logic, webhooks |-> webhooks]
IntegrationSpecs == {Spec(2, "api_key", "json", FALSE, 0), Spec(8, "oauth", "xml", TRUE, 3)}

CustomRequest(p) == ServiceRequest(p, "custom_development", Undefined, 40, 8000)

\* The endpoint may not answer: then it is not ready yet, which is no error.
validateIntegrationSpec(k, p, spec) ==
    /\ CallBegins(k, [pc |-> "ping", of |-> p, spec |-> spec])
    /\ UNCHANGED <<onboardings, integrations, margins, serviceRequests, adminLog, mails, Work,
                   recordedScore, lookedForTwice, unchecked>>
createCustomIntegration(k) ==
    LET call == adminCalls[k]
        custom == [of |-> call.of, weeks |-> DeliveryWeeks(call.spec), status |-> "development"]
    IN /\ call.pc = "ping" /\ CallEnds(k) /\ customIntegrations' = customIntegrations \union {custom}
       /\ serviceRequests' = Append(serviceRequests, CustomRequest(call.of))
       /\ Send(CustomIntegrationMail(call.of))
       /\ UNCHANGED <<onboardings, integrations, margins, adminLog, deployments, providerAPIs,
                      recordedScore, lookedForTwice, unchecked>>

\* A second set-up replaces the keys of the first.
setupProviderAPI(p) ==
    /\ providerAPIs' = providerAPIs \union {p} /\ Send(APISetupMail(p))
    /\ UNCHANGED <<onboardings, integrations, margins, serviceRequests, adminLog, adminCalls,
                   customIntegrations, deployments, recordedScore, lookedForTwice, unchecked>>

\* Timers of equal length fire in the order they were set.
deployIntegrationUpdate(compatible) ==
    /\ deployments' = Append(deployments, [compatible |-> compatible, status |-> "deploying"])
    /\ UNCHANGED <<onboardings, integrations, margins, serviceRequests, adminLog, mails, adminCalls,
                   customIntegrations, providerAPIs, recordedScore, lookedForTwice, unchecked>>
executeDeployment(i) ==
    /\ deployments[i].status = "deploying" /\ \A j \in 1..(i - 1) : deployments[j].status # "deploying"
    /\ deployments' = [deployments EXCEPT ![i].status = "completed"]
    /\ Send(DeploymentMail)
    /\ UNCHANGED <<onboardings, integrations, margins, serviceRequests, adminLog, adminCalls,
                   customIntegrations, providerAPIs, recordedScore, lookedForTwice, unchecked>>

clearNotificationQueue ==
    /\ mails' = <<>>
    /\ UNCHANGED <<onboardings, integrations, margins, serviceRequests, adminLog, adminCalls, Work,
                   recordedScore, lookedForTwice, unchecked>>

\* What a check of an endpoint says: it is up, answers after two seconds, refuses or times out.
EndpointStates == {"up", "slow", "down", "timed out"}
\* Of no endpoints none is up, and 0 / 0 is no percentage: no comparison holds.  An integration
\* is never given endpoints.
calculateOverallHealth(states) ==
    LET up == Cardinality({i \in DOMAIN states : states[i] = "up"}) IN
    IF states # <<>> /\ up * 10 >= 9 * Len(states) THEN "healthy"
    ELSE IF states # <<>> /\ up * 10 >= 7 * Len(states) THEN "degraded" ELSE "unhealthy"
generateHealthRecommendations(states) ==
    (IF \E i \in DOMAIN states : states[i] \in {"slow", "timed out"} THEN {"optimize"} ELSE {})
    \union (IF \E i \in DOMAIN states : states[i] \in {"down", "timed out"} THEN {"attend to"} ELSE {})
monitorIntegrationHealth(states) ==
    [overall |-> calculateOverallHealth(states), advice |-> generateHealthRecommendations(states)]

\* The onboarding of providers, their margins, and the work of the engineers.
Creations ==
    \E k \in Clients : \/ \E email \in ProviderEmails, is \in Submissions : findByEmail(k, email, is)
                       \/ \E p \in Lenders : createProviderOnboarding(k, p)
Decides(p) == approveProviderOnboarding(p) \/ rejectProviderOnboarding(p)
OnboardingsNext == Creations \/ (\E p \in Lenders : Decides(p)) \/ clearNotificationQueue
MarginsNext ==
    \/ Creations
    \/ \E p \in Lenders :
        \/ approveProviderOnboarding(p)
        \/ \E config \in MarginUpdates : updateMarginConfiguration(p, config) \/ updateValidatedMargin(p, config)
        \/ \E goal \in {0, Percent(40)} : optimizeMarginConfiguration(p, goal)
EngineeringNext ==
    \/ \E k \in Clients : \/ \E p \in Lenders, spec \in IntegrationSpecs : validateIntegrationSpec(k, p, spec)
                          \/ createCustomIntegration(k)
    \/ \E p \in Lenders : \/ setupProviderAPI(p)
                            \/ \E kind \in RequestTypes : createCustomerServiceRequest(p, kind)
    \/ \E compatible \in BOOLEAN : Len(deployments) < MaxWork /\ deployIntegrationUpdate(compatible)
    \/ \E i \in DOMAIN deployments : executeDeployment(i)
\* Bounds: one provider's margin, and a few things for the engineers to do.
OneMargin == Cardinality({p \in Lenders : margins[p] # NoMargin}) <= 1
LittleWork == Len(serviceRequests) <= MaxWork /\ Len(mails) <= MaxWork
AdminNext == OnboardingsNext \/ MarginsNext \/ EngineeringNext
AdminSpec == AdminInit /\ [][AdminNext]_AdminVars

-----------------------------------------------------------------------------
Entries(p, action) == {i \in DOMAIN adminLog : adminLog[i] = [of |-> p, action |-> action]}
EverApproved(p) == Entries(p, "provider_approved") # {}
Decisions == {"provider_approved", "provider_rejected"}
LastOf(positions) == CHOOSE i \in positions : \A j \in positions : j <= i

\* Records are of the types of types/admin-provider-management.ts.
AdminTypeOK ==
    /\ \A p \in Lenders : Onboarded(p) => onboardings[p] \in ProviderRecord
    /\ \A p \in Lenders : margins[p] # NoMargin => margins[p] \in MarginConfig
    /\ \A p \in Lenders : integrations[p] # NoConfig => integrations[p].status \in {"pending", "in_progress"}
    /\ \A i \in DOMAIN deployments : deployments[i].status \in {"deploying", "completed"}

\* However decisions follow each other, an approval happens once and all that follows from it
\* once: the project begins, its four milestones are given to an engineer, the margin is active.
ApprovalHappensOnce ==
    \A p \in Lenders :
        LET begun == EverApproved(p) /\ onboardings[p].is.support
            milestones == {i \in DOMAIN serviceRequests :
                              /\ serviceRequests[i].of = p /\ serviceRequests[i].hours > 0
                              /\ serviceRequests[i].cost < 12000 /\ serviceRequests[i].engineer = "alice"}
        IN /\ Cardinality(Entries(p, "provider_approved")) <= 1
           /\ Cardinality(milestones) = IF begun THEN 4 ELSE 0
           /\ integrations[p] # NoConfig => (integrations[p].status = "in_progress" <=> begun)
           /\ margins[p] # NoMargin /\ Onboarded(p) => (margins[p].active <=> EverApproved(p))

\* What the administrators' log and the last mail to a provider say was decided is its status.
DecisionsAreTold ==
    \A p \in Lenders :
        LET logged == Entries(p, "provider_approved") \union Entries(p, "provider_rejected")
            told == {i \in DOMAIN mails : mails[i].of = p /\ mails[i].type \in Decisions}
        IN Onboarded(p) =>
           /\ logged # {} => (adminLog[LastOf(logged)].action = "provider_approved" <=> onboardings[p].status = "approved")
           /\ told # {} => (mails[LastOf(told)].type = "provider_approved" <=> onboardings[p].status = "approved")

\* Two providers have one email address only if their creations looked for it at once.
ProvidersAreDistinct ==
    \A p, q \in Lenders : Onboarded(p) /\ Onboarded(q) /\ p # q /\ onboardings[p].email = onboardings[q].email
                            => onboardings[p].email \in lookedForTwice

\* Whatever was entered, recommended and adjusted, nobody is charged less than the minimum,
\* and whoever's margin was validated is charged at most the maximum, whatever the performance
\* is, and in every month of a projection.
MarginsAreBounded ==
    \A p \in Lenders : margins[p] # NoMargin =>
        \A amount \in LeadAmounts, score \in {NoScore, 50, 78, 95} :
            CanCharge(margins[p], score) =>
            LET charged == calculateMargin(margins[p], amount, score, 78) IN
            /\ charged >= margins[p].minimum
            /\ p \notin unchecked => charged <= margins[p].maximum
            /\ p \notin unchecked => \A m \in 1..3 :
                   LET month == getMarginProjections(margins[p], 10, amount, 3, score, "up")[m]
                   IN month.margin * 1000 <= month.revenue * margins[p].maximum

\* A verdict on endpoints that is not the best comes with advice, if there are any endpoints.
VerdictsHaveReasons ==
    \A n \in 1..3 : \A states \in [1..n -> EndpointStates] :
        LET report == monitorIntegrationHealth(states) IN report.overall # "healthy" => report.advice # {}
=============================================================================
