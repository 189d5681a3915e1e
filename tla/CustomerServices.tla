--------------------------- MODULE CustomerServices ----------------------------
(***************************************************************************)
(* What a customer deals with, side by side: accounts, onboarding, the     *)
(* upload of files, payouts, messages and, if need be, collections; and    *)
(* the administration of the credit providers behind the credits.  The     *)
(* services have no state in common, so a behaviour is one of one service. *)
(***************************************************************************)
EXTENDS Onboarding, Collections, Disbursement, NotificationDelivery, UserRoutes, ProviderAdmin, TLC

VARIABLE service     \* whose behaviour it is

\* Bounds: requests that overlap are explored for individuals, requests of businesses one by one.
IndividualsOnly == \A a \in Applications : Known(a) => applications[a].type = "individual"
OneAtATime == Cardinality({k \in Clients : applying[k] # Resting}) <= 1
\* Two users were ever staff at most.
TwoStaff == Cardinality(staffed) <= 2
\* One user of those on file is deactivated or deleted at most.
OneUnwelcome == Cardinality({u \in Users : ~Welcome(u) /\ userRows[u] # Unused}) <= 1
\* One user's password or score is set at most.
OneSecret == Cardinality({u \in Users : passwords[u] > 0}) + Cardinality({u \in Users : scores[u] > 0}) <= 1

Of(name) == service = name /\ UNCHANGED service
CustomerVars == <<service, OnboardingVars, CollectionsVars, DisbursementVars, DeliveryVars, UsersVars, AdminVars>>
CustomerInit ==
    /\ service \in {"onboarding", "businesses", "uploads", "collections", "disbursement", "delivery", "users",
                   "secrets", "providers", "margins", "engineers"}
    /\ OnboardingInit /\ CollectionsInit /\ DisbursementInit /\ DeliveryInit /\ UsersInit /\ AdminInit
CustomerNext ==
    \/ Of("onboarding") /\ OnboardingNext /\ IndividualsOnly'
       /\ UNCHANGED <<CollectionsVars, DisbursementVars, DeliveryVars, UsersVars, AdminVars>>
    \/ Of("businesses") /\ OnboardingNext /\ OneAtATime'
       /\ UNCHANGED <<CollectionsVars, DisbursementVars, DeliveryVars, UsersVars, AdminVars>>
    \/ Of("uploads") /\ UploadsNext
       /\ UNCHANGED <<CollectionsVars, DisbursementVars, DeliveryVars, UsersVars, AdminVars>>
    \/ Of("collections") /\ CollectionsNext
       /\ UNCHANGED <<OnboardingVars, DisbursementVars, DeliveryVars, UsersVars, AdminVars>>
    \/ Of("disbursement") /\ DisbursementNext
       /\ UNCHANGED <<OnboardingVars, CollectionsVars, DeliveryVars, UsersVars, AdminVars>>
    \/ Of("delivery") /\ DeliveryNext
       /\ UNCHANGED <<OnboardingVars, CollectionsVars, DisbursementVars, UsersVars, AdminVars>>
    \/ Of("users") /\ UsersNext /\ TwoStaff'
       /\ UNCHANGED <<OnboardingVars, CollectionsVars, DisbursementVars, DeliveryVars, AdminVars>>
    \/ Of("secrets") /\ SecretsNext /\ OneSecret'
       /\ UNCHANGED <<OnboardingVars, CollectionsVars, DisbursementVars, DeliveryVars, AdminVars>>
    \/ Of("providers") /\ OnboardingsNext
       /\ UNCHANGED <<OnboardingVars, CollectionsVars, DisbursementVars, DeliveryVars, UsersVars>>
    \/ Of("margins") /\ MarginsNext /\ OneMargin'
       /\ UNCHANGED <<OnboardingVars, CollectionsVars, DisbursementVars, DeliveryVars, UsersVars>>
    \/ Of("engineers") /\ EngineeringNext /\ LittleWork'
       /\ UNCHANGED <<OnboardingVars, CollectionsVars, DisbursementVars, DeliveryVars, UsersVars>>
CustomerSpec == CustomerInit /\ [][CustomerNext]_CustomerVars

-----------------------------------------------------------------------------
\* What a .cfg cannot write: the delinquencies and the payouts asked for, on either side
\* of each limit, and what may be permuted.
SmallDelinquencies ==
    {[days |-> 30, outstanding |-> 20000, overdue |-> 60000], [days |-> 31, outstanding |-> 1000, overdue |-> 1000]}
Pay(amount, currency, located) ==
    [amount |-> amount, currency |-> currency, ids |-> FALSE, located |-> located, country |-> "NG", purpose |-> "salary"]
SmallPayouts == {Pay(100, "NGN", TRUE), Pay(33, "GHS", TRUE), Pay(5000001, "NGN", TRUE), Pay(10, "EUR", TRUE)}
SmallOrders == {<<>>} \union {<<p>> : p \in SmallPayouts} \union {<<p, q>> : p, q \in SmallPayouts}
Symmetry == Permutations(Clients)

\* Providers with a high and without a given percentage, with a minimum above the maximum;
\* overlapping tiers, missing multipliers, rules of each kind, bounds that cross.
Submission(support, complexity, dedicated, percentage, fee) ==
    [support |-> support, complexity |-> complexity, dedicated |-> dedicated, readiness |-> "none",
     weeks |-> 6, structure |-> "percentage", percentage |-> percentage, minimumFee |-> fee]
SmallSubmissions ==
    {Submission(TRUE, "complex", TRUE, Percent(20), 0), Submission(FALSE, "simple", FALSE, 0, Percent(30))}
Tier(from, to, percentage) == [from |-> from, to |-> to, percentage |-> percentage]
Rule(on, threshold, type, adjustment) ==
    [on |-> on, threshold |-> threshold, type |-> type, adjustment |-> adjustment]
Margin(type, base, tiers, multipliers, minimum, maximum, rules) ==
    [type |-> type, base |-> base, tiers |-> tiers, multipliers |-> multipliers, minimum |-> minimum,
     maximum |-> maximum, rules |-> rules, active |-> FALSE]
SmallMargins == {
    Margin("tiered", Percent(24), <<Tier(0, 100, Percent(40)), Tier(100, 200, Percent(3))>>,
           NoMultipliers, Percent(5), Percent(25), <<>>),
    Margin("performance_based", Percent(10), <<>>, [high |-> 30, standard |-> 10, low |-> 1],
           Percent(2), Percent(25),
           <<Rule("performance", 80, "multiply", 20), Rule("amount", 100, "add", Percent(1))>>),
    Margin("custom", Percent(30), <<>>, NoMultipliers, Percent(9), Percent(8),
           <<Rule("amount", 100, "set", Percent(50))>>)}

-----------------------------------------------------------------------------
\* Every service's documents and rows are of the types its source declares.
CustomerTypeOK == OnboardingTypeOK /\ CollectionsTypeOK /\ DisbursementTypeOK /\ DeliveryTypeOK
                  /\ UsersTypeOK /\ AdminTypeOK

\* Requests save whole documents without a lock, and yet nothing is lost of an application,
\* of its list of files, of a case or of what is known of a message, unless two requests
\* held copies of it at once.
UpdatesLostOnlyByOverlap ==
    ApplicationLostOnlyByOverlap /\ UploadedIsListed /\ CaseLostOnlyByOverlap /\ NewsLostOnlyByOverlap

\* What a provider was made to do is what is said of it: a batch's answer accounts for what was
\* paid, a message is handed over twice only by requests that overlapped, a credit provider hears
\* what was decided and is charged within its bounds, and what is said of its endpoints has reasons.
ProvidersAreAccountedFor ==
    BatchAccountsForPayouts /\ HandedOverOnce /\ DecisionsAreTold /\ MarginsAreBounded /\ VerdictsHaveReasons

\* Access follows what is known of a person, however requests interleave: an application is
\* approved without a reviewer only if it earned it, a token is signed only for a user who may
\* log in, passwords hold, others are shown to the staff alone, email addresses and API keys
\* belong to one user who is on record, and a credit provider's project and margin begin with its
\* one approval.
AccessIsEarned ==
    /\ AutoApprovalIsEarned /\ SessionsAreWelcome /\ PasswordsHold /\ ReadersAreEntitled
    /\ UsersAreDistinct /\ ProvidersAreDistinct /\ ApprovalHappensOnce
=============================================================================
