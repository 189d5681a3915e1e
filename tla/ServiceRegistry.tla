---------------------------- MODULE ServiceRegistry ----------------------------
(***************************************************************************)
(* services/api-gateway: the services the gateway knows, their instances   *)
(* and the health it believes them to have.  A check asks the service's    *)
(* base URL, whatever its instances are, and nothing keeps a slow check    *)
(* from ending after one that began later.                                 *)
(***************************************************************************)
EXTENDS Requests

CONSTANTS
    GatewayServices, Instances,
    Probes            \* health checks in flight

VARIABLES
    known,            \* services
    status,           \* health: status of each service
    instances,        \* [id, healthy] of each service
    probing,          \* the service each probe waits for
    vouched           \* history: instances whose health comes from whoever added them

RegistryVars == <<known, status, instances, probing, vouched>>

Primary(s) == [id |-> <<s, "1">>, healthy |-> FALSE]
RegistryInit ==
    /\ known = {} /\ status = [s \in GatewayServices |-> "unknown"]
    /\ instances = [s \in GatewayServices |-> {}] /\ probing = [p \in Probes |-> "none"] /\ vouched = {}

\* A service that is registered again keeps its instances, as they are, and is unhealthy.
registerGatewayService(s) ==
    /\ known' = known \union {s} /\ status' = [status EXCEPT ![s] = "unhealthy"]
    /\ instances' = IF s \in known THEN instances ELSE [instances EXCEPT ![s] = @ \union {Primary(s)}]
    /\ vouched' = IF s \in known THEN vouched \union {i.id : i \in instances[s]} ELSE vouched
    /\ UNCHANGED probing
addServiceInstance(s, id, healthy) ==
    /\ \A i \in instances[s] : i.id # <<s, id>>
    /\ instances' = [instances EXCEPT ![s] = @ \union {[id |-> <<s, id>>, healthy |-> healthy]}]
    /\ vouched' = vouched \union {<<s, id>>}
    /\ UNCHANGED <<known, status, probing>>
removeServiceInstance(s, id) ==
    /\ \E i \in instances[s] : i.id = <<s, id>>
    /\ instances' = [instances EXCEPT ![s] = {i \in @ : i.id # <<s, id>>}]
    /\ vouched' = vouched \ {<<s, id>>}
    /\ UNCHANGED <<known, status, probing>>

\* Faulty variant: an instance is well unless the news says otherwise.
InstanceHealthAssumed(news) == news # "unhealthy"

\* `news` is undefined when only a response time is reported.
InstanceHealth(news) == news = "healthy"
updateServiceHealth(s, news) ==
    /\ s \in known
    /\ status' = IF news = "undefined" THEN status ELSE [status EXCEPT ![s] = news]
    /\ instances' = [instances EXCEPT ![s] = {[i EXCEPT !.healthy = InstanceHealth(news)] : i \in @}]
    /\ vouched' = vouched \ {i.id : i \in instances[s]}

performHealthChecks(p, s) ==
    /\ probing[p] = "none" /\ s \in known /\ probing' = [probing EXCEPT ![p] = s]
    /\ UNCHANGED <<known, status, instances, vouched>>
ProbeEnds(p, news) ==
    /\ probing[p] # "none" /\ updateServiceHealth(probing[p], news)
    /\ probing' = [probing EXCEPT ![p] = "none"]
    /\ UNCHANGED known
\* The new response time is all that is reported, and the instances' health with it.
recordServiceCall(s) == updateServiceHealth(s, "undefined") /\ UNCHANGED <<known, probing>>

\* A healthy one if there is any, else the first.
getServiceInstance(s) ==
    LET healthy == {i \in instances[s] : i.healthy} IN IF healthy = {} THEN instances[s] ELSE healthy

RegistryNext ==
    \/ \E s \in GatewayServices : registerGatewayService(s) \/ recordServiceCall(s)
    \/ \E s \in GatewayServices, id \in Instances, healthy \in BOOLEAN : addServiceInstance(s, id, healthy)
    \/ \E s \in GatewayServices, id \in Instances \union {"1"} : removeServiceInstance(s, id)
    \/ \E p \in Probes : \/ \E s \in GatewayServices : performHealthChecks(p, s)
                         \/ \E news \in {"healthy", "unhealthy"} : ProbeEnds(p, news)
RegistrySpec == RegistryInit /\ [][RegistryNext]_RegistryVars

-----------------------------------------------------------------------------
\* Services have instances and a status from when they are registered.
RegistryTypeOK ==
    /\ known \subseteq GatewayServices /\ \A s \in known : status[s] \in {"healthy", "unhealthy"}
    /\ \A s \in GatewayServices : \A i \in instances[s] : i.healthy \in BOOLEAN

\* Traffic is never sent to an instance as healthy while its service is believed unhealthy,
\* unless whoever registered it said so and nothing was heard of the service since.
HealthyOnGoodNews ==
    \A s \in known : \A i \in instances[s] : i.healthy /\ i.id \notin vouched => status[s] = "healthy"
=============================================================================
