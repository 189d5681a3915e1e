------------------------------- MODULE Deployment -------------------------------
(***************************************************************************)
(* scripts/deploy.sh and scripts/wait-for-health.sh.  Both run under       *)
(* "set -e": a command that fails ends the script, unless it is part of a  *)
(* condition or runs in the shell at the other end of ssh, which has no    *)
(* such option.  Services come and go while the scripts look at them.      *)
(***************************************************************************)
EXTENDS Integers, FiniteSets, Sequences

CONSTANTS
    Images,                    \* what is built, sent and started; each serves an endpoint
    Present, Dockerfiles,      \* those whose directory exists, and those with a Dockerfile
    Stages,                    \* the images each "up" of deploy_services starts, in order
    Priority,                  \* waited for first
    MaxChecks                  \* MAX_WAIT_TIME / CHECK_INTERVAL, rounded up

ASSUME DeploymentAssumption ==
    /\ Images # {} /\ "http" \notin Images
    /\ Dockerfiles \subseteq Present /\ Present \subseteq Images /\ Priority \subseteq Images
    /\ Stages \in Seq(SUBSET Images) /\ Len(Stages) <= 4 /\ MaxChecks \in Nat \ {0}

VARIABLES
    options,     \* --skip-build, --skip-test, --force
    step,        \* where deploy.sh is
    toBuild, built,
    transferred,        \* images that have arrived on the server
    loaded,      \* ... and were loaded into its Docker
    schema,      \* of the database: "old" or "new"
    renewed,     \* services that run the new version
    up,          \* services that answer their health endpoint
    waiting,     \* wait-for-health.sh: what it does, the checks made, and its two lists
    seen         \* history: services that answered one of its checks

DeploymentVars == <<options, step, toBuild, built, transferred, loaded, schema, renewed, up, waiting, seen>>

NoOptions == [skipBuild |-> FALSE, skipTest |-> FALSE, force |-> FALSE]
DeploymentInit ==
    /\ options = NoOptions /\ step = "start" /\ toBuild = Images /\ built = {}
    /\ transferred = {} /\ loaded = {} /\ schema = "old" /\ renewed = {} /\ up = {}
    /\ waiting = [pc |-> "unused"] /\ seen = {}

UnchangedWait == UNCHANGED <<waiting, seen>>
UnchangedServer == UNCHANGED <<transferred, loaded, schema, renewed, up>>
To(next) == step' = next
Exits == To("failed")

-----------------------------------------------------------------------------
\* main reads its arguments; images may be there from an earlier deployment.
main(arguments, images) ==
    /\ step = "start" /\ options' = arguments /\ built' = images /\ To("prerequisites")
    /\ UNCHANGED toBuild /\ UnchangedServer /\ UnchangedWait
check_prerequisites(works) ==
    /\ step = "prerequisites" /\ To(CASE ~works -> "failed" [] options.skipBuild -> "test" [] OTHER -> "build")
    /\ UNCHANGED <<options, toBuild, built>> /\ UnchangedServer /\ UnchangedWait

\* Service by service: cd fails without a directory, and one without a Dockerfile is skipped.
build_images(image, works) ==
    /\ step = "build" /\ image \in toBuild /\ toBuild' = toBuild \ {image}
    /\ IF image \in Dockerfiles /\ works
       THEN built' = built \union {image} /\ To(IF toBuild = {image} THEN "test" ELSE "build")
       ELSE /\ UNCHANGED built
            /\ IF image \in Present \ Dockerfiles THEN To(IF toBuild = {image} THEN "test" ELSE "build") ELSE Exits
    /\ UNCHANGED options /\ UnchangedServer /\ UnchangedWait

\* As part of a condition only the explicit "exit 1" ends it, and that ends the script,
\* whatever --force says.
test_deployment(databaseReady) ==
    /\ step = "test" /\ IF options.skipTest \/ databaseReady THEN To("copy") ELSE Exits
    /\ UNCHANGED <<options, toBuild, built>> /\ UnchangedServer /\ UnchangedWait

\* Faulty variant: images that are not there are left out.
SavedAsFound == built

\* docker save of an image that is not there ends the script.
Saved == IF built = Images THEN Images ELSE {}
\* deploy_remote: files and images are copied, or only some; what docker load says at the other
\* end is ignored, and the file removed.
deploy_remote(works, loads) ==
    /\ step = "copy" /\ loads \subseteq Saved
    /\ IF works /\ Saved # {} THEN transferred' = Saved /\ loaded' = loads /\ To("migrate")
       ELSE Exits /\ transferred' = loads /\ UNCHANGED loaded
    /\ UNCHANGED <<options, toBuild, built, schema, renewed, up>> /\ UnchangedWait

\* Neither a database that is not ready after thirty attempts nor a failed migration ends it.
run_migrations(works, migrates) ==
    /\ step = "migrate" /\ To(IF works THEN "stage 1" ELSE "failed")
    /\ schema' = IF works /\ migrates THEN "new" ELSE schema
    /\ UNCHANGED <<options, toBuild, built, transferred, loaded, renewed, up>> /\ UnchangedWait

StageNames == <<"stage 1", "stage 2", "stage 3", "stage 4">>
AfterStage(n) == IF n = Len(Stages) THEN "verify" ELSE StageNames[n + 1]
\* One "up" of deploy_services: each of its containers starts with the loaded image, or fails
\* without anyone being told; a renewed service may answer or not.
deploy_services(n, works, started) ==
    /\ step = StageNames[n] /\ started \subseteq Stages[n] \intersect loaded
    /\ IF works THEN renewed' = renewed \union started /\ To(AfterStage(n)) ELSE Exits /\ UNCHANGED renewed
    /\ UNCHANGED <<options, toBuild, built, transferred, loaded, schema, up>> /\ UnchangedWait

\* "http://host:port/path:name" is split at its first colon: what is asked is "http".
Endpoint(image) == Head(<<"http", image>>)
Reachable(endpoint) == \E image \in up : endpoint = image
\* Nothing is rolled back.
verify_deployment ==
    /\ step = "verify"
    /\ To(IF (\A image \in Images : Reachable(Endpoint(image))) \/ options.force THEN "monitoring" ELSE "failed")
    /\ UNCHANGED <<options, toBuild, built>> /\ UnchangedServer /\ UnchangedWait
setup_monitoring(works) ==
    /\ step = "monitoring" /\ To(IF works THEN "cleanup" ELSE "failed")
    /\ UNCHANGED <<options, toBuild, built>> /\ UnchangedServer /\ UnchangedWait
\* Images that no container uses are removed: those sent in vain.
cleanupDeployment(works) ==
    /\ step = "cleanup" /\ To(IF works THEN "completed" ELSE "failed")
    /\ loaded' = IF works THEN loaded \intersect renewed ELSE loaded
    /\ UNCHANGED <<options, toBuild, built, transferred, schema, renewed, up>> /\ UnchangedWait

ServiceMoves(image) ==
    /\ up' = IF image \in up THEN up \ {image} ELSE up \union {image}
    /\ UNCHANGED <<options, step, toBuild, built, transferred, loaded, schema, renewed>> /\ UnchangedWait

-----------------------------------------------------------------------------
UnchangedDeploy == UNCHANGED <<options, step, toBuild, built, transferred, loaded, schema, renewed, up>>

\* Containers that do not run are only reported; a database or a Redis that is never ready
\* ends the script.
wait_for_infrastructure(ready) ==
    /\ waiting.pc = "unused"
    /\ waiting' = IF ready THEN [pc |-> "pick", successful |-> {}, failed |-> {}] ELSE [pc |-> "exit 1"]
    /\ seen' = {} /\ UnchangedDeploy
Handled == waiting.successful \union waiting.failed
\* Those of priority come first.
pick_service(image) ==
    /\ waiting.pc = "pick" /\ image \notin Handled /\ (Priority \subseteq Handled \/ image \in Priority)
    /\ waiting' = [pc |-> "wait", successful |-> waiting.successful, failed |-> waiting.failed,
                   image |-> image, checks |-> 0]
    /\ UNCHANGED seen /\ UnchangedDeploy
GivenUp == waiting.failed \union {waiting.image}
\* One round of the loop: curl, and a sleep when it fails.
wait_for_service ==
    /\ waiting.pc = "wait"
    /\ LET healthy == waiting.image \in up
           after(successful, failed) == [pc |-> "pick", successful |-> successful, failed |-> failed] IN
       /\ waiting' = CASE healthy -> after(waiting.successful \union {waiting.image}, waiting.failed)
                       [] ~healthy /\ waiting.checks + 1 < MaxChecks -> [waiting EXCEPT !.checks = @ + 1]
                       [] ~healthy /\ waiting.checks + 1 >= MaxChecks -> after(waiting.successful, GivenUp)
       /\ seen' = IF healthy THEN seen \union {waiting.image} ELSE seen
    /\ UnchangedDeploy
\* Faulty variant: one healthy service is enough.
VerdictOnAny == IF waiting.successful # {} THEN "exit 0" ELSE "exit 1"

Verdict == IF waiting.failed = {} THEN "exit 0" ELSE "exit 1"
report ==
    /\ waiting.pc = "pick" /\ Handled = Images /\ waiting' = [pc |-> Verdict]
    /\ UNCHANGED seen /\ UnchangedDeploy

DeploymentNext ==
    \/ \E works \in BOOLEAN :
        \/ check_prerequisites(works) \/ test_deployment(works) \/ setup_monitoring(works) \/ cleanupDeployment(works)
        \/ \E image \in Images : build_images(image, works)
        \/ \E some \in SUBSET Images :
            deploy_remote(works, some) \/ \E n \in DOMAIN Stages : deploy_services(n, works, some)
        \/ \E migrates \in BOOLEAN : run_migrations(works, migrates)
    \/ verify_deployment
    \/ \E arguments \in [skipBuild : BOOLEAN, skipTest : BOOLEAN, force : BOOLEAN], images \in {{}, Images} :
        main(arguments, images)
WaitNext ==
    \/ \E ready \in BOOLEAN : wait_for_infrastructure(ready)
    \/ wait_for_service \/ report
    \/ \E image \in Images : pick_service(image) \/ ServiceMoves(image)
DeploymentSpec == DeploymentInit /\ [][DeploymentNext \/ WaitNext]_DeploymentVars

-----------------------------------------------------------------------------
\* The scripts are at one of their steps, and images are only where they can have come from.
DeploymentTypeOK ==
    /\ built \subseteq Images /\ loaded \subseteq transferred /\ schema \in {"old", "new"} /\ up \union seen \subseteq Images
    /\ waiting.pc \in {"unused", "pick", "wait", "exit 0", "exit 1"}

\* A service is replaced only after every image has arrived, and so after every one of them was
\* built; a deployment that fails before that leaves all services and the schema as they were.
\* As no check of verify_deployment can succeed, it is declared complete only by force.
NothingRenewedInPart ==
    /\ renewed # {} \/ schema = "new" => transferred = Images /\ built = Images
    /\ step = "completed" => options.force

\* wait-for-health.sh ends with 0 only when every service has answered it, and holds no service
\* both healthy and unhealthy.
HealthyWasSeen ==
    /\ waiting.pc = "exit 0" => seen = Images
    /\ waiting.pc \in {"pick", "wait"} => waiting.successful = seen /\ waiting.successful \intersect waiting.failed = {}
=============================================================================
