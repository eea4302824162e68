------------------------------- MODULE Versions -------------------------------
(***************************************************************************)
(* What version a service instance has, and who may change it.  An         *)
(* operator deploys the broker with one configuration after another.  Of   *)
(* each plan a configuration says what its instances look like and, in     *)
(* maintenance_info, how that version is called.  A request of Cloud       *)
(* Foundry is decided to be an update or an upgrade from the catalog and   *)
(* from what Cloud Foundry has on record; the upgrade errand asks the      *)
(* broker without Cloud Foundry's knowledge.  One instance.                *)
(***************************************************************************)
EXTENDS Naturals

CONSTANTS Plans,        \* plans a configuration may offer
          Keys,         \* keys of maintenance_info
          Values,       \* their values, and the versions
          Absent,       \* a key, a version or parameters that are not given
          NoInfo,       \* no maintenance_info
          Configs,      \* configurations the operator deploys
          Params,       \* parameters users ask for
          None,         \* no instance, deployment, task, operation, plan
          SkipCheckForPendingChanges,
          UpdatesDuringErrand,  \* users' operations overlap with the errand's
          RestartsDuringUpdate, \* and with the broker's redeployment
          MaxRequests,  \* bound on users' requests
          MaxRestarts   \* bound on redeployments of the broker

RawInfo == [public : [Keys -> Values \cup {Absent}], private : [Keys -> Values \cup {Absent}],
            version : Values \cup {Absent}]

\* offering: maintenance_info of all plans.  plans: of the ones that are offered, their own
\* maintenance_info, what the adapter generates for them, and their update block.
IsConfig(c) ==
  /\ DOMAIN c = {"offering", "plans"}
  /\ c.offering \in RawInfo \cup {NoInfo}
  /\ DOMAIN c.plans \subseteq Plans
  /\ \A p \in DOMAIN c.plans :
       /\ DOMAIN c.plans[p] = {"info", "release", "update"}
       /\ c.plans[p].info \in RawInfo \cup {NoInfo}

ASSUME VersionsAssumption ==
  /\ Absent \notin Values \cup Params /\ NoInfo \notin RawInfo /\ None \notin Plans
  /\ \A c \in Configs : IsConfig(c)
  /\ {SkipCheckForPendingChanges, UpdatesDuringErrand, RestartsDuringUpdate} \subseteq BOOLEAN
  /\ MaxRequests \in Nat /\ MaxRestarts \in Nat

VARIABLES config,     \* configuration of the running broker
          catalog,    \* the one Cloud Foundry read the catalog of
          instance,   \* Cloud Foundry's record: plan, info, and whether its last operation succeeded
          deployed,   \* BOSH: the manifest of the deployment
          task,       \* BOSH: the deploy that is running
          operation,  \* what Cloud Foundry waits for
          errandPlan, \* plan the errand read and is about to send
          requests, restarts

versionVars == <<config, catalog, instance, deployed, task, operation, errandPlan, requests, restarts>>
-----------------------------------------------------------------------------
(* The catalog. *)

Offered(c) == DOMAIN c.plans

\* copyMap of the offering's map, then of the plan's over it.
mergeMaintenanceInfo(globalInfo, planInfo, part) ==
  [k \in Keys |->
     IF planInfo # NoInfo /\ planInfo[part][k] # Absent THEN planInfo[part][k]
     ELSE IF globalInfo # NoInfo THEN globalInfo[part][k] ELSE Absent]

getMaintenanceInfoVersion(globalInfo, planInfo) ==
  IF planInfo # NoInfo /\ planInfo.version # Absent THEN planInfo.version
  ELSE IF globalInfo # NoInfo THEN globalInfo.version ELSE Absent

\* A digest of the sorted pairs: it tells which pairs there are.
Hash(m) == {<<k, m[k]>> : k \in {j \in Keys : m[j] # Absent}}

generateMaintenanceInfo(c, plan) ==
  LET public  == mergeMaintenanceInfo(c.offering, c.plans[plan].info, "public")
      private == mergeMaintenanceInfo(c.offering, c.plans[plan].info, "private")
      version == getMaintenanceInfoVersion(c.offering, c.plans[plan].info)
  IN  IF Hash(public) = {} /\ Hash(private) = {} /\ version = Absent THEN NoInfo
      ELSE [public |-> public, private |-> Hash(private), version |-> version]
-----------------------------------------------------------------------------
(* The decider.  A request has a plan, maintenance_info or none, and       *)
(* parameters or none; previous is what Cloud Foundry has on record.       *)

validateMaintenanceInfo(c, plan, info) ==
  IF plan \notin Offered(c) THEN "plan-does-not-exist"
  ELSE LET planInfo == generateMaintenanceInfo(c, plan)
       IN  IF info = planInfo THEN "valid"
           ELSE IF info = NoInfo THEN "nil-in-the-request"
           ELSE IF planInfo = NoInfo THEN "nil-conflict"
           ELSE "conflict"

CanProvision(c, request) ==
  validateMaintenanceInfo(c, request.plan, request.info) \in {"valid", "nil-in-the-request"}

\* The instance is out of date, as far as Cloud Foundry knows.
mustBeUpgradedFirst(c, previous) ==
  /\ previous.info # NoInfo /\ previous.plan \in Offered(c)
  /\ previous.info # generateMaintenanceInfo(c, previous.plan)

\* A catalog that cannot be generated ends the request before it is decided.
DecideOperation_ParamsToo(c, request, previous) ==
  LET validity == validateMaintenanceInfo(c, request.plan, request.info)
  IN  IF validity \notin {"valid", "nil-in-the-request"} THEN validity
      ELSE IF validity = "valid" /\ request.plan = previous.plan /\ request.info # previous.info
      THEN "upgrade"
      ELSE IF mustBeUpgradedFirst(c, previous) THEN "must-be-upgraded-first"
      ELSE "update"
DecideOperation(c, request, previous) ==
  LET validity == validateMaintenanceInfo(c, request.plan, request.info)
  IN  IF validity \notin {"valid", "nil-in-the-request"} THEN validity
      ELSE IF /\ validity = "valid" /\ request.plan = previous.plan
              /\ request.params = Absent /\ request.info # previous.info
      THEN "upgrade"
      ELSE IF mustBeUpgradedFirst(c, previous) THEN "must-be-upgraded-first"
      ELSE "update"
-----------------------------------------------------------------------------
(* The deployer. *)

\* The adapter keeps what it finds in the old manifest, unless it is asked for something else.
GenerateManifest_KeepsUpdate(c, plan, params, old) ==
  [plan |-> plan, release |-> c.plans[plan].release,
   update |-> IF old # None THEN old.update ELSE c.plans[plan].update,
   params |-> IF params = Absent /\ old # None THEN old.params ELSE params]
GenerateManifest(c, plan, params, old) ==
  [plan |-> plan, release |-> c.plans[plan].release, update |-> c.plans[plan].update,
   params |-> IF params = Absent /\ old # None THEN old.params ELSE params]

ManifestsAreTheSame_PlanOnly(m, n) == m.plan = n.plan
ManifestsAreTheSame(m, n) == [m EXCEPT !.update = 0] = [n EXCEPT !.update = 0]

\* The manifest the running broker would generate for the plan on record.
checkForPendingChanges(previousPlan) ==
  ManifestsAreTheSame(GenerateManifest(config, previousPlan, Absent, deployed), deployed)

assertNoOperationsInProgress == task = None

Create(request) ==
  /\ assertNoOperationsInProgress /\ deployed = None
  /\ task' = GenerateManifest(config, request.plan, request.params, None)

\* The plan to change to and the plan on record are both looked up.
DeployerUpdate_SwappedPlans(request, previousPlan) ==
  /\ assertNoOperationsInProgress /\ deployed # None
  /\ {request.plan, previousPlan} \subseteq Offered(config)
  /\ SkipCheckForPendingChanges \/ checkForPendingChanges(previousPlan)
  /\ task' = GenerateManifest(config, previousPlan, request.params, deployed)
DeployerUpdate(request, previousPlan) ==
  /\ assertNoOperationsInProgress /\ deployed # None
  /\ {request.plan, previousPlan} \subseteq Offered(config)
  /\ SkipCheckForPendingChanges \/ checkForPendingChanges(previousPlan)
  /\ task' = GenerateManifest(config, request.plan, request.params, deployed)

DeployerUpgrade_Checks(plan) ==
  /\ assertNoOperationsInProgress /\ deployed # None /\ plan \in Offered(config)
  /\ SkipCheckForPendingChanges \/ checkForPendingChanges(plan)
  /\ task' = GenerateManifest(config, plan, Absent, deployed)
DeployerUpgrade(plan) ==
  /\ assertNoOperationsInProgress /\ deployed # None /\ plan \in Offered(config)
  /\ task' = GenerateManifest(config, plan, Absent, deployed)
-----------------------------------------------------------------------------
(* Cloud Foundry, the errand and the operator.                             *)

\* What Cloud Foundry sends: nothing, what it has on record, or what it read in the catalog.
InfosSent(plan) ==
  {NoInfo} \cup (IF instance # None THEN {instance.info} ELSE {})
           \cup (IF plan \in Offered(catalog) THEN {generateMaintenanceInfo(catalog, plan)} ELSE {})

Requests == {[plan |-> p, info |-> i, params |-> a] :
             p \in Offered(catalog), i \in UNION {InfosSent(q) : q \in Offered(catalog)},
             a \in Params \cup {Absent}}

Previous == [plan |-> instance.plan, info |-> instance.info]

MaySend ==
  /\ operation = None /\ requests < MaxRequests
  /\ UpdatesDuringErrand \/ (errandPlan = None /\ task = None)

\* The deploy is queued.  A call after it may fail (the dashboard, the client): the answer
\* is an error, and for Cloud Foundry the operation has failed, while the task runs on.
Waits(type, request) ==
  /\ \E ended \in {"no", "failed"} :
       operation' = [type |-> type, plan |-> request.plan, info |-> request.info, ended |-> ended]
  /\ requests' = requests + 1
  /\ UNCHANGED <<config, catalog, instance, deployed, errandPlan, restarts>>

Provision(request) ==
  /\ MaySend /\ instance = None
  /\ CanProvision(config, request) /\ Create(request)
  /\ Waits("create", request)

Update(request) ==
  /\ MaySend /\ instance # None
  /\ LET decision == DecideOperation(config, request, Previous)
     IN  \/ /\ decision = "update" /\ DeployerUpdate(request, instance.plan)
            /\ Waits("update", request)
         \/ /\ decision = "upgrade" /\ DeployerUpgrade(request.plan)
            /\ Waits("upgrade", request)

\* A deploy that fails leaves the old manifest or the new one.
TaskEnds(succeeds) ==
  /\ task # None
  /\ deployed' \in (IF succeeds THEN {task} ELSE {task, deployed})
  /\ task' = None
  /\ operation' = IF operation # None /\ operation.ended = "no"
                  THEN [operation EXCEPT !.ended = IF succeeds THEN "succeeded" ELSE "failed"]
                  ELSE operation
  /\ UNCHANGED <<config, catalog, instance, errandPlan, requests, restarts>>

\* Cloud Foundry polls, and records what it asked for.  What is left of a create that
\* failed it deletes.
Records ==
  /\ operation # None /\ operation.ended # "no"
  /\ operation' = None
  /\ \/ /\ operation.ended = "succeeded"
        /\ instance' = [plan |-> operation.plan, ok |-> TRUE,
                        info |-> IF operation.info = NoInfo /\ instance # None
                                 THEN instance.info ELSE operation.info]
        /\ UNCHANGED deployed
     \/ /\ operation.ended = "failed" /\ operation.type = "create"
        /\ task = None /\ deployed' = None /\ UNCHANGED instance
     \/ /\ operation.ended = "failed" /\ operation.type # "create"
        /\ instance' = [instance EXCEPT !.ok = FALSE] /\ UNCHANGED deployed
  /\ UNCHANGED <<config, catalog, task, errandPlan, requests, restarts>>

\* The errand reads the instance's plan from Cloud Foundry, then sends it to the broker.
LatestInstanceInfo ==
  /\ instance # None /\ errandPlan = None
  /\ UpdatesDuringErrand \/ operation = None
  /\ errandPlan' = instance.plan
  /\ UNCHANGED <<config, catalog, instance, deployed, task, operation, requests, restarts>>

ErrandUpgrades ==
  /\ errandPlan # None /\ errandPlan' = None
  /\ DeployerUpgrade(errandPlan)
  /\ UNCHANGED <<config, catalog, instance, deployed, operation, requests, restarts>>

\* Answered with conflict, or with an error: the errand tries again, or gives up.
ErrandRefused ==
  /\ errandPlan # None /\ errandPlan' = None
  /\ task # None \/ errandPlan \notin Offered(config)
  /\ UNCHANGED <<config, catalog, instance, deployed, task, operation, requests, restarts>>

\* The plan of the instance, as Cloud Foundry counts it, has to be offered.
CFPlanConsistencyChecker_OldOffer(c) == instance # None => instance.plan \in Offered(config)
CFPlanConsistencyChecker(c) == instance # None => instance.plan \in Offered(c)

RestartBroker(c) ==
  /\ restarts < MaxRestarts /\ restarts' = restarts + 1
  /\ RestartsDuringUpdate \/ operation = None
  /\ CFPlanConsistencyChecker(c) /\ config' = c
  /\ UNCHANGED <<catalog, instance, deployed, task, operation, errandPlan, requests>>

\* Registering the broker makes Cloud Foundry read the catalog.
RegisterBroker ==
  /\ catalog' = config
  /\ UNCHANGED <<config, instance, deployed, task, operation, errandPlan, requests, restarts>>

Init ==
  /\ config \in Configs /\ catalog = config
  /\ instance = None /\ deployed = None /\ task = None /\ operation = None /\ errandPlan = None
  /\ requests = 0 /\ restarts = 0

Next ==
  \/ \E request \in Requests : Provision(request)
  \/ \E request \in Requests : Update(request)
  \/ \E succeeds \in BOOLEAN : TaskEnds(succeeds)
  \/ Records
  \/ LatestInstanceInfo
  \/ ErrandUpgrades
  \/ ErrandRefused
  \/ \E c \in Configs : RestartBroker(c)
  \/ RegisterBroker

Spec == Init /\ [][Next]_versionVars

\* BOSH ends its tasks, and does not fail for ever; Cloud Foundry polls; the operator runs
\* the upgrade errand again and again.
Fairness ==
  /\ SF_versionVars(TaskEnds(TRUE)) /\ WF_versionVars(Records)
  /\ WF_versionVars(LatestInstanceInfo) /\ SF_versionVars(ErrandUpgrades)
  /\ WF_versionVars(ErrandRefused)

FairSpec == Spec /\ Fairness
-----------------------------------------------------------------------------
PlanConfigs == {cp \in Configs \X Plans : cp[2] \in Offered(cp[1])}
Infos       == {NoInfo} \cup {generateMaintenanceInfo(cp[1], cp[2]) : cp \in PlanConfigs}
Manifests   == {GenerateManifest(cp[1], cp[2], a, None) : cp \in PlanConfigs, a \in Params \cup {Absent}}

Instances   == [plan : Plans, info : Infos, ok : BOOLEAN]
Operations  == [type : {"create", "update", "upgrade"}, plan : Plans, info : Infos,
                ended : {"no", "succeeded", "failed"}]

ASSUME NoneAssumption == None \notin Manifests \cup Instances \cup Operations

\* TypeOK: every variable stays in its domain; what is deployed was generated from one
\* configuration, never from parts of two (task.go:290).
TypeOK ==
  /\ config \in Configs /\ catalog \in Configs
  /\ instance \in Instances \cup {None}
  /\ deployed \in Manifests \cup {None} /\ task \in Manifests \cup {None}
  /\ operation \in Operations \cup {None}
  /\ errandPlan \in Plans \cup {None}
  /\ requests \in 0..MaxRequests /\ restarts \in 0..MaxRestarts

\* DecidesAsSpecified: of all that Cloud Foundry can send, exactly what asks for the catalog's
\* maintenance_info and for nothing else is an upgrade; an update never touches an
\* instance that is out of date on Cloud Foundry's record; and an instance that is up to date can
\* be updated with what the catalog says (decider.go:52).
DecidesAsSpecified ==
  instance # None => \A request \in Requests :
    LET decision == DecideOperation(config, request, Previous)
        current(p) == generateMaintenanceInfo(config, p)
    IN  /\ decision = "upgrade" <=>
             /\ request.plan \in Offered(config) /\ request.info = current(request.plan)
             /\ {f \in DOMAIN request : CASE f = "plan"   -> request.plan # instance.plan
                                          [] f = "info"   -> request.info # instance.info
                                          [] f = "params" -> request.params # Absent} = {"info"}
        /\ decision = "update" =>
             \/ instance.info = NoInfo \/ instance.plan \notin Offered(config)
             \/ instance.info = current(instance.plan)
        /\ (/\ {request.plan, instance.plan} \subseteq Offered(config)
            /\ request.info = current(request.plan) /\ instance.info = current(instance.plan))
           => decision = "update"

Settled == instance # None /\ instance.ok /\ operation = None /\ task = None

\* RecordedPlanIsDeployed: when nothing is going on and the last operation succeeded, the
\* deployment has the plan that Cloud Foundry has on record (task.go:165, upgrade.go:57).
RecordedPlanIsDeployed == Settled => deployed # None /\ deployed.plan = instance.plan

\* PlanStaysOffered: the running broker offers the plan of the instance
\* (cf_plan_consistency_checker.go:34), so that it can be upgraded at any time.
PlanStaysOffered == instance # None => instance.plan \in Offered(config)

\* UpdateKeepsRelease: an update that a user asked for starts from a deployment of the plan on
\* record and, unless the plan changes, leaves what the operator configured as it is; releases get to
\* an instance by upgrades only (task.go:192).
UpdateKeepsRelease ==
  [][operation = None /\ operation' # None /\ operation'.type = "update" =>
       /\ deployed.plan = instance.plan
       /\ operation'.plan = instance.plan => task'.release = deployed.release]_versionVars

UpToDate ==
  /\ deployed # None /\ instance.plan \in Offered(config)
  /\ deployed = GenerateManifest(config, instance.plan, Absent, deployed)

\* EventuallyCurrent: whatever failed, raced or was refused before, once the operator stops deploying and
\* users stop asking, the upgrade errand brings the instance to the version and the plan
\* it should have (upgrade.go:21, iterator.go:88).
EventuallyCurrent == <>[](instance # None => UpToDate)
=============================================================================
