---------------------------- MODULE VersionsProofs ----------------------------
(***************************************************************************)
(* Theorems about versions: type correctness, the decision on a request,   *)
(* that the plan on record is deployed and stays offered, and that updates *)
(* bring no release; for any configurations, requests and redeployments.   *)
(***************************************************************************)
EXTENDS Versions, TLAPS

\* An operation that has begun and what BOSH does for it.  Of one that was accepted the task runs,
\* with its plan; when it succeeded this plan is deployed; when it failed the task may still run.
OperationInv ==
  operation # None =>
    /\ operation.type = "create" <=> instance = None
    /\ ~UpdatesDuringErrand =>
         /\ errandPlan = None
         /\ operation.ended = "no" => task # None /\ task.plan = operation.plan
         /\ operation.ended = "succeeded" => task = None /\ deployed # None /\ deployed.plan = operation.plan

\* Without one what is being deployed has the plan on record, and so has what is deployed, unless
\* an operation failed.
RecordInv ==
  ~UpdatesDuringErrand /\ operation = None =>
    /\ errandPlan # None => instance # None /\ errandPlan = instance.plan
    /\ task # None => instance # None /\ (instance.ok => task.plan = instance.plan)
    /\ instance # None /\ instance.ok => deployed # None /\ deployed.plan = instance.plan

\* The plan of an operation is offered until it is recorded, then as the plan on record.
OfferInv ==
  ~RestartsDuringUpdate =>
    /\ PlanStaysOffered
    /\ operation # None => operation.plan \in Offered(config)

IInv == TypeOK /\ OperationInv /\ RecordInv /\ OfferInv
-----------------------------------------------------------------------------
(* What is generated. *)

LEMMA ConfigPlans ==
  ASSUME NEW c \in Configs, NEW p \in Offered(c)
  PROVE  p \in Plans
  BY VersionsAssumption DEF IsConfig, Offered

\* The manifest generated for a plan is of one configuration, and of that plan.
LEMMA Generates ==
  ASSUME NEW c \in Configs, NEW p \in Offered(c), NEW a \in Params \cup {Absent},
         NEW old \in Manifests \cup {None}
  PROVE  /\ GenerateManifest(c, p, a, old) \in Manifests
         /\ GenerateManifest(c, p, a, old).plan = p
         /\ GenerateManifest(c, p, a, old).release = c.plans[p].release
  <1> DEFINE b == IF a = Absent /\ old # None THEN old.params ELSE a
  <1>1. b \in Params \cup {Absent}
    <2>1. CASE old \in Manifests
      BY <2>1 DEF Manifests, GenerateManifest
    <2>2. CASE old = None
      BY <2>2
    <2> QED BY <2>1, <2>2
  <1>2. GenerateManifest(c, p, a, old) = GenerateManifest(c, p, b, None)
    BY DEF GenerateManifest
  <1>3. <<c, p>> \in PlanConfigs
    BY ConfigPlans DEF PlanConfigs
  <1>4. GenerateManifest(<<c, p>>[1], <<c, p>>[2], b, None) \in Manifests
    BY <1>1, <1>3 DEF Manifests
  <1>5. GenerateManifest(<<c, p>>[1], <<c, p>>[2], b, None) = GenerateManifest(c, p, b, None)
    BY DEF GenerateManifest
  <1> QED BY <1>2, <1>4, <1>5 DEF GenerateManifest

LEMMA InfoOfPlan ==
  ASSUME NEW c \in Configs, NEW p \in Offered(c)
  PROVE  generateMaintenanceInfo(c, p) \in Infos
  <1>1. <<c, p>> \in PlanConfigs
    BY ConfigPlans DEF PlanConfigs
  <1> QED BY <1>1 DEF Infos

\* What is accepted is about a plan that is offered, with its maintenance_info or none.
LEMMA Accepted ==
  ASSUME NEW c \in Configs, NEW p, NEW info,
         validateMaintenanceInfo(c, p, info) \in {"valid", "nil-in-the-request"}
  PROVE  p \in Offered(c) /\ info \in Infos
  BY InfoOfPlan DEF validateMaintenanceInfo, Infos
-----------------------------------------------------------------------------
(* The actions. *)

LEMMA NoneIsNothing ==
  /\ \A m \in Manifests : m # None
  /\ \A x \in Instances : x # None
  /\ \A o \in Operations : o # None
  BY NoneAssumption

LEMMA Waiting ==
  ASSUME TypeOK, NEW type \in {"create", "update", "upgrade"}, NEW request,
         request.plan \in Plans, request.info \in Infos,
         requests < MaxRequests, Waits(type, request)
  PROVE  /\ operation' \in Operations /\ operation' # None
         /\ operation'.type = type /\ operation'.plan = request.plan /\ operation'.ended \in {"no", "failed"}
         /\ requests' \in 0..MaxRequests
         /\ UNCHANGED <<config, catalog, instance, deployed, errandPlan, restarts>>
  <1>1. operation' \in Operations
    <2>1. PICK ended \in {"no", "failed"} :
            operation' = [type |-> type, plan |-> request.plan, info |-> request.info, ended |-> ended]
      BY DEF Waits
    <2> QED BY <2>1 DEF Operations
  <1>2. requests' \in 0..MaxRequests
    BY VersionsAssumption DEF TypeOK, Waits
  <1> QED BY <1>1, <1>2, NoneIsNothing DEF Waits

LEMMA Provisions ==
  ASSUME IInv, NEW request \in Requests, Provision(request)
  PROVE  IInv'
  <1>1. request.plan \in Offered(config) /\ request.info \in Infos /\ request.plan \in Plans /\ config \in Configs
    BY Accepted, ConfigPlans DEF IInv, TypeOK, Provision, CanProvision
  <1>2. request.params \in Params \cup {Absent}
    BY DEF Requests
  <1>3. task' \in Manifests /\ task'.plan = request.plan /\ task' # None
    BY <1>1, <1>2, Generates, NoneIsNothing DEF Provision, Create
  <1>4. operation = None /\ requests < MaxRequests /\ instance = None /\ Waits("create", request)
        /\ (~UpdatesDuringErrand => errandPlan = None)
    BY DEF Provision, MaySend
  <1>5. /\ operation' \in Operations /\ operation' # None
        /\ operation'.type = "create" /\ operation'.plan = request.plan /\ operation'.ended \in {"no", "failed"}
        /\ requests' \in 0..MaxRequests
        /\ UNCHANGED <<config, catalog, instance, deployed, errandPlan, restarts>>
    BY <1>1, <1>4, Waiting DEF IInv
  <1>6. TypeOK'
    BY <1>3, <1>5 DEF IInv, TypeOK
  <1>7. OperationInv' /\ RecordInv'
    BY <1>3, <1>4, <1>5 DEF OperationInv, RecordInv
  <1>8. OfferInv'
    BY <1>1, <1>5 DEF IInv, OfferInv, PlanStaysOffered
  <1> QED BY <1>6, <1>7, <1>8 DEF IInv

LEMMA Updates ==
  ASSUME IInv, NEW request \in Requests, Update(request)
  PROVE  IInv'
  <1>1. request.params \in Params \cup {Absent} /\ config \in Configs /\ Absent \in Params \cup {Absent}
        /\ deployed \in Manifests \cup {None}
    BY DEF Requests, IInv, TypeOK
  <1>2. operation = None /\ requests < MaxRequests /\ instance # None
        /\ (~UpdatesDuringErrand => errandPlan = None)
    BY DEF Update, MaySend
  <1>3. \E type \in {"update", "upgrade"} :
          /\ Waits(type, request) /\ request.plan \in Offered(config) /\ request.info \in Infos
          /\ task' \in Manifests /\ task'.plan = request.plan
    <2>1. CASE /\ DecideOperation(config, request, Previous) = "update"
               /\ DeployerUpdate(request, instance.plan) /\ Waits("update", request)
      <3>1. request.plan \in Offered(config)
        BY <2>1 DEF DeployerUpdate
      <3>2. validateMaintenanceInfo(config, request.plan, request.info) \in {"valid", "nil-in-the-request"}
        BY <2>1 DEF DecideOperation, validateMaintenanceInfo
      <3>3. task' \in Manifests /\ task'.plan = request.plan
        BY <1>1, <2>1, <3>1, Generates DEF DeployerUpdate
      <3> QED BY <1>1, <2>1, <3>1, <3>2, <3>3, Accepted
    <2>2. CASE /\ DecideOperation(config, request, Previous) = "upgrade"
               /\ DeployerUpgrade(request.plan) /\ Waits("upgrade", request)
      <3>1. request.plan \in Offered(config)
        BY <2>2 DEF DeployerUpgrade
      <3>2. validateMaintenanceInfo(config, request.plan, request.info) \in {"valid", "nil-in-the-request"}
        BY <2>2 DEF DecideOperation, validateMaintenanceInfo
      <3>3. task' \in Manifests /\ task'.plan = request.plan
        BY <1>1, <2>2, <3>1, Generates DEF DeployerUpgrade
      <3> QED BY <1>1, <2>2, <3>1, <3>2, <3>3, Accepted
    <2> QED BY <2>1, <2>2 DEF Update
  <1>4. PICK type \in {"update", "upgrade"} :
          /\ Waits(type, request) /\ request.plan \in Offered(config) /\ request.info \in Infos
          /\ task' \in Manifests /\ task'.plan = request.plan
    BY <1>3
  <1>5. request.plan \in Plans /\ task' # None
    BY <1>1, <1>4, ConfigPlans, NoneIsNothing
  <1>6. /\ operation' \in Operations /\ operation' # None
        /\ operation'.type = type /\ operation'.plan = request.plan /\ operation'.ended \in {"no", "failed"}
        /\ requests' \in 0..MaxRequests
        /\ UNCHANGED <<config, catalog, instance, deployed, errandPlan, restarts>>
    BY <1>2, <1>4, <1>5, Waiting DEF IInv
  <1>7. TypeOK'
    BY <1>4, <1>6 DEF IInv, TypeOK
  <1>8. OperationInv' /\ RecordInv'
    BY <1>2, <1>4, <1>5, <1>6 DEF OperationInv, RecordInv
  <1>9. OfferInv'
    BY <1>4, <1>6 DEF IInv, OfferInv, PlanStaysOffered
  <1> QED BY <1>7, <1>8, <1>9 DEF IInv

LEMMA TasksEnd ==
  ASSUME IInv, NEW succeeds \in BOOLEAN, TaskEnds(succeeds)
  PROVE  IInv'
  <1>1. /\ task # None /\ task' = None /\ deployed' \in {task, deployed} /\ (succeeds => deployed' = task)
        /\ UNCHANGED <<config, catalog, instance, errandPlan, requests, restarts>>
    BY DEF TaskEnds
  <1>2. CASE operation # None /\ operation.ended = "no"
    <2> DEFINE o == [operation EXCEPT !.ended = IF succeeds THEN "succeeded" ELSE "failed"]
    <2>1. operation' = o
      BY <1>2 DEF TaskEnds
    <2>2. operation \in Operations
      BY <1>2 DEF IInv, TypeOK
    <2>3. o \in Operations /\ o.type = operation.type /\ o.plan = operation.plan
          /\ o.ended = (IF succeeds THEN "succeeded" ELSE "failed")
      BY <2>2 DEF Operations
    <2> HIDE DEF o
    <2>4. operation' # None /\ operation' \in Operations
      BY <2>1, <2>3, NoneIsNothing
    <2>5. TypeOK'
      BY <1>1, <2>4 DEF IInv, TypeOK
    <2>6. OperationInv'
      BY <1>1, <1>2, <2>1, <2>3 DEF IInv, OperationInv
    <2>7. RecordInv' /\ OfferInv'
      BY <1>1, <1>2, <2>1, <2>3, <2>4 DEF IInv, RecordInv, OfferInv, PlanStaysOffered
    <2> QED BY <2>5, <2>6, <2>7 DEF IInv
  <1>3. CASE ~(operation # None /\ operation.ended = "no")
    <2>1. operation' = operation
      BY <1>3 DEF TaskEnds
    <2>2. TypeOK'
      BY <1>1, <2>1 DEF IInv, TypeOK
    <2>3. OperationInv'
      BY <1>1, <1>3, <2>1 DEF IInv, OperationInv
    <2>4. RecordInv' /\ OfferInv'
      BY <1>1, <1>3, <2>1 DEF IInv, RecordInv, OfferInv, PlanStaysOffered
    <2> QED BY <2>2, <2>3, <2>4 DEF IInv
  <1> QED BY <1>2, <1>3

LEMMA OperationRecorded ==
  ASSUME IInv, Records
  PROVE  IInv'
  <1>1. /\ operation \in Operations /\ operation # None /\ operation.ended # "no" /\ operation' = None
        /\ UNCHANGED <<config, catalog, task, errandPlan, requests, restarts>>
    BY DEF Records, IInv, TypeOK
  <1>2. operation.plan \in Plans /\ operation.info \in Infos
    BY <1>1 DEF Operations
  <1>3. OperationInv'
    BY <1>1 DEF OperationInv
  <1>4. CASE /\ operation.ended = "succeeded" /\ UNCHANGED deployed
             /\ instance' = [plan |-> operation.plan, ok |-> TRUE,
                             info |-> IF operation.info = NoInfo /\ instance # None
                                      THEN instance.info ELSE operation.info]
    <2>1. instance # None => instance.info \in Infos
      BY DEF IInv, TypeOK, Instances
    <2>2. instance' \in Instances /\ instance'.plan = operation.plan /\ instance' # None
      <3> DEFINE info == IF operation.info = NoInfo /\ instance # None THEN instance.info ELSE operation.info
      <3>1. info \in Infos
        BY <1>2, <2>1
      <3>2. instance' = [plan |-> operation.plan, ok |-> TRUE, info |-> info]
        BY <1>4
      <3> HIDE DEF info
      <3>3. instance' \in Instances
        BY <1>2, <3>1, <3>2 DEF Instances
      <3> QED BY <3>2, <3>3, NoneIsNothing
    <2>3. TypeOK'
      BY <1>1, <1>4, <2>2 DEF IInv, TypeOK
    <2>4. RecordInv'
      BY <1>1, <1>4, <2>2 DEF IInv, OperationInv, RecordInv
    <2>5. OfferInv'
      BY <1>1, <2>2 DEF IInv, OfferInv, PlanStaysOffered
    <2> QED BY <1>3, <2>3, <2>4, <2>5 DEF IInv
  <1>5. CASE /\ operation.ended = "failed" /\ operation.type = "create"
             /\ task = None /\ deployed' = None /\ UNCHANGED instance
    <2>1. instance = None
      BY <1>1, <1>5 DEF IInv, OperationInv
    <2>2. TypeOK'
      BY <1>1, <1>5 DEF IInv, TypeOK
    <2>3. RecordInv'
      BY <1>1, <1>5, <2>1 DEF IInv, OperationInv, RecordInv
    <2>4. OfferInv'
      BY <1>1, <1>5 DEF IInv, OfferInv, PlanStaysOffered
    <2> QED BY <1>3, <2>2, <2>3, <2>4 DEF IInv
  <1>6. CASE /\ operation.ended = "failed" /\ operation.type # "create"
             /\ instance' = [instance EXCEPT !.ok = FALSE] /\ UNCHANGED deployed
    <2>1. instance \in Instances
      BY <1>1, <1>6 DEF IInv, TypeOK, OperationInv
    <2>2. instance' \in Instances /\ instance'.plan = instance.plan /\ ~instance'.ok
      BY <1>6, <2>1 DEF Instances
    <2>3. TypeOK'
      BY <1>1, <1>6, <2>2 DEF IInv, TypeOK
    <2>4. RecordInv'
      BY <1>1, <1>6, <2>2, NoneIsNothing DEF IInv, OperationInv, RecordInv
    <2>5. OfferInv'
      BY <1>1, <2>1, <2>2, NoneIsNothing DEF IInv, OfferInv, PlanStaysOffered
    <2> QED BY <1>3, <2>3, <2>4, <2>5 DEF IInv
  <1> QED BY <1>4, <1>5, <1>6 DEF Records

\* The errand reads the plan on record and sends it, or is refused.
LEMMA ErrandSteps ==
  ASSUME IInv, LatestInstanceInfo \/ ErrandUpgrades \/ ErrandRefused
  PROVE  IInv'
  <1>1. UNCHANGED <<config, catalog, instance, deployed, operation, requests, restarts>>
    BY DEF LatestInstanceInfo, ErrandUpgrades, ErrandRefused
  <1>2. OfferInv'
    BY <1>1 DEF IInv, OfferInv, PlanStaysOffered
  <1>3. CASE LatestInstanceInfo
    <2>1. errandPlan' = instance.plan /\ UNCHANGED task /\ instance # None /\ (UpdatesDuringErrand \/ operation = None)
      BY <1>3 DEF LatestInstanceInfo
    <2>2. instance.plan \in Plans
      BY <2>1 DEF IInv, TypeOK, Instances
    <2>3. TypeOK'
      BY <1>1, <2>1, <2>2 DEF IInv, TypeOK
    <2>4. OperationInv' /\ RecordInv'
      BY <1>1, <2>1 DEF IInv, OperationInv, RecordInv
    <2> QED BY <1>2, <2>3, <2>4 DEF IInv
  <1>4. CASE ErrandUpgrades
    <2>1. errandPlan # None /\ errandPlan' = None /\ errandPlan \in Offered(config)
          /\ task' = GenerateManifest(config, errandPlan, Absent, deployed)
      BY <1>4 DEF ErrandUpgrades, DeployerUpgrade
    <2>2. task' \in Manifests /\ task'.plan = errandPlan
      BY <2>1, Generates DEF IInv, TypeOK
    <2>3. TypeOK'
      BY <1>1, <2>1, <2>2 DEF IInv, TypeOK
    <2>4. OperationInv' /\ RecordInv'
      BY <1>1, <2>1, <2>2 DEF IInv, OperationInv, RecordInv
    <2> QED BY <1>2, <2>3, <2>4 DEF IInv
  <1>5. CASE ErrandRefused
    <2>1. errandPlan' = None /\ UNCHANGED task
      BY <1>5 DEF ErrandRefused
    <2>2. TypeOK'
      BY <1>1, <2>1 DEF IInv, TypeOK
    <2>3. OperationInv' /\ RecordInv'
      BY <1>1, <2>1 DEF IInv, OperationInv, RecordInv
    <2> QED BY <1>2, <2>2, <2>3 DEF IInv
  <1> QED BY <1>3, <1>4, <1>5

LEMMA Restarts ==
  ASSUME IInv, NEW c \in Configs, RestartBroker(c)
  PROVE  IInv'
  <1>1. /\ restarts < MaxRestarts /\ restarts' = restarts + 1 /\ config' = c
        /\ (RestartsDuringUpdate \/ operation = None) /\ (instance # None => instance.plan \in Offered(c))
        /\ UNCHANGED <<catalog, instance, deployed, task, operation, errandPlan, requests>>
    BY DEF RestartBroker, CFPlanConsistencyChecker
  <1>2. TypeOK'
    <2>1. restarts' \in 0..MaxRestarts
      BY <1>1, VersionsAssumption DEF IInv, TypeOK
    <2> QED BY <1>1, <2>1 DEF IInv, TypeOK
  <1>3. OperationInv' /\ RecordInv'
    BY <1>1 DEF IInv, OperationInv, RecordInv
  <1>4. OfferInv'
    BY <1>1 DEF IInv, OfferInv, PlanStaysOffered
  <1> QED BY <1>2, <1>3, <1>4 DEF IInv

LEMMA Registers ==
  ASSUME IInv, RegisterBroker \/ UNCHANGED versionVars
  PROVE  IInv'
  <1>1. /\ catalog' \in {catalog, config}
        /\ UNCHANGED <<config, instance, deployed, task, operation, errandPlan, requests, restarts>>
    BY DEF RegisterBroker, versionVars
  <1>2. TypeOK'
    BY <1>1 DEF IInv, TypeOK
  <1>3. OperationInv' /\ RecordInv' /\ OfferInv'
    BY <1>1 DEF IInv, OperationInv, RecordInv, OfferInv, PlanStaysOffered
  <1> QED BY <1>2, <1>3 DEF IInv

LEMMA IInvInit == Init => IInv
  <1> SUFFICES ASSUME Init PROVE IInv
    OBVIOUS
  <1>1. 0 \in 0..MaxRequests /\ 0 \in 0..MaxRestarts
    BY VersionsAssumption
  <1> QED BY <1>1 DEF Init, IInv, TypeOK, OperationInv, RecordInv, OfferInv, PlanStaysOffered

LEMMA IInvNext == IInv /\ [Next]_versionVars => IInv'
  BY Provisions, Updates, TasksEnd, OperationRecorded, ErrandSteps, Restarts, Registers DEF Next
-----------------------------------------------------------------------------
\* IInvHolds: the inductive invariant is an invariant.
THEOREM IInvHolds == Spec => []IInv
  BY IInvInit, IInvNext, PTL DEF Spec

\* TypeCorrect: every variable stays in its domain; what is deployed was generated from one
\* configuration, for one plan (task.go:290).
THEOREM TypeCorrect == Spec => []TypeOK
  BY IInvHolds, PTL DEF IInv

\* RecordIsDeployed: when users' operations do not overlap with the errand's, the deployment has the
\* plan on record whenever nothing is going on and the last operation succeeded (task.go:165,
\* upgrade.go:57).
THEOREM RecordIsDeployed ==
  ASSUME ~UpdatesDuringErrand PROVE Spec => []RecordedPlanIsDeployed
  <1>1. IInv => RecordedPlanIsDeployed
    BY DEF IInv, RecordInv, RecordedPlanIsDeployed, Settled
  <1> QED BY <1>1, IInvHolds, PTL

\* RecordIsOffered: when the broker is not redeployed during an operation, it offers the plan on record
\* (cf_plan_consistency_checker.go:34).
THEOREM RecordIsOffered ==
  ASSUME ~RestartsDuringUpdate PROVE Spec => []PlanStaysOffered
  <1>1. IInv => PlanStaysOffered
    BY DEF IInv, OfferInv
  <1> QED BY <1>1, IInvHolds, PTL

\* Decided: an upgrade is what asks for the catalog's maintenance_info and for nothing else,
\* an update never touches what is out of date on Cloud Foundry's record, and what is up to
\* date can be updated; for any configurations and whatever they are called (decider.go:52).
THEOREM Decided == Spec => []DecidesAsSpecified
  <1>1. TypeOK => DecidesAsSpecified
    <2> SUFFICES ASSUME TypeOK, instance # None, NEW request \in Requests
                 PROVE  LET decision == DecideOperation(config, request, Previous)
                            current(p) == generateMaintenanceInfo(config, p)
                        IN  /\ decision = "upgrade" <=>
                                 /\ request.plan \in Offered(config) /\ request.info = current(request.plan)
                                 /\ {f \in DOMAIN request : CASE f = "plan"   -> request.plan # instance.plan
                                                              [] f = "info"   -> request.info # instance.info
                                                              [] f = "params" -> request.params # Absent} = {"info"}
                            /\ decision = "update" =>
                                 \/ instance.info = NoInfo \/ instance.plan \notin Offered(config)
                                 \/ instance.info = current(instance.plan)
                            /\ (/\ {request.plan, instance.plan} \subseteq Offered(config)
                                /\ request.info = current(request.plan) /\ instance.info = current(instance.plan))
                               => decision = "update"
      BY DEF DecidesAsSpecified
    <2>1. DOMAIN request = {"plan", "info", "params"}
      BY DEF Requests
    <2> DEFINE changed == {f \in DOMAIN request : CASE f = "plan"   -> request.plan # instance.plan
                                                    [] f = "info"   -> request.info # instance.info
                                                    [] f = "params" -> request.params # Absent}
    <2>2. changed = {"info"} <=>
            request.plan = instance.plan /\ request.info # instance.info /\ request.params = Absent
      <3>1. "plan" \in changed <=> request.plan # instance.plan
        BY <2>1
      <3>2. "info" \in changed <=> request.info # instance.info
        BY <2>1
      <3>3. "params" \in changed <=> request.params # Absent
        BY <2>1
      <3>4. changed \subseteq {"plan", "info", "params"}
        BY <2>1
      <3> HIDE DEF changed
      <3> QED BY <3>1, <3>2, <3>3, <3>4
    <2>3. Previous.plan = instance.plan /\ Previous.info = instance.info
      BY DEF Previous
    <2> HIDE DEF changed
    <2>4. DecideOperation(config, request, Previous) = "upgrade" <=>
            /\ request.plan \in Offered(config) /\ request.info = generateMaintenanceInfo(config, request.plan)
            /\ changed = {"info"}
      BY <2>2, <2>3 DEF DecideOperation, validateMaintenanceInfo
    <2>5. DecideOperation(config, request, Previous) = "update" =>
            \/ instance.info = NoInfo \/ instance.plan \notin Offered(config)
            \/ instance.info = generateMaintenanceInfo(config, instance.plan)
      BY <2>3 DEF DecideOperation, validateMaintenanceInfo, mustBeUpgradedFirst
    <2>6. ASSUME {request.plan, instance.plan} \subseteq Offered(config),
                 request.info = generateMaintenanceInfo(config, request.plan),
                 instance.info = generateMaintenanceInfo(config, instance.plan)
          PROVE  DecideOperation(config, request, Previous) = "update"
      BY <2>3, <2>6 DEF DecideOperation, validateMaintenanceInfo, mustBeUpgradedFirst
    <2> QED BY <2>4, <2>5, <2>6 DEF changed
  <1> QED BY <1>1, TypeCorrect, PTL

\* ReleaseKept: with the check for pending changes an update starts from a deployment of the plan on
\* record and keeps the release unless the plan changes, for any adapter configuration (task.go:192).
THEOREM ReleaseKept ==
  ASSUME ~SkipCheckForPendingChanges PROVE Spec => UpdateKeepsRelease
  <1>1. ASSUME IInv, Next, operation = None, operation' # None, operation'.type = "update"
        PROVE  /\ deployed.plan = instance.plan
               /\ operation'.plan = instance.plan => task'.release = deployed.release
    <2>1. PICK request \in Requests :
            /\ DeployerUpdate(request, instance.plan) /\ Waits("update", request)
      BY <1>1 DEF Next, Provision, Update, Waits, TaskEnds, Records, LatestInstanceInfo, ErrandUpgrades,
                  ErrandRefused, RestartBroker, RegisterBroker
    <2>2. /\ deployed # None /\ request.plan \in Offered(config) /\ instance.plan \in Offered(config)
          /\ checkForPendingChanges(instance.plan) /\ config \in Configs
          /\ task' = GenerateManifest(config, request.plan, request.params, deployed)
          /\ operation'.plan = request.plan
      BY <1>1, <2>1 DEF DeployerUpdate, Waits, IInv, TypeOK
    <2> DEFINE m == GenerateManifest(config, instance.plan, Absent, deployed)
    <2>3. m.plan = instance.plan /\ m.release = config.plans[instance.plan].release
          /\ DOMAIN m = {"plan", "release", "update", "params"}
      BY DEF GenerateManifest
    <2>4. DOMAIN deployed = {"plan", "release", "update", "params"}
      BY <1>1, <2>2 DEF IInv, TypeOK, Manifests, GenerateManifest
    <2>5. [m EXCEPT !.update = 0] = [deployed EXCEPT !.update = 0]
      BY <2>2 DEF checkForPendingChanges, ManifestsAreTheSame
    <2> HIDE DEF m
    <2>6. m.plan = deployed.plan /\ m.release = deployed.release
      <3>1. [m EXCEPT !.update = 0].plan = m.plan /\ [m EXCEPT !.update = 0].release = m.release
        BY <2>3
      <3>2. [deployed EXCEPT !.update = 0].plan = deployed.plan
            /\ [deployed EXCEPT !.update = 0].release = deployed.release
        BY <2>4
      <3> QED BY <2>5, <3>1, <3>2
    <2>7. task'.release = config.plans[request.plan].release
      BY <2>2 DEF GenerateManifest
    <2> QED BY <2>2, <2>3, <2>6, <2>7
  <1>2. IInv /\ [Next]_versionVars =>
          [operation = None /\ operation' # None /\ operation'.type = "update" =>
             /\ deployed.plan = instance.plan
             /\ operation'.plan = instance.plan => task'.release = deployed.release]_versionVars
    BY <1>1
  <1> QED BY <1>2, IInvHolds, PTL DEF Spec, UpdateKeepsRelease
==============================================================================
