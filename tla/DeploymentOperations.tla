------------------------ MODULE DeploymentOperations ------------------------
(***************************************************************************)
(* The broker's asynchronous operations on one service instance:           *)
(* Provision, Update, Upgrade, Recreate and Deprovision.  A request is one *)
(* handler goroutine; a step is one call it makes to BOSH, UAA or CredHub, *)
(* taken with deploymentLock held unless it says otherwise.                *)
(***************************************************************************)
EXTENDS BoshDirector

CONSTANTS Types,         \* the operations the clients of this instance send
          PostErrands,   \* number of the plan's post-deploy errands
          PreErrands,    \* number of the plan's pre-delete errands
          FaultKinds,    \* what may go wrong in this instance
          MaxFaults      \* bound on how often it does

OperationTypes == {"create", "update", "upgrade", "recreate", "delete", "force-delete"}
DeleteTypes    == {"delete", "force-delete"}

ASSUME OperationsAssumption ==
         /\ Types \subseteq OperationTypes
         /\ PostErrands \in Nat
         /\ PreErrands \in Nat
         /\ FaultKinds \subseteq {"error", "abandon", "restart"}
         /\ MaxFaults \in Nat

VARIABLES configs,    \* the deployment has BOSH configs
          secrets,    \* the deployment has broker-managed CredHub secrets
          client,     \* the instance has a UAA client
          lock,       \* holder of deploymentLock
          type,       \* type of each request
          pc,         \* next call of each handler, or how it ended
          opTask,     \* BoshTaskID of the operation (0: none)
          abandoned,  \* requests whose client gave up waiting or polling
          faults      \* failed calls and rejections, clients giving up, restarts so far

resources     == <<configs, secrets, client>>
operationVars == <<resources, lock, type, pc, opTask, abandoned, faults>>
-----------------------------------------------------------------------------
Ended      == {"accepted", "failed", "gone", "lost"}
CallPcs    == {"find", "client", "busy", "manifest", "secrets", "configs", "deploy", "finish",
               "goneConfigs", "goneSecrets", "errand", "delete", "dropClient", "deleteFailed"}
HandlerPcs == {"unsent", "updateClient", "lock"} \cup CallPcs \cup Ended

InFlight(r) == pc[r] \notin Ended \cup {"unsent"}

(***************************************************************************)
(* The calls of each operation, in order, once it has the lock: what comes *)
(* after each call when it returns no error and no check fails.            *)
(***************************************************************************)
ProvisionCalls == [lock |-> "find", find |-> "client", client |-> "busy", busy |-> "secrets",
                   secrets |-> "configs", configs |-> "deploy", deploy |-> "finish"]
UpdateCalls    == [lock |-> "busy", busy |-> "manifest", manifest |-> "secrets",
                   secrets |-> "configs", configs |-> "deploy", deploy |-> "finish"]
UpgradeCalls   == [lock |-> "client", client |-> "busy", busy |-> "manifest", manifest |-> "secrets",
                   secrets |-> "configs", configs |-> "deploy", deploy |-> "finish"]
RecreateCalls  == [lock |-> "busy", busy |-> "deploy"]
\* A plan that the catalog does not list any more has no pre-delete errands here, whatever it had.
DeprovisionCalls == [lock |-> "find", find |-> "busy",
                     busy |-> IF PreErrands > 0 THEN "errand" ELSE "delete",
                     delete |-> "dropClient"]

Calls(ty) ==
  CASE ty = "create"       -> ProvisionCalls
    [] ty = "update"       -> UpdateCalls
    [] ty = "upgrade"      -> UpgradeCalls
    [] ty = "recreate"     -> RecreateCalls
    [] ty \in DeleteTypes  -> DeprovisionCalls

\* OperationData: the errands, and whether it carries a BoshContextID.
Errands(r) == IF type[r] \in DeleteTypes THEN PreErrands ELSE PostErrands
HasContext(r) ==
  CASE type[r] = "update"       -> PostErrands > 0
    [] type[r] \in DeleteTypes  -> PreErrands > 0
    [] OTHER                    -> PostErrands + PreErrands > 0
BoshContextID(r) == IF HasContext(r) THEN r ELSE NoRequest

Fault(kind) ==
  /\ kind \in FaultKinds
  /\ faults < MaxFaults
  /\ faults' = faults + 1

Goto(r, next) == pc' = [pc EXCEPT ![r] = next]
Proceed(r)    == Goto(r, Calls(type[r])[pc[r]]) /\ UNCHANGED lock

\* The handler returns and its deferred Unlock runs.
Reply(r, how) ==
  /\ Goto(r, how)
  /\ lock' = IF lock = r THEN NoRequest ELSE lock

\* The BoshTaskID that goes into the operation data.
Remember(r, t) == opTask' = [opTask EXCEPT ![r] = t]
-----------------------------------------------------------------------------
Acquire_WithoutLock(r) ==
  /\ pc[r] = "lock"
  /\ lock' = r
  /\ Goto(r, Calls(type[r])["lock"])
  /\ UNCHANGED <<directorVars, resources, type, opTask, abandoned, faults>>

Acquire(r) ==
  /\ pc[r] = "lock" /\ lock = NoRequest
  /\ lock' = r
  /\ Goto(r, Calls(type[r])["lock"])
  /\ UNCHANGED <<directorVars, resources, type, opTask, abandoned, faults>>

\* Update gets or creates the UAA client before it takes the lock.
GetServiceInstanceClientForUpdate(r) ==
  /\ pc[r] = "updateClient"
  /\ client' = TRUE
  /\ Goto(r, "lock")
  /\ UNCHANGED <<directorVars, configs, secrets, lock, type, opTask, abandoned, faults>>

\* Provision refuses an instance whose deployment exists.
FindDeploymentToProvision(r) ==
  /\ pc[r] = "find" /\ type[r] = "create"
  /\ \/ deployed  /\ Reply(r, "failed")
     \/ ~deployed /\ Proceed(r)
  /\ UNCHANGED <<directorVars, resources, type, opTask, abandoned, faults>>

\* CreateClient for a create, get-or-create for an upgrade.
CreateClient(r) ==
  /\ pc[r] = "client"
  /\ client' = TRUE
  /\ Proceed(r)
  /\ UNCHANGED <<directorVars, configs, secrets, type, opTask, abandoned, faults>>
-----------------------------------------------------------------------------
(* Deployer *)

AssertNoOperationsInProgress(r) ==
  /\ pc[r] = "busy" /\ type[r] \notin DeleteTypes
  /\ \/ GetTasksInProgress # {} /\ Reply(r, "failed")
     \/ GetTasksInProgress = {} /\ Proceed(r)
  /\ UNCHANGED <<directorVars, resources, type, opTask, abandoned, faults>>

GetDeploymentManifest_NotChecked(r) ==
  /\ pc[r] = "manifest"
  /\ Proceed(r)
  /\ UNCHANGED <<directorVars, resources, type, opTask, abandoned, faults>>

\* Update and Upgrade need the deployed manifest (DeploymentNotFoundError).
GetDeploymentManifest(r) ==
  /\ pc[r] = "manifest"
  /\ \/ ~deployed /\ Reply(r, "failed")
     \/ deployed  /\ Proceed(r)
  /\ UNCHANGED <<directorVars, resources, type, opTask, abandoned, faults>>

BulkSet(r) ==
  /\ pc[r] = "secrets"
  /\ secrets' = TRUE
  /\ Proceed(r)
  /\ UNCHANGED <<directorVars, configs, client, type, opTask, abandoned, faults>>

UpdateConfigs(r) ==
  /\ pc[r] = "configs"
  /\ configs' = TRUE
  /\ Proceed(r)
  /\ UNCHANGED <<directorVars, secrets, client, type, opTask, abandoned, faults>>

DeployManifest(r) ==
  /\ pc[r] = "deploy" /\ type[r] # "recreate"
  /\ Deploy(BoshContextID(r))
  /\ Remember(r, lastTask + 1)
  /\ Proceed(r)
  /\ UNCHANGED <<deployed, resources, type, abandoned, faults>>

RecreateDeployment(r) ==
  /\ pc[r] = "deploy" /\ type[r] = "recreate"
  /\ \/ Recreate(BoshContextID(r)) /\ Remember(r, lastTask + 1) /\ Reply(r, "accepted")
     \/ ~deployed /\ Reply(r, "failed") /\ UNCHANGED <<tasks, lastTask, opTask>>
  /\ UNCHANGED <<deployed, resources, type, abandoned, faults>>

\* The dashboard URL and the UAA client's redirect URI, then the answer.  A broker that has no
\* definition of a client any more would delete an old one here: the definition stays.
FinishDeploy(r) ==
  /\ pc[r] = "finish"
  /\ Reply(r, "accepted")
  /\ UNCHANGED <<directorVars, resources, type, opTask, abandoned, faults>>
-----------------------------------------------------------------------------
(* Deprovision *)

AssertDeploymentExists(r) ==
  /\ pc[r] = "find" /\ type[r] \in DeleteTypes
  /\ \/ deployed  /\ Proceed(r)
     \/ ~deployed /\ Goto(r, "goneConfigs") /\ UNCHANGED lock
  /\ UNCHANGED <<directorVars, resources, type, opTask, abandoned, faults>>

DeleteConfigsForNotFoundInstance(r) ==
  /\ pc[r] = "goneConfigs"
  /\ configs' = FALSE
  /\ Goto(r, "goneSecrets")
  /\ UNCHANGED <<directorVars, secrets, client, lock, type, opTask, abandoned, faults>>

ClearSecretsForNotFoundInstance(r) ==
  /\ pc[r] = "goneSecrets"
  /\ secrets' = FALSE
  /\ Reply(r, "gone")
  /\ UNCHANGED <<directorVars, configs, client, type, opTask, abandoned, faults>>

DeprovisionAssertNoOperations(r) ==
  /\ pc[r] = "busy" /\ type[r] \in DeleteTypes
  /\ \/ GetTasksInProgress # {} /\ Reply(r, "failed")
     \/ GetTasksInProgress = {} /\ Proceed(r)
  /\ UNCHANGED <<directorVars, resources, type, opTask, abandoned, faults>>

RunPreDeleteErrands(r) ==
  /\ pc[r] = "errand"
  /\ \/ RunErrand(r, 1) /\ Remember(r, lastTask + 1) /\ Reply(r, "accepted")
     \/ ~deployed /\ Reply(r, "failed") /\ UNCHANGED <<tasks, lastTask, opTask>>
  /\ UNCHANGED <<deployed, resources, type, abandoned, faults>>

DeleteInstance(r) ==
  /\ pc[r] = "delete"
  /\ DeleteDeployment(NoRequest, 0)
  /\ Remember(r, DeleteTaskId)
  /\ Proceed(r)
  /\ UNCHANGED <<deployed, resources, type, abandoned, faults>>

\* The UAA client goes whether or not the delete was accepted; an error of
\* this call is only logged.
DeleteClient(r) ==
  /\ pc[r] \in {"dropClient", "deleteFailed"}
  /\ client' = FALSE
  /\ Reply(r, IF pc[r] = "dropClient" THEN "accepted" ELSE "failed")
  /\ UNCHANGED <<directorVars, configs, secrets, type, opTask, abandoned, faults>>
-----------------------------------------------------------------------------
(***************************************************************************)
(* A call of the handler returns an error, or a check on the request (plan,*)
(* quota, schema, pending changes) rejects it: the handler answers with an *)
(* error.  What earlier calls did stays done, and the configs may be       *)
(* updated in part.                                                        *)
(***************************************************************************)
HandlerFails(r) ==
  /\ pc[r] \in CallPcs \cup {"updateClient"}
  /\ Fault("error")
  /\ CASE pc[r] = "delete"       -> Goto(r, "deleteFailed") /\ UNCHANGED lock
       [] pc[r] = "dropClient"   -> Reply(r, "accepted")
       [] OTHER                  -> Reply(r, "failed")
  /\ configs' \in IF pc[r] = "configs" THEN {configs, TRUE} ELSE {configs}
  /\ UNCHANGED <<directorVars, secrets, client, type, opTask, abandoned>>

HandlerStep(r) ==
  \/ Acquire(r)
  \/ GetServiceInstanceClientForUpdate(r)
  \/ FindDeploymentToProvision(r)
  \/ CreateClient(r)
  \/ AssertNoOperationsInProgress(r)
  \/ GetDeploymentManifest(r)
  \/ BulkSet(r)
  \/ UpdateConfigs(r)
  \/ DeployManifest(r)
  \/ RecreateDeployment(r)
  \/ FinishDeploy(r)
  \/ AssertDeploymentExists(r)
  \/ DeleteConfigsForNotFoundInstance(r)
  \/ ClearSecretsForNotFoundInstance(r)
  \/ DeprovisionAssertNoOperations(r)
  \/ RunPreDeleteErrands(r)
  \/ DeleteInstance(r)
  \/ DeleteClient(r)

\* An instance is either new or was provisioned earlier with everything.
OperationsInit ==
  /\ DirectorInit
  /\ configs = deployed /\ secrets = deployed /\ client = deployed
  /\ lock = NoRequest
  /\ type = [r \in Requests |-> "none"]
  /\ pc = [r \in Requests |-> "unsent"]
  /\ opTask = [r \in Requests |-> 0]
  /\ abandoned = {}
  /\ faults = 0

OperationsTypeOK ==
  /\ DirectorTypeOK
  /\ configs \in BOOLEAN /\ secrets \in BOOLEAN /\ client \in BOOLEAN
  /\ lock \in Requests \cup {NoRequest}
  /\ type \in [Requests -> OperationTypes \cup {"none"}]
  /\ pc \in [Requests -> HandlerPcs]
  /\ opTask \in [Requests -> 0..MaxTasks]
  /\ abandoned \subseteq Requests
  /\ faults \in 0..MaxFaults
=============================================================================
