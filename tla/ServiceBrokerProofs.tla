------------------------ MODULE ServiceBrokerProofs ------------------------
(***************************************************************************)
(* Theorems about ServiceBroker, for any number of requests, pollers,      *)
(* errands, tasks and faults.                                              *)
(***************************************************************************)
EXTENDS ServiceBrokerProperties, FiniteSetTheorems, WellFoundedInduction, TLAPS

(***************************************************************************)
(* Which calls an operation of type ty can be about to make: without it the*)
(* next call, Calls(ty)[at], need not exist.                               *)
(***************************************************************************)
Fits(ty, at) ==
  /\ at # "unsent" => ty \in OperationTypes
  /\ at = "find"                     => ty \in {"create"} \cup DeleteTypes
  /\ at = "client"                   => ty \in {"create", "upgrade"}
  /\ at = "manifest"                 => ty \in {"update", "upgrade"}
  /\ at \in {"secrets", "configs"}   => ty \in {"create", "update", "upgrade"}
  /\ at = "deploy"                   => ty \in {"create", "update", "upgrade", "recreate"}
  /\ at \in {"errand", "delete"}     => ty \in DeleteTypes

FitsType == \A r \in Requests : Fits(type[r], pc[r])

TypeInv == TypeOK /\ FitsType

Moves      == {"lock", "find", "client", "busy", "manifest", "secrets", "configs", "deploy", "delete"}
AfterCheck == {"manifest", "secrets", "configs", "deploy", "errand", "delete"}

\* CallsFit: the call that follows one that fits an operation fits it too, and
\* only the check for tasks in progress leads into what must come after it
\* (task.go:239, deprovision.go:136).
LEMMA CallsFit ==
  ASSUME NEW ty \in OperationTypes, NEW at \in Moves, Fits(ty, at),
         ~(at = "deploy" /\ ty = "recreate")
  PROVE  /\ Calls(ty)[at] \in CallPcs
         /\ Fits(ty, Calls(ty)[at])
         /\ Calls(ty)[at] \in AfterCheck => at \in AfterCheck \cup {"busy"}
<1> USE DEF Moves, Fits, AfterCheck, CallPcs, OperationTypes, DeleteTypes
<1>1. CASE ty = "create"
  <2>1. Calls(ty) = ProvisionCalls
    BY <1>1 DEF Calls
  <2> QED BY <1>1, <2>1 DEF ProvisionCalls
<1>2. CASE ty = "update"
  <2>1. Calls(ty) = UpdateCalls
    BY <1>2 DEF Calls
  <2> QED BY <1>2, <2>1 DEF UpdateCalls
<1>3. CASE ty = "upgrade"
  <2>1. Calls(ty) = UpgradeCalls
    BY <1>3 DEF Calls
  <2> QED BY <1>3, <2>1 DEF UpgradeCalls
<1>4. CASE ty = "recreate"
  <2>1. Calls(ty) = RecreateCalls
    BY <1>4 DEF Calls
  <2> QED BY <1>4, <2>1 DEF RecreateCalls
<1>5. CASE ty \in DeleteTypes
  <2>1. Calls(ty) = DeprovisionCalls
    BY <1>5 DEF Calls
  <2> QED BY <1>5, <2>1 DEF DeprovisionCalls
<1> QED BY <1>1, <1>2, <1>3, <1>4, <1>5
-----------------------------------------------------------------------------
(* What the polls look up *)

\* NewestIsATask: boshTasks[0] of a list that is not empty is the newest of its
\* tasks (lifecycle_runner.go:71).
LEMMA NewestIsATask ==
  ASSUME NEW ts \in SUBSET TaskId, ts # {}
  PROVE  Newest(ts) \in ts /\ \A t \in ts : t <= Newest(ts)
<1> DEFINE ages == {MaxTasks - t : t \in ts}
<1>1. ages \subseteq Nat /\ ages # {}
  <2>1. \A t \in ts : MaxTasks - t \in Nat
    BY DirectorAssumption DEF TaskId
  <2>2. PICK t \in ts : TRUE
    OBVIOUS
  <2>3. MaxTasks - t \in ages
    BY <2>2
  <2> QED BY <2>1, <2>3
<1>2. PICK a \in ages : \A b \in ages : ~(<<b, a>> \in OpToRel(<, Nat))
  BY <1>1, WFMin, NatLessThanWellFounded
<1>3. PICK t \in ts : a = MaxTasks - t
  BY <1>2
<1>4. \A u \in ts : u <= t
  <2> TAKE u \in ts
  <2>1. ~(<<MaxTasks - u, a>> \in OpToRel(<, Nat)) /\ MaxTasks - u \in Nat
    BY <1>1, <1>2
  <2> QED BY <2>1, <1>1, <1>3, DirectorAssumption DEF OpToRel, TaskId
<1> QED BY <1>4 DEF Newest

\* NextErrandCounts: the number of tasks of a context id is a natural number,
\* and not 0 when there are any (lifecycle_runner.go:75).
LEMMA NextErrandCounts ==
  ASSUME NEW ts \in SUBSET TaskId
  PROVE  Cardinality(ts) \in Nat /\ (ts # {} => Cardinality(ts) >= 1)
<1>1. IsFiniteSet(TaskId)
  BY FS_Interval, DirectorAssumption DEF TaskId
<1>2. IsFiniteSet(ts)
  BY <1>1, FS_Subset
<1> QED BY <1>2, FS_CardinalityType, FS_EmptySet
-----------------------------------------------------------------------------
(* Type correctness *)

\* StartTaskType: a task that is started gets the next id and is a task.
LEMMA StartTaskType ==
  ASSUME DirectorTypeOK, NEW kind \in TaskKinds, NEW c \in ContextIds, NEW step \in Nat,
         StartTask(kind, c, step)
  PROVE  /\ lastTask + 1 \in TaskId
         /\ tasks' \in [TaskId -> Task]
         /\ lastTask' \in 0..MaxTasks
         /\ \A t \in TaskId : t > lastTask' => tasks'[t] = Unused
<1> DEFINE new == [kind |-> kind, ctx |-> c, step |-> step, state |-> "queued", ok |-> TRUE]
<1>1. new \in Task
  BY DEF Task, TaskStates
<1>2. lastTask + 1 \in TaskId /\ lastTask' = lastTask + 1 /\ lastTask \in Nat
  BY DirectorAssumption DEF DirectorTypeOK, StartTask, TaskId
<1>3. tasks' = [tasks EXCEPT ![lastTask + 1] = new]
  BY DEF StartTask
<1>4. tasks' \in [TaskId -> Task]
  BY <1>1, <1>2, <1>3 DEF DirectorTypeOK
<1>5. lastTask' \in 0..MaxTasks
  BY <1>2, DirectorAssumption DEF TaskId
<1>6. ASSUME NEW t \in TaskId, t > lastTask' PROVE tasks'[t] = Unused
  BY <1>2, <1>3, <1>6, DirectorAssumption DEF DirectorTypeOK, TaskId
<1> QED BY <1>2, <1>4, <1>5, <1>6

\* ContextType: the context id of an operation is one the director can store.
LEMMA ContextType == \A r \in Requests : BoshContextID(r) \in ContextIds
  BY DEF BoshContextID, ContextIds

\* ProceedFits: going on to the next call keeps a handler at a call of its
\* operation.
LEMMA ProceedFits ==
  ASSUME TypeInv, NEW r \in Requests, pc[r] \in Moves, ~(pc[r] = "deploy" /\ type[r] = "recreate"),
         Proceed(r), UNCHANGED type
  PROVE  /\ pc' \in [Requests -> HandlerPcs]
         /\ lock' = lock
         /\ FitsType'
         /\ pc'[r] \in CallPcs
         /\ pc'[r] \in AfterCheck => pc[r] \in AfterCheck \cup {"busy"}
         /\ \A q \in Requests \ {r} : pc'[q] = pc[q]
<1>1. type[r] \in OperationTypes /\ Fits(type[r], pc[r])
  BY DEF TypeInv, FitsType, Fits, Moves
<1> DEFINE next == Calls(type[r])[pc[r]]
<1>2. next \in CallPcs /\ Fits(type[r], next) /\ (next \in AfterCheck => pc[r] \in AfterCheck \cup {"busy"})
  BY <1>1, CallsFit
<1>3. pc' = [pc EXCEPT ![r] = next] /\ lock' = lock
  BY DEF Proceed, Goto
<1>4. pc \in [Requests -> HandlerPcs]
  BY DEF TypeInv, TypeOK, OperationsTypeOK
<1> HIDE DEF next
<1>5. pc' \in [Requests -> HandlerPcs] /\ pc'[r] = next /\ \A q \in Requests \ {r} : pc'[q] = pc[q]
  BY <1>2, <1>3, <1>4 DEF HandlerPcs
<1>6. FitsType'
  BY <1>2, <1>5 DEF TypeInv, FitsType
<1> QED BY <1>2, <1>3, <1>5, <1>6

\* ReplyFits: a handler that answers has ended.
LEMMA ReplyFits ==
  ASSUME TypeInv, NEW r \in Requests, NEW how \in Ended, pc[r] # "unsent",
         Reply(r, how), UNCHANGED type
  PROVE  /\ pc' \in [Requests -> HandlerPcs]
         /\ lock' \in Requests \cup {NoRequest}
         /\ lock' = IF lock = r THEN NoRequest ELSE lock
         /\ FitsType'
         /\ pc'[r] = how
         /\ \A q \in Requests \ {r} : pc'[q] = pc[q]
<1>1. pc' = [pc EXCEPT ![r] = how] /\ lock' = IF lock = r THEN NoRequest ELSE lock
  BY DEF Reply, Goto
<1>2. pc \in [Requests -> HandlerPcs] /\ lock \in Requests \cup {NoRequest}
  BY DEF TypeInv, TypeOK, OperationsTypeOK
<1>3. pc' \in [Requests -> HandlerPcs] /\ pc'[r] = how /\ \A q \in Requests \ {r} : pc'[q] = pc[q]
  BY <1>1, <1>2 DEF HandlerPcs
<1>4. Fits(type[r], how)
  BY DEF TypeInv, FitsType, Fits, Ended
<1>5. FitsType'
  BY <1>3, <1>4 DEF TypeInv, FitsType
<1> QED BY <1>1, <1>2, <1>3, <1>5

\* HandlerStepType: no call of a handler leaves the types, and every handler
\* stays at a call of its operation.
LEMMA HandlerStepType ==
  ASSUME TypeInv, NEW r \in Requests, HandlerStep(r), UNCHANGED <<poll, report>>
  PROVE  TypeInv'
<1> USE DEF directorVars, resources, Moves, Ended
<1> DEFINE Kept == /\ UNCHANGED <<poll, report, type, abandoned, faults>>
                   /\ lock' \in Requests \cup {NoRequest}
                   /\ pc' \in [Requests -> HandlerPcs]
                   /\ FitsType'
<1>1. ASSUME Kept, UNCHANGED <<tasks, lastTask, deployed, opTask>>,
             configs' \in BOOLEAN, secrets' \in BOOLEAN, client' \in BOOLEAN
      PROVE  TypeInv'
  BY <1>1 DEF TypeInv, TypeOK, OperationsTypeOK, DirectorTypeOK
<1>2. ASSUME Kept, UNCHANGED <<deployed, resources>>,
             NEW kind \in TaskKinds, NEW c \in ContextIds, NEW step \in Nat,
             StartTask(kind, c, step), Remember(r, lastTask + 1)
      PROVE  TypeInv'
  <2>1. /\ lastTask + 1 \in TaskId
        /\ tasks' \in [TaskId -> Task]
        /\ lastTask' \in 0..MaxTasks
        /\ \A t \in TaskId : t > lastTask' => tasks'[t] = Unused
    BY <1>2, StartTaskType DEF TypeInv, TypeOK, OperationsTypeOK
  <2>2. opTask' \in [Requests -> 0..MaxTasks]
    BY <1>2, <2>1, DirectorAssumption DEF Remember, TypeInv, TypeOK, OperationsTypeOK, TaskId
  <2> QED BY <1>2, <2>1, <2>2 DEF TypeInv, TypeOK, OperationsTypeOK, DirectorTypeOK
<1>3. /\ configs \in BOOLEAN /\ secrets \in BOOLEAN /\ client \in BOOLEAN
      /\ lock \in Requests \cup {NoRequest}
      /\ pc \in [Requests -> HandlerPcs]
      /\ Fits(type[r], pc[r])
  BY DEF TypeInv, TypeOK, OperationsTypeOK, FitsType
<1>4. CASE Acquire(r)
  <2>1. Fits(type[r], "lock") /\ type[r] \in OperationTypes
    BY <1>3, <1>4 DEF Acquire, Fits
  <2> DEFINE next == Calls(type[r])["lock"]
  <2>2. next \in CallPcs /\ Fits(type[r], next)
    BY <2>1, CallsFit
  <2>3. pc' = [pc EXCEPT ![r] = next] /\ UNCHANGED type
    BY <1>4 DEF Acquire, Goto
  <2> HIDE DEF next
  <2>4. pc' \in [Requests -> HandlerPcs] /\ FitsType'
    BY <1>3, <2>2, <2>3 DEF HandlerPcs, TypeInv, FitsType
  <2> QED BY <1>1, <1>3, <1>4, <2>4 DEF Acquire
<1>5. CASE GetServiceInstanceClientForUpdate(r)
  <2>1. pc' \in [Requests -> HandlerPcs] /\ FitsType'
    BY <1>3, <1>5 DEF GetServiceInstanceClientForUpdate, Goto, HandlerPcs, TypeInv, FitsType, Fits
  <2> QED BY <1>1, <1>3, <1>5, <2>1 DEF GetServiceInstanceClientForUpdate
<1>6. CASE FindDeploymentToProvision(r)
  <2>1. CASE Reply(r, "failed")
    BY <1>1, <1>3, <1>6, <2>1, ReplyFits DEF FindDeploymentToProvision
  <2>2. CASE Proceed(r)
    BY <1>1, <1>3, <1>6, <2>2, ProceedFits DEF FindDeploymentToProvision
  <2> QED BY <1>6, <2>1, <2>2 DEF FindDeploymentToProvision
<1>7. CASE CreateClient(r)
  BY <1>1, <1>3, <1>7, ProceedFits DEF CreateClient
<1>8. CASE AssertNoOperationsInProgress(r)
  <2>1. CASE Reply(r, "failed")
    BY <1>1, <1>3, <1>8, <2>1, ReplyFits DEF AssertNoOperationsInProgress
  <2>2. CASE Proceed(r)
    BY <1>1, <1>3, <1>8, <2>2, ProceedFits DEF AssertNoOperationsInProgress
  <2> QED BY <1>8, <2>1, <2>2 DEF AssertNoOperationsInProgress
<1>9. CASE GetDeploymentManifest(r)
  <2>1. CASE Reply(r, "failed")
    BY <1>1, <1>3, <1>9, <2>1, ReplyFits DEF GetDeploymentManifest
  <2>2. CASE Proceed(r)
    BY <1>1, <1>3, <1>9, <2>2, ProceedFits DEF GetDeploymentManifest
  <2> QED BY <1>9, <2>1, <2>2 DEF GetDeploymentManifest
<1>10. CASE BulkSet(r)
  BY <1>1, <1>3, <1>10, ProceedFits DEF BulkSet
<1>11. CASE UpdateConfigs(r)
  BY <1>1, <1>3, <1>11, ProceedFits DEF UpdateConfigs
<1>12. CASE DeployManifest(r)
  <2>1. Kept
    BY <1>3, <1>12, ProceedFits DEF DeployManifest
  <2>2. StartTask("deploy", BoshContextID(r), 0) /\ Remember(r, lastTask + 1)
        /\ UNCHANGED <<deployed, resources>>
    BY <1>12 DEF DeployManifest, Deploy
  <2>3. "deploy" \in TaskKinds /\ 0 \in Nat /\ BoshContextID(r) \in ContextIds
    BY ContextType DEF TaskKinds
  <2> QED BY <1>2, <2>1, <2>2, <2>3
<1>13. CASE RecreateDeployment(r)
  <2>1. CASE Recreate(BoshContextID(r)) /\ Remember(r, lastTask + 1) /\ Reply(r, "accepted")
    <3>1. Kept
      BY <1>3, <1>13, <2>1, ReplyFits DEF RecreateDeployment
    <3>2. StartTask("recreate", BoshContextID(r), 0) /\ UNCHANGED <<deployed, resources>>
      BY <1>13, <2>1 DEF RecreateDeployment, Recreate
    <3>3. "recreate" \in TaskKinds /\ 0 \in Nat /\ BoshContextID(r) \in ContextIds
      BY ContextType DEF TaskKinds
    <3> QED BY <1>2, <2>1, <3>1, <3>2, <3>3
  <2>2. CASE Reply(r, "failed") /\ UNCHANGED <<tasks, lastTask, opTask>>
    BY <1>1, <1>3, <1>13, <2>2, ReplyFits DEF RecreateDeployment
  <2> QED BY <1>13, <2>1, <2>2 DEF RecreateDeployment
<1>14. CASE FinishDeploy(r)
  BY <1>1, <1>3, <1>14, ReplyFits DEF FinishDeploy
<1>15. CASE AssertDeploymentExists(r)
  <2>1. CASE Proceed(r)
    BY <1>1, <1>3, <1>15, <2>1, ProceedFits DEF AssertDeploymentExists
  <2>2. CASE Goto(r, "goneConfigs") /\ UNCHANGED lock
    <3>1. pc' \in [Requests -> HandlerPcs] /\ FitsType'
      BY <1>3, <1>15, <2>2 DEF AssertDeploymentExists, Goto, HandlerPcs, CallPcs, TypeInv, FitsType, Fits
    <3> QED BY <1>1, <1>3, <1>15, <2>2, <3>1 DEF AssertDeploymentExists
  <2> QED BY <1>15, <2>1, <2>2 DEF AssertDeploymentExists
<1>16. CASE DeleteConfigsForNotFoundInstance(r)
  <2>1. pc' \in [Requests -> HandlerPcs] /\ FitsType'
    BY <1>3, <1>16 DEF DeleteConfigsForNotFoundInstance, Goto, HandlerPcs, CallPcs, TypeInv, FitsType, Fits
  <2> QED BY <1>1, <1>3, <1>16, <2>1 DEF DeleteConfigsForNotFoundInstance
<1>17. CASE ClearSecretsForNotFoundInstance(r)
  BY <1>1, <1>3, <1>17, ReplyFits DEF ClearSecretsForNotFoundInstance
<1>18. CASE DeprovisionAssertNoOperations(r)
  <2>1. CASE Reply(r, "failed")
    BY <1>1, <1>3, <1>18, <2>1, ReplyFits DEF DeprovisionAssertNoOperations
  <2>2. CASE Proceed(r)
    BY <1>1, <1>3, <1>18, <2>2, ProceedFits DEF DeprovisionAssertNoOperations
  <2> QED BY <1>18, <2>1, <2>2 DEF DeprovisionAssertNoOperations
<1>19. CASE RunPreDeleteErrands(r)
  <2>1. CASE RunErrand(r, 1) /\ Remember(r, lastTask + 1) /\ Reply(r, "accepted")
    <3>1. Kept
      BY <1>3, <1>19, <2>1, ReplyFits DEF RunPreDeleteErrands
    <3>2. StartTask("errand", r, 1) /\ UNCHANGED <<deployed, resources>>
      BY <1>19, <2>1 DEF RunPreDeleteErrands, RunErrand
    <3>3. "errand" \in TaskKinds /\ 1 \in Nat /\ r \in ContextIds
      BY DEF TaskKinds, ContextIds
    <3> QED BY <1>2, <2>1, <3>1, <3>2, <3>3
  <2>2. CASE Reply(r, "failed") /\ UNCHANGED <<tasks, lastTask, opTask>>
    BY <1>1, <1>3, <1>19, <2>2, ReplyFits DEF RunPreDeleteErrands
  <2> QED BY <1>19, <2>1, <2>2 DEF RunPreDeleteErrands
<1>20. CASE DeleteInstance(r)
  <2>1. Kept
    BY <1>3, <1>20, ProceedFits DEF DeleteInstance
  <2>2. CASE deployed
    <3>1. StartTask("delete", NoRequest, 0) /\ Remember(r, lastTask + 1) /\ UNCHANGED <<deployed, resources>>
      BY <1>20, <2>2 DEF DeleteInstance, DeleteDeployment, DeleteTaskId
    <3>2. "delete" \in TaskKinds /\ NoRequest \in ContextIds /\ 0 \in Nat
      BY DEF TaskKinds, ContextIds
    <3> QED BY <1>2, <2>1, <3>1, <3>2
  <2>3. CASE ~deployed
    <3>1. UNCHANGED <<tasks, lastTask, deployed, resources>> /\ Remember(r, 0)
      BY <1>20, <2>3 DEF DeleteInstance, DeleteDeployment, DeleteTaskId
    <3>2. opTask' \in [Requests -> 0..MaxTasks]
      BY <3>1, DirectorAssumption DEF Remember, TypeInv, TypeOK, OperationsTypeOK
    <3> QED BY <1>3, <2>1, <3>1, <3>2 DEF TypeInv, TypeOK, OperationsTypeOK, DirectorTypeOK
  <2> QED BY <2>2, <2>3
<1>21. CASE DeleteClient(r)
  <2> DEFINE how == IF pc[r] = "dropClient" THEN "accepted" ELSE "failed"
  <2>1. how \in Ended /\ Reply(r, how) /\ pc[r] # "unsent"
    BY <1>21 DEF DeleteClient
  <2> HIDE DEF how
  <2> QED BY <1>1, <1>3, <1>21, <2>1, ReplyFits DEF DeleteClient
<1> QED BY <1>4, <1>5, <1>6, <1>7, <1>8, <1>9, <1>10, <1>11, <1>12, <1>13, <1>14, <1>15,
           <1>16, <1>17, <1>18, <1>19, <1>20, <1>21 DEF HandlerStep

\* HandlerFailsType: nor does a call that fails.
LEMMA HandlerFailsType ==
  ASSUME TypeInv, NEW r \in Requests, HandlerFails(r), UNCHANGED <<poll, report>>
  PROVE  TypeInv'
<1>1. /\ UNCHANGED <<directorVars, secrets, client, type, opTask, abandoned, poll, report>>
      /\ configs' \in {configs, TRUE}
      /\ faults < MaxFaults /\ faults' = faults + 1
      /\ pc[r] # "unsent"
  BY DEF HandlerFails, Fault, CallPcs
<1>2. configs' \in BOOLEAN /\ faults' \in 0..MaxFaults
  <2>1. configs \in BOOLEAN /\ faults \in 0..MaxFaults
    BY DEF TypeInv, TypeOK, OperationsTypeOK
  <2>2. configs' \in BOOLEAN
    BY <1>1, <2>1
  <2>3. faults' \in 0..MaxFaults
    BY <1>1, <2>1, OperationsAssumption
  <2> QED BY <2>2, <2>3
<1>3. lock' \in Requests \cup {NoRequest} /\ pc' \in [Requests -> HandlerPcs] /\ FitsType'
  <2>1. CASE Goto(r, "deleteFailed") /\ UNCHANGED lock
    BY <1>1, <2>1 DEF Goto, HandlerPcs, CallPcs, TypeInv, TypeOK, OperationsTypeOK, FitsType, Fits
  <2>2. CASE Reply(r, "accepted")
    BY <1>1, <2>2, ReplyFits DEF Ended
  <2>3. CASE Reply(r, "failed")
    BY <1>1, <2>3, ReplyFits DEF Ended
  <2> QED BY <2>1, <2>2, <2>3 DEF HandlerFails
<1> QED BY <1>1, <1>2, <1>3
        DEF directorVars, TypeInv, TypeOK, OperationsTypeOK, DirectorTypeOK

\* RunnerTypes: what the LifeCycleRunner decides to do next is well formed, and
\* a pre-delete errand it starts is never the first one (lifecycle_runner.go:92).
LEMMA RunnerTypes ==
  ASSUME TypeInv, NEW r \in Requests
  PROVE  LET next == LifeCycleRunnerGetTask(r)
         IN  /\ next.move \in {"answer", "error", "errand", "delete"}
             /\ next.task \in 0..MaxTasks
             /\ next.step \in Nat
             /\ next.move = "errand" /\ type[r] \in DeleteTypes => next.step > 1
<1> USE DEF Answer, NextErrand, RunDelete, NoTasksFound
<1> DEFINE mine == GetNormalisedTasksByContext(r)
<1>1. mine \in SUBSET TaskId
  BY DEF GetNormalisedTasksByContext
<1>2. Cardinality(mine) \in Nat /\ (mine # {} => Cardinality(mine) >= 1 /\ Newest(mine) \in TaskId)
  BY <1>1, NewestIsATask, NextErrandCounts
<1>3. opTask[r] \in 0..MaxTasks /\ 0 \in 0..MaxTasks /\ TaskId \subseteq 0..MaxTasks
  BY DirectorAssumption DEF TypeInv, TypeOK, OperationsTypeOK, TaskId
<1>4. CASE ~HasContext(r)
  BY <1>3, <1>4 DEF LifeCycleRunnerGetTask
<1>5. CASE HasContext(r) /\ type[r] \in DeleteTypes
  <2>1. LifeCycleRunnerGetTask(r) = processPreDelete(r)
    BY <1>5 DEF LifeCycleRunnerGetTask
  <2>2. CASE mine = {}
    BY <1>3, <2>1, <2>2 DEF processPreDelete
  <2>3. CASE mine # {}
    <3> DEFINE state == StateType(fetchTaskState(Newest(mine)))
    <3> DEFINE card == Cardinality(mine)
               task == Newest(mine)
    <3>1. \/ processPreDelete(r) = Answer(task, state)
          \/ processPreDelete(r) = RunDelete
          \/ processPreDelete(r) = NextErrand(card + 1)
      BY <2>3 DEF processPreDelete
    <3>2. card \in Nat /\ card >= 1 /\ task \in TaskId
      BY <1>2, <2>3
    <3> HIDE DEF state, mine, card, task
    <3>3. task \in 0..MaxTasks /\ 0 \in 0..MaxTasks /\ 0 \in Nat /\ card + 1 \in Nat /\ card + 1 > 1
      BY <1>3, <3>2
    <3>4. CASE processPreDelete(r) = Answer(task, state)
      BY <2>1, <3>3, <3>4
    <3>5. CASE processPreDelete(r) = RunDelete
      BY <2>1, <3>3, <3>5
    <3>6. CASE processPreDelete(r) = NextErrand(card + 1)
      BY <2>1, <3>3, <3>6
    <3> QED BY <3>1, <3>4, <3>5, <3>6
  <2> QED BY <2>2, <2>3
<1>6. CASE HasContext(r) /\ type[r] \notin DeleteTypes
  <2>1. LifeCycleRunnerGetTask(r) = processPostDeployment(r)
    BY <1>6 DEF LifeCycleRunnerGetTask
  <2>2. CASE mine = {}
    BY <1>3, <2>1, <2>2 DEF processPostDeployment
  <2>3. CASE mine # {}
    <3> DEFINE state == StateType(fetchTaskState(Newest(mine)))
    <3> DEFINE card == Cardinality(mine)
               task == Newest(mine)
    <3>1. \/ processPostDeployment(r) = Answer(task, state)
          \/ processPostDeployment(r) = NextErrand(card - 1 + 1)
      BY <2>3 DEF processPostDeployment
    <3>2. card \in Nat /\ card >= 1 /\ task \in TaskId
      BY <1>2, <2>3
    <3> HIDE DEF state, mine, card, task
    <3>3. task \in 0..MaxTasks /\ 0 \in 0..MaxTasks /\ 0 \in Nat /\ card - 1 + 1 \in Nat
      BY <1>3, <3>2
    <3>4. CASE processPostDeployment(r) = Answer(task, state)
      BY <2>1, <3>3, <3>4
    <3>5. CASE processPostDeployment(r) = NextErrand(card - 1 + 1)
      BY <1>6, <2>1, <3>3, <3>5
    <3> QED BY <3>1, <3>4, <3>5
  <2> QED BY <2>2, <2>3
<1> QED BY <1>4, <1>5, <1>6

\* ConcludeTypes: the end of a poll leaves a poll and a report of the right kind.
LEMMA ConcludeTypes ==
  ASSUME TypeInv, NEW p \in Pollers, NEW r \in Requests, NEW t \in 0..MaxTasks, NEW state,
         Conclude(p, r, t, state)
  PROVE  poll' \in [Pollers -> Poll] /\ report' \in [Requests -> Reports]
<1>1. 0 \in 0..MaxTasks /\ 0 \in Nat
  BY DirectorAssumption
<1>2. CASE cleanUpDue(r, state)
  BY <1>1, <1>2 DEF Conclude, TypeInv, TypeOK, Poll
<1>3. CASE ~cleanUpDue(r, state)
  <2>1. lastOperationState(state) \in Reports
    BY Zenon DEF lastOperationState, Reports
  <2>2. poll' = [poll EXCEPT ![p] = Idle] /\ Report(r, lastOperationState(state))
    BY <1>3 DEF Conclude
  <2>3. Idle \in Poll
    BY <1>1 DEF Idle, Poll
  <2>4. poll' \in [Pollers -> Poll]
    BY <2>2, <2>3 DEF TypeInv, TypeOK
  <2>5. report' \in [Requests -> Reports]
    BY <2>1, <2>2 DEF Report, TypeInv, TypeOK
  <2> QED BY <2>4, <2>5
<1> QED BY <1>2, <1>3

\* LastOperationType: a poll that arrives keeps the types.
LEMMA LastOperationType ==
  ASSUME TypeInv, NEW p \in Pollers, NEW r \in Requests, LastOperation(p, r)
  PROVE  TypeInv'
<1> DEFINE next == LifeCycleRunnerGetTask(r)
<1>1. UNCHANGED <<directorVars, operationVars>>
  BY DEF LastOperation
<1>2. /\ next.move \in {"answer", "error", "errand", "delete"}
      /\ next.task \in 0..MaxTasks
      /\ next.step \in Nat
  BY RunnerTypes
<1>3. \/ next.move = "answer" /\ Conclude(p, r, next.task, next.state)
      \/ next.move = "error" /\ UNCHANGED <<poll, report>>
      \/ /\ next.move \in {"errand", "delete"}
         /\ poll' = [poll EXCEPT ![p] = [at |-> next.move, req |-> r, task |-> 0, step |-> next.step]]
         /\ UNCHANGED report
  BY <1>2, Zenon DEF LastOperation
<1>4. poll \in [Pollers -> Poll] /\ report \in [Requests -> Reports]
  BY DEF TypeInv, TypeOK
<1> HIDE DEF next
<1>5. poll' \in [Pollers -> Poll] /\ report' \in [Requests -> Reports]
  <2>1. CASE next.move = "answer"
    BY <1>2, <1>3, <2>1, ConcludeTypes
  <2>2. CASE next.move = "error"
    BY <1>3, <1>4, <2>2
  <2>3. CASE next.move \in {"errand", "delete"}
    <3>1. [at |-> next.move, req |-> r, task |-> 0, step |-> next.step] \in Poll
      BY <1>2, <2>3, DirectorAssumption DEF Poll
    <3> QED BY <1>3, <1>4, <2>3, <3>1
  <2> QED BY <1>2, <2>1, <2>2, <2>3
<1> QED BY <1>1, <1>5 DEF directorVars, operationVars, resources, TypeInv, TypeOK, OperationsTypeOK,
                          DirectorTypeOK, FitsType


\* PollTypes: changing parts of a poll keeps it a poll.
LEMMA PollTypes ==
  ASSUME NEW q \in Poll
  PROVE  /\ Idle \in Poll
         /\ \A t \in 0..MaxTasks : [[q EXCEPT !.at = "look"] EXCEPT !.task = t] \in Poll
         /\ [q EXCEPT !.at = "secrets"] \in Poll
<1>1. Idle \in Poll
  BY DirectorAssumption DEF Poll, Idle
<1>2. [q EXCEPT !.at = "secrets"] \in Poll
  BY DEF Poll
<1>3. ASSUME NEW t \in 0..MaxTasks PROVE [[q EXCEPT !.at = "look"] EXCEPT !.task = t] \in Poll
  <2>1. [q EXCEPT !.at = "look"] \in Poll
    BY DEF Poll
  <2>2. ASSUME NEW u \in Poll PROVE [u EXCEPT !.task = t] \in Poll
    BY DEF Poll
  <2> QED BY <2>1, <2>2
<1> QED BY <1>1, <1>2, <1>3

\* PollStartsType: a task a poll starts keeps the types.
LEMMA PollStartsType ==
  ASSUME TypeInv, NEW p \in Pollers, NEW kind \in TaskKinds, NEW c \in ContextIds, NEW step \in Nat,
         StartTask(kind, c, step),
         poll' = [poll EXCEPT ![p].at = "look", ![p].task = lastTask + 1],
         UNCHANGED <<deployed, operationVars, report>>
  PROVE  TypeInv'
<1>1. /\ lastTask + 1 \in TaskId
      /\ tasks' \in [TaskId -> Task]
      /\ lastTask' \in 0..MaxTasks
      /\ \A t \in TaskId : t > lastTask' => tasks'[t] = Unused
  BY StartTaskType DEF TypeInv, TypeOK, OperationsTypeOK
<1>2. poll \in [Pollers -> Poll] /\ lastTask + 1 \in 0..MaxTasks
  BY <1>1, DirectorAssumption DEF TypeInv, TypeOK, TaskId
<1>3. poll' \in [Pollers -> Poll]
  BY <1>2, PollTypes
<1> QED BY <1>1, <1>3 DEF operationVars, resources, TypeInv, TypeOK, OperationsTypeOK, DirectorTypeOK, FitsType

\* PollStepType: and so does every further call of a poll, and a failing one.
LEMMA PollStepType ==
  ASSUME TypeInv, NEW p \in Pollers, PollStep(p) \/ PollFails(p),
         poll[p].at # "idle" => poll[p].req \in Requests
  PROVE  TypeInv'
<1> USE DEF directorVars, operationVars, resources
<1>1. /\ poll \in [Pollers -> Poll] /\ report \in [Requests -> Reports]
      /\ poll[p].task \in 0..MaxTasks /\ poll[p].step \in Nat
  BY DEF TypeInv, TypeOK, Poll
<1>2. Idle \in Poll
  BY PollTypes, <1>1
<1>3. CASE PollRunsErrand(p)
  <2>1. CASE RunErrand(poll[p].req, poll[p].step)
             /\ poll' = [poll EXCEPT ![p].at = "look", ![p].task = lastTask + 1]
    <3>1. "errand" \in TaskKinds /\ poll[p].req \in ContextIds
      BY <1>3 DEF PollRunsErrand, TaskKinds, ContextIds
    <3>2. StartTask("errand", poll[p].req, poll[p].step) /\ UNCHANGED <<deployed, operationVars, report>>
      BY <1>3, <2>1 DEF PollRunsErrand, RunErrand
    <3> QED BY <1>1, <2>1, <3>1, <3>2, PollStartsType
  <2>2. CASE poll' = [poll EXCEPT ![p] = Idle] /\ UNCHANGED <<tasks, lastTask>>
    BY <1>1, <1>2, <1>3, <2>2 DEF PollRunsErrand, TypeInv, TypeOK, OperationsTypeOK, DirectorTypeOK, FitsType
  <2> QED BY <1>3, <2>1, <2>2 DEF PollRunsErrand
<1>4. CASE DeprovisionAfterAllErrand(p)
  <2>1. CASE deployed
    <3>1. "delete" \in TaskKinds /\ poll[p].req \in ContextIds /\ PreErrands + 1 \in Nat
      BY <1>4, OperationsAssumption DEF DeprovisionAfterAllErrand, TaskKinds, ContextIds
    <3>2. /\ StartTask("delete", poll[p].req, PreErrands + 1)
          /\ poll' = [poll EXCEPT ![p].at = "look", ![p].task = lastTask + 1]
          /\ UNCHANGED <<deployed, operationVars, report>>
      BY <1>1, <1>4, <2>1 DEF DeprovisionAfterAllErrand, DeleteDeployment, DeleteTaskId
    <3> QED BY <3>1, <3>2, PollStartsType
  <2>2. CASE ~deployed
    <3>1. poll' = [poll EXCEPT ![p] = Idle] /\ UNCHANGED <<tasks, lastTask, deployed, operationVars, report>>
      BY <1>4, <2>2 DEF DeprovisionAfterAllErrand, DeleteDeployment
    <3> QED BY <1>1, <1>2, <3>1 DEF TypeInv, TypeOK, OperationsTypeOK, DirectorTypeOK, FitsType
  <2> QED BY <2>1, <2>2
<1>5. CASE PollLooksAtNewTask(p)
  <2>1. poll[p].req \in Requests /\ UNCHANGED <<directorVars, operationVars>>
    BY <1>5 DEF PollLooksAtNewTask
  <2>2. poll' \in [Pollers -> Poll] /\ report' \in [Requests -> Reports]
    BY <1>1, <1>5, <2>1, ConcludeTypes DEF PollLooksAtNewTask
  <2> QED BY <2>1, <2>2 DEF TypeInv, TypeOK, OperationsTypeOK, DirectorTypeOK, FitsType
<1>6. CASE DeleteConfigs(p)
  <2>1. poll' \in [Pollers -> Poll]
    BY <1>1, <1>6, PollTypes DEF DeleteConfigs
  <2> QED BY <1>1, <1>6, <2>1 DEF DeleteConfigs, TypeInv, TypeOK, OperationsTypeOK, DirectorTypeOK, FitsType
<1>7. CASE DeleteSecrets(p)
  <2>1. poll' \in [Pollers -> Poll] /\ report' \in [Requests -> Reports]
    BY <1>1, <1>2, <1>7 DEF DeleteSecrets, Report, Reports
  <2> QED BY <1>7, <2>1 DEF DeleteSecrets, TypeInv, TypeOK, OperationsTypeOK, DirectorTypeOK, FitsType
<1>8. CASE PollFails(p)
  <2>1. poll' \in [Pollers -> Poll] /\ report' \in [Requests -> Reports]
    BY <1>1, <1>2, <1>8 DEF PollFails, Report, Reports
  <2>2. faults' \in 0..MaxFaults
    BY <1>8, OperationsAssumption DEF PollFails, Fault, TypeInv, TypeOK, OperationsTypeOK
  <2> QED BY <1>8, <2>1, <2>2 DEF PollFails, TypeInv, TypeOK, OperationsTypeOK, DirectorTypeOK, FitsType
<1> QED BY <1>3, <1>4, <1>5, <1>6, <1>7, <1>8 DEF PollStep
-----------------------------------------------------------------------------
(* The inductive invariant *)

\* A handler between its first call and its answer has deploymentLock.
HoldsLock == \A r \in Requests : pc[r] \in CallPcs => lock = r

\* From its check for tasks in progress until it has started its own, no task
\* of another handler runs.
NothingRunning ==
  \A r \in Requests : pc[r] \in AfterCheck =>
    \A t \in TaskId : ~(Active(t) /\ StartedUnderLock(t))

\* A task carries the context id of a request that was sent, an errand always.
ContextsKnown ==
  \A t \in TaskId :
    /\ tasks[t].ctx \in Requests => pc[tasks[t].ctx] # "unsent"
    /\ tasks[t].kind = "errand" => tasks[t].ctx \in Requests

\* A poll serves an accepted operation, and the pre-delete errand it is about to
\* run is not the first.
PollsFollow ==
  \A p \in Pollers : poll[p].at # "idle" =>
    /\ poll[p].req \in Requests
    /\ pc[poll[p].req] = "accepted"
    /\ poll[p].at = "errand" /\ type[poll[p].req] \in DeleteTypes => poll[p].step > 1

IInv ==
  /\ TypeInv
  /\ HoldsLock
  /\ NothingRunning
  /\ ContextsKnown
  /\ PollsFollow
  /\ HandlerTasksExclusive

\* HandlerMoves: what any step of a handler does to the lock, the tasks and
\* the other handlers (provision.go:35, deprovision.go:25, task.go:290).
LEMMA HandlerMoves ==
  ASSUME TypeInv, HoldsLock, NEW r \in Requests, HandlerStep(r) \/ HandlerFails(r)
  PROVE  /\ pc[r] \notin Ended \cup {"unsent"} /\ pc'[r] # "unsent"
         /\ UNCHANGED <<type, deployed>>
         /\ \A q \in Requests \ {r} : pc'[q] = pc[q]
         /\ pc'[r] \in CallPcs => lock' = r
         /\ \/ lock' = lock
            \/ lock \in {r, NoRequest}
         /\ pc'[r] \in AfterCheck =>
              pc[r] \in AfterCheck \/ GetTasksInProgress = {}
         /\ \/ UNCHANGED tasks
            \/ /\ pc[r] \in AfterCheck /\ pc'[r] \notin AfterCheck
               /\ \E kind \in {"deploy", "recreate", "delete"} :
                    \E c \in {r, NoRequest} : StartTask(kind, c, 0)
            \/ /\ pc[r] \in AfterCheck /\ pc'[r] \notin AfterCheck
               /\ StartTask("errand", r, 1)
<1> USE DEF directorVars, resources, Ended, AfterCheck
<1> DEFINE Others == \A q \in Requests \ {r} : pc'[q] = pc[q]
<1>1. /\ pc \in [Requests -> HandlerPcs] /\ pc[r] \in HandlerPcs
      /\ Fits(type[r], pc[r])
      /\ pc[r] \in CallPcs => lock = r
  BY DEF TypeInv, TypeOK, OperationsTypeOK, FitsType, HoldsLock
<1>2. ASSUME NEW next, Goto(r, next)
      PROVE  pc'[r] = next /\ Others
  BY <1>1, <1>2 DEF Goto
<1>3. ASSUME NEW how \in {"accepted", "failed", "gone"}, Reply(r, how)
      PROVE  /\ pc'[r] = how /\ Others
             /\ pc'[r] \notin CallPcs \cup AfterCheck \cup {"unsent"}
             /\ lock' = lock \/ lock = r
  BY <1>2, <1>3 DEF Reply, CallPcs
<1>4. ASSUME pc[r] \in Moves, ~(pc[r] = "deploy" /\ type[r] = "recreate"), Proceed(r), UNCHANGED type
      PROVE  /\ pc'[r] \in CallPcs /\ Others /\ lock' = lock
             /\ pc'[r] \in AfterCheck => pc[r] \in AfterCheck \cup {"busy"}
  BY <1>4, ProceedFits
<1>5. CASE Acquire(r)
  <2>1. type[r] \in OperationTypes /\ Fits(type[r], "lock")
    BY <1>1, <1>5 DEF Acquire, Fits
  <2>2. Calls(type[r])["lock"] \in CallPcs \ AfterCheck
    BY <2>1, CallsFit DEF Moves
  <2>3. pc'[r] = Calls(type[r])["lock"] /\ Others
    BY <1>2, <1>5 DEF Acquire
  <2> QED BY <1>5, <2>2, <2>3 DEF Acquire, CallPcs
<1>6. CASE GetServiceInstanceClientForUpdate(r)
  BY <1>2, <1>6 DEF GetServiceInstanceClientForUpdate, CallPcs
<1>7. CASE FindDeploymentToProvision(r)
  BY <1>1, <1>3, <1>4, <1>7 DEF FindDeploymentToProvision, Moves, CallPcs
<1>8. CASE CreateClient(r)
  BY <1>1, <1>4, <1>8 DEF CreateClient, Moves, CallPcs
<1>9. CASE AssertNoOperationsInProgress(r)
  BY <1>1, <1>3, <1>4, <1>9 DEF AssertNoOperationsInProgress, Moves, CallPcs
<1>10. CASE GetDeploymentManifest(r)
  BY <1>1, <1>3, <1>4, <1>10 DEF GetDeploymentManifest, Moves, CallPcs
<1>11. CASE BulkSet(r)
  BY <1>1, <1>4, <1>11 DEF BulkSet, Moves, CallPcs
<1>12. CASE UpdateConfigs(r)
  BY <1>1, <1>4, <1>12 DEF UpdateConfigs, Moves, CallPcs
<1>13. CASE DeployManifest(r)
  <2>1. pc[r] = "deploy" /\ type[r] \in {"create", "update", "upgrade"}
    BY <1>1, <1>13 DEF DeployManifest, Fits
  <2>2. Calls(type[r])["deploy"] = "finish"
    BY <2>1 DEF Calls, ProvisionCalls, UpdateCalls, UpgradeCalls, DeleteTypes
  <2>3. pc'[r] = "finish" /\ Others /\ lock' = lock
    BY <1>2, <1>13, <2>1, <2>2 DEF DeployManifest, Proceed
  <2>4. BoshContextID(r) \in {r, NoRequest} /\ StartTask("deploy", BoshContextID(r), 0)
    BY <1>13 DEF DeployManifest, Deploy, BoshContextID
  <2> QED BY <1>1, <1>13, <2>1, <2>3, <2>4 DEF DeployManifest, CallPcs
<1>14. CASE RecreateDeployment(r)
  <2>1. CASE Recreate(BoshContextID(r)) /\ Reply(r, "accepted")
    <3>1. BoshContextID(r) \in {r, NoRequest} /\ StartTask("recreate", BoshContextID(r), 0)
      BY <2>1 DEF Recreate, BoshContextID
    <3> QED BY <1>1, <1>3, <1>14, <2>1, <3>1 DEF RecreateDeployment, CallPcs
  <2>2. CASE Reply(r, "failed") /\ UNCHANGED tasks
    BY <1>1, <1>3, <1>14, <2>2 DEF RecreateDeployment, CallPcs
  <2> QED BY <1>14, <2>1, <2>2 DEF RecreateDeployment
<1>15. CASE FinishDeploy(r)
  BY <1>1, <1>3, <1>15 DEF FinishDeploy, CallPcs
<1>16. CASE AssertDeploymentExists(r)
  BY <1>1, <1>2, <1>4, <1>16 DEF AssertDeploymentExists, Moves, CallPcs
<1>17. CASE DeleteConfigsForNotFoundInstance(r)
  BY <1>1, <1>2, <1>17 DEF DeleteConfigsForNotFoundInstance, CallPcs
<1>18. CASE ClearSecretsForNotFoundInstance(r)
  BY <1>1, <1>3, <1>18 DEF ClearSecretsForNotFoundInstance, CallPcs
<1>19. CASE DeprovisionAssertNoOperations(r)
  BY <1>1, <1>3, <1>4, <1>19 DEF DeprovisionAssertNoOperations, Moves, CallPcs
<1>20. CASE RunPreDeleteErrands(r)
  BY <1>1, <1>3, <1>20 DEF RunPreDeleteErrands, RunErrand, CallPcs
<1>21. CASE DeleteInstance(r)
  <2>1. pc[r] = "delete" /\ type[r] \in DeleteTypes
    BY <1>1, <1>21 DEF DeleteInstance, Fits
  <2>2. Calls(type[r])["delete"] = "dropClient"
    BY <2>1 DEF Calls, DeprovisionCalls, DeleteTypes
  <2>3. pc'[r] = "dropClient" /\ Others /\ lock' = lock
    BY <1>2, <1>21, <2>1, <2>2 DEF DeleteInstance, Proceed
  <2>4. UNCHANGED tasks \/ StartTask("delete", NoRequest, 0)
    BY <1>21 DEF DeleteInstance, DeleteDeployment
  <2> QED BY <1>1, <1>21, <2>1, <2>3, <2>4 DEF DeleteInstance, CallPcs
<1>22. CASE DeleteClient(r)
  <2> DEFINE how == IF pc[r] = "dropClient" THEN "accepted" ELSE "failed"
  <2>1. Reply(r, how) /\ how \in {"accepted", "failed", "gone"}
    BY <1>22 DEF DeleteClient
  <2> HIDE DEF how
  <2> QED BY <1>1, <1>3, <1>22, <2>1 DEF DeleteClient, CallPcs
<1>23. CASE HandlerFails(r)
  <2>1. \/ pc[r] = "delete" /\ Goto(r, "deleteFailed") /\ UNCHANGED lock
        \/ Reply(r, "accepted")
        \/ Reply(r, "failed")
    BY <1>23, Zenon DEF HandlerFails
  <2>2. pc[r] \in CallPcs \cup {"updateClient"} /\ UNCHANGED <<tasks, deployed, type>>
    BY <1>23 DEF HandlerFails
  <2> QED BY <1>1, <1>2, <1>3, <2>1, <2>2 DEF CallPcs
<1> QED BY <1>5, <1>6, <1>7, <1>8, <1>9, <1>10, <1>11, <1>12, <1>13, <1>14, <1>15, <1>16,
           <1>17, <1>18, <1>19, <1>20, <1>21, <1>22, <1>23 DEF HandlerStep

\* NewTask: a task that is started is the only one that changes.
LEMMA NewTask ==
  ASSUME TypeInv, NEW kind, NEW c, NEW step, StartTask(kind, c, step)
  PROVE  /\ lastTask + 1 \in TaskId
         /\ tasks'[lastTask + 1].kind = kind
         /\ tasks'[lastTask + 1].ctx = c
         /\ tasks'[lastTask + 1].step = step
         /\ \A t \in TaskId \ {lastTask + 1} : tasks'[t] = tasks[t]
<1>1. lastTask + 1 \in TaskId /\ tasks \in [TaskId -> Task]
  BY DirectorAssumption DEF StartTask, TypeInv, TypeOK, OperationsTypeOK, DirectorTypeOK, TaskId
<1> QED BY <1>1 DEF StartTask

\* HandlerKeepsIInv: a step of a handler keeps the inductive invariant. The
\* lock makes it the only one that starts tasks, the check the only task.
LEMMA HandlerKeepsIInv ==
  ASSUME IInv, NEW r \in Requests, HandlerStep(r) \/ HandlerFails(r), UNCHANGED <<poll, report>>
  PROVE  IInv'
<1>1. TypeInv'
  BY HandlerStepType, HandlerFailsType DEF IInv
<1>2. /\ pc[r] \notin Ended \cup {"unsent"} /\ pc'[r] # "unsent"
      /\ UNCHANGED <<type, deployed>>
      /\ \A q \in Requests \ {r} : pc'[q] = pc[q]
      /\ pc'[r] \in CallPcs => lock' = r
      /\ \/ lock' = lock
         \/ lock \in {r, NoRequest}
      /\ pc'[r] \in AfterCheck => pc[r] \in AfterCheck \/ GetTasksInProgress = {}
  BY HandlerMoves DEF IInv
<1>3. \/ UNCHANGED tasks
      \/ /\ pc[r] \in AfterCheck /\ pc'[r] \notin AfterCheck
         /\ \E kind \in {"deploy", "recreate", "delete"} :
              \E c \in {r, NoRequest} : StartTask(kind, c, 0)
      \/ /\ pc[r] \in AfterCheck /\ pc'[r] \notin AfterCheck
         /\ StartTask("errand", r, 1)
  BY HandlerMoves DEF IInv
<1>4. HoldsLock'
  BY <1>2, DirectorAssumption DEF IInv, HoldsLock, CallPcs
<1>5. PollsFollow'
  BY <1>2 DEF IInv, PollsFollow, Ended
<1>6. CASE UNCHANGED tasks
  <2>1. \A t \in TaskId : (Active(t)' <=> Active(t)) /\ (StartedUnderLock(t)' <=> StartedUnderLock(t))
    BY <1>2, <1>6 DEF Active, StartedUnderLock
  <2>2. HandlerTasksExclusive'
    BY <2>1 DEF IInv, HandlerTasksExclusive
  <2>3. ContextsKnown'
    BY <1>2, <1>6 DEF IInv, ContextsKnown
  <2>4. GetTasksInProgress = {} => \A t \in TaskId : ~Active(t)
    BY DEF GetTasksInProgress, Active
  <2>5. NothingRunning'
    BY <1>2, <2>1, <2>4 DEF IInv, NothingRunning
  <2> QED BY <1>1, <1>4, <1>5, <2>2, <2>3, <2>5 DEF IInv
<1>7. ASSUME NEW kind \in {"deploy", "recreate", "delete", "errand"}, NEW c \in {r, NoRequest}, NEW step,
             kind = "errand" => c = r,
             StartTask(kind, c, step), pc[r] \in AfterCheck, pc'[r] \notin AfterCheck
      PROVE  IInv'
  <2>1. /\ lastTask + 1 \in TaskId
        /\ tasks'[lastTask + 1].kind = kind
        /\ tasks'[lastTask + 1].ctx = c
        /\ \A t \in TaskId \ {lastTask + 1} : tasks'[t] = tasks[t]
    BY <1>7, NewTask DEF IInv
  <2>2. \A t \in TaskId : ~(Active(t) /\ StartedUnderLock(t))
    BY <1>7 DEF IInv, NothingRunning
  <2>3. \A t \in TaskId \ {lastTask + 1} : ~(Active(t)' /\ StartedUnderLock(t)')
    BY <1>2, <2>1, <2>2 DEF Active, StartedUnderLock
  <2>4. HandlerTasksExclusive'
    BY <2>3 DEF HandlerTasksExclusive
  <2>5. ContextsKnown'
    BY <1>2, <1>7, <2>1, DirectorAssumption DEF IInv, ContextsKnown
  <2>6. \A q \in Requests : pc'[q] \notin AfterCheck
    <3>1. pc[r] \in CallPcs /\ lock = r
      BY <1>7 DEF IInv, HoldsLock, AfterCheck, CallPcs
    <3> QED BY <1>2, <1>7, <3>1 DEF IInv, HoldsLock, AfterCheck, CallPcs
  <2>7. NothingRunning'
    BY <2>6 DEF NothingRunning
  <2> QED BY <1>1, <1>4, <1>5, <2>4, <2>5, <2>7 DEF IInv
<1> QED BY <1>3, <1>6, <1>7

\* PollCalls: what any step of a poll does to the tasks and to itself
\* (lifecycle_runner.go:123, 188).
LEMMA PollCalls ==
  ASSUME TypeInv, PollsFollow, NEW p \in Pollers, PollStep(p) \/ PollFails(p)
  PROVE  /\ UNCHANGED <<type, pc, lock, deployed>>
         /\ poll[p].req \in Requests /\ poll[p].at # "idle"
         /\ pc[poll[p].req] = "accepted"
         /\ \A q \in Pollers \ {p} : poll'[q] = poll[q]
         /\ \/ poll'[p].at = "idle"
            \/ poll'[p].at \in {"look", "configs", "secrets"} /\ poll'[p].req = poll[p].req
         /\ \/ UNCHANGED tasks
            \/ StartTask("delete", poll[p].req, PreErrands + 1)
            \/ /\ type[poll[p].req] \in DeleteTypes => poll[p].step > 1
               /\ StartTask("errand", poll[p].req, poll[p].step)
<1> USE DEF directorVars, operationVars, resources
<1>1. /\ poll \in [Pollers -> Poll]
      /\ Idle.at = "idle"
  BY DEF TypeInv, TypeOK, Idle
<1>2. poll[p].at # "idle"
  BY DEF PollStep, PollRunsErrand, DeprovisionAfterAllErrand, PollLooksAtNewTask, DeleteConfigs,
         DeleteSecrets, PollFails
<1>3. /\ poll[p].req \in Requests
      /\ pc[poll[p].req] = "accepted"
      /\ poll[p].at = "errand" /\ type[poll[p].req] \in DeleteTypes => poll[p].step > 1
  BY <1>2 DEF PollsFollow
<1>4. CASE PollRunsErrand(p)
  BY <1>1, <1>2, <1>3, <1>4 DEF PollRunsErrand, RunErrand, Poll
<1>5. CASE DeprovisionAfterAllErrand(p)
  BY <1>1, <1>2, <1>3, <1>5 DEF DeprovisionAfterAllErrand, DeleteDeployment, Poll
<1>6. CASE PollLooksAtNewTask(p)
  BY <1>1, <1>2, <1>3, <1>6 DEF PollLooksAtNewTask, Conclude
<1>7. CASE DeleteConfigs(p)
  BY <1>1, <1>2, <1>3, <1>7 DEF DeleteConfigs, Poll
<1>8. CASE DeleteSecrets(p)
  BY <1>1, <1>2, <1>3, <1>8 DEF DeleteSecrets
<1>9. CASE PollFails(p)
  BY <1>1, <1>2, <1>3, <1>9 DEF PollFails
<1> QED BY <1>4, <1>5, <1>6, <1>7, <1>8, <1>9 DEF PollStep

\* PollKeepsIInv: a poll starts later errands and the delete after them, never
\* a task the lock stands for.
LEMMA PollKeepsIInv ==
  ASSUME IInv, NEW p \in Pollers, PollStep(p) \/ PollFails(p)
  PROVE  IInv'
<1>1. TypeInv'
  BY PollStepType DEF IInv, PollsFollow
<1>2. /\ UNCHANGED <<type, pc, lock, deployed>>
      /\ poll[p].req \in Requests /\ poll[p].at # "idle"
      /\ pc[poll[p].req] = "accepted"
      /\ \A q \in Pollers \ {p} : poll'[q] = poll[q]
      /\ \/ poll'[p].at = "idle"
         \/ poll'[p].at \in {"look", "configs", "secrets"} /\ poll'[p].req = poll[p].req
  BY PollCalls DEF IInv
<1>3. \/ UNCHANGED tasks
      \/ StartTask("delete", poll[p].req, PreErrands + 1)
      \/ /\ type[poll[p].req] \in DeleteTypes => poll[p].step > 1
         /\ StartTask("errand", poll[p].req, poll[p].step)
  BY PollCalls DEF IInv
<1>4. HoldsLock'
  BY <1>2 DEF IInv, HoldsLock
<1>5. PollsFollow'
  BY <1>2 DEF IInv, PollsFollow
<1>6. /\ \A t \in TaskId : Active(t)' /\ StartedUnderLock(t)' => Active(t) /\ StartedUnderLock(t)
      /\ ContextsKnown'
  <2>1. CASE UNCHANGED tasks
    BY <1>2, <2>1 DEF IInv, ContextsKnown, Active, StartedUnderLock
  <2>2. ASSUME NEW kind \in {"errand", "delete"}, NEW step \in Nat,
               kind = "errand" /\ type[poll[p].req] \in DeleteTypes => step > 1,
               StartTask(kind, poll[p].req, step)
        PROVE  /\ \A t \in TaskId : Active(t)' /\ StartedUnderLock(t)' => Active(t) /\ StartedUnderLock(t)
               /\ ContextsKnown'
    <3>1. PICK n \in TaskId : /\ tasks'[n].kind = kind
                             /\ tasks'[n].ctx = poll[p].req
                             /\ tasks'[n].step = step
                             /\ \A t \in TaskId \ {n} : tasks'[t] = tasks[t]
      BY <2>2, NewTask DEF IInv
    <3>2. ~StartedUnderLock(n)'
      BY <1>2, <2>2, <3>1, DirectorAssumption DEF StartedUnderLock
    <3>3. ContextsKnown'
      BY <1>2, <3>1 DEF IInv, ContextsKnown
    <3> QED BY <1>2, <3>1, <3>2, <3>3 DEF Active, StartedUnderLock
  <2>3. poll[p].step \in Nat /\ PreErrands + 1 \in Nat
    BY OperationsAssumption DEF IInv, TypeInv, TypeOK, Poll
  <2> QED BY <1>3, <2>1, <2>2, <2>3
<1>7. NothingRunning'
  BY <1>2, <1>6 DEF IInv, NothingRunning
<1>8. HandlerTasksExclusive'
  BY <1>6 DEF IInv, HandlerTasksExclusive
<1> QED BY <1>1, <1>4, <1>5, <1>6, <1>7, <1>8 DEF IInv

\* LastOperationKeepsIInv: a poll that arrives starts nothing yet.
LEMMA LastOperationKeepsIInv ==
  ASSUME IInv, NEW p \in Pollers, NEW r \in Requests, LastOperation(p, r)
  PROVE  IInv'
<1> USE DEF directorVars, operationVars, resources
<1> DEFINE next == LifeCycleRunnerGetTask(r)
<1>1. TypeInv'
  BY LastOperationType DEF IInv
<1>2. UNCHANGED <<tasks, type, pc, lock>> /\ pc[r] = "accepted" /\ poll \in [Pollers -> Poll]
  BY DEF LastOperation, IInv, TypeInv, TypeOK
<1>3. \/ next.move = "answer" /\ Conclude(p, r, next.task, next.state)
      \/ UNCHANGED poll
      \/ poll' = [poll EXCEPT ![p] = [at |-> next.move, req |-> r, task |-> 0, step |-> next.step]]
  BY Zenon DEF LastOperation
<1>4. next.move = "errand" /\ type[r] \in DeleteTypes => next.step > 1
  BY RunnerTypes DEF IInv
<1> HIDE DEF next
<1>5. PollsFollow'
  <2>1. /\ \A q \in Pollers \ {p} : poll'[q] = poll[q]
        /\ \/ poll'[p].at = "idle"
           \/ poll'[p] = poll[p]
           \/ poll'[p].at = "configs" /\ poll'[p].req = r
           \/ poll'[p].at = next.move /\ poll'[p].req = r /\ poll'[p].step = next.step
    BY <1>2, <1>3 DEF Conclude, Idle
  <2> QED BY <1>2, <1>4, <2>1 DEF IInv, PollsFollow
<1>6. \A t \in TaskId : (Active(t)' <=> Active(t)) /\ (StartedUnderLock(t)' <=> StartedUnderLock(t))
  BY <1>2 DEF Active, StartedUnderLock
<1> QED BY <1>1, <1>2, <1>5, <1>6
        DEF IInv, HoldsLock, NothingRunning, ContextsKnown, HandlerTasksExclusive

\* DirectorKeepsIInv: the director starts and ends tasks, it creates none.
LEMMA DirectorKeepsIInv ==
  ASSUME IInv, NEW t \in TaskId, DirectorStep(t), UNCHANGED <<operationVars, poll, report>>
  PROVE  IInv'
<1> USE DEF operationVars, resources
<1>1. tasks \in [TaskId -> Task] /\ deployed \in BOOLEAN
  BY DEF IInv, TypeInv, TypeOK, OperationsTypeOK, DirectorTypeOK
<1>2. /\ tasks[t].state \in {"queued", "processing"}
      /\ UNCHANGED lastTask
      /\ \/ tasks' = [tasks EXCEPT ![t].state = "processing"]
         \/ \E ok \in BOOLEAN : tasks' = [tasks EXCEPT ![t].state = "done", ![t].ok = ok]
         \/ \E s \in FailedStates : tasks' = [tasks EXCEPT ![t].state = s]
  BY DEF DirectorStep, TaskStarts, TaskSucceeds, TaskFails
<1>3. deployed' \in BOOLEAN
  <2>1. CASE TaskStarts(t)
    BY <1>1, <2>1 DEF TaskStarts
  <2>2. CASE TaskSucceeds(t)
    BY <1>1, <2>2, Zenon DEF TaskSucceeds
  <2>3. CASE TaskFails(t)
    BY <1>1, <2>3 DEF TaskFails
  <2> QED BY <2>1, <2>2, <2>3 DEF DirectorStep
<1>4. /\ tasks' \in [TaskId -> Task]
      /\ \A u \in TaskId : /\ tasks'[u].kind = tasks[u].kind
                           /\ tasks'[u].ctx = tasks[u].ctx
                           /\ tasks'[u].step = tasks[u].step
      /\ \A u \in TaskId \ {t} : tasks'[u] = tasks[u]
  BY <1>1, <1>2, DirectorAssumption DEF Task, TaskStates
<1>5. t <= lastTask
  BY <1>2, DirectorAssumption
     DEF IInv, TypeInv, TypeOK, OperationsTypeOK, DirectorTypeOK, Unused, TaskId
<1>6. TypeInv'
  <2>1. \A u \in TaskId : u > lastTask => tasks'[u] = Unused
    BY <1>4, <1>5, DirectorAssumption DEF IInv, TypeInv, TypeOK, OperationsTypeOK, DirectorTypeOK, TaskId
  <2> QED BY <1>2, <1>3, <1>4, <2>1 DEF IInv, TypeInv, TypeOK, OperationsTypeOK, DirectorTypeOK, FitsType
<1>7. \A u \in TaskId : (Active(u)' => Active(u)) /\ (StartedUnderLock(u)' <=> StartedUnderLock(u))
  BY <1>2, <1>4 DEF Active, StartedUnderLock
<1>8. ContextsKnown'
  BY <1>4 DEF IInv, ContextsKnown
<1> QED BY <1>6, <1>7, <1>8
        DEF IInv, HoldsLock, NothingRunning, PollsFollow, HandlerTasksExclusive

\* ClientsKeepIInv: requests, clients that give up, and restarts of the broker.
LEMMA ClientsKeepIInv ==
  ASSUME IInv, (\E r \in Requests : Send(r) \/ Abandon(r)) \/ RestartBroker
  PROVE  IInv'
<1> USE DEF directorVars, resources
<1>1. ASSUME NEW r \in Requests, Send(r) PROVE IInv'
  <2>1. PICK ty \in Types : type' = [type EXCEPT ![r] = ty]
                            /\ Goto(r, IF ty = "update" THEN "updateClient" ELSE "lock")
    BY <1>1 DEF Send
  <2>2. /\ pc[r] = "unsent" /\ pc'[r] \in {"updateClient", "lock"} /\ type'[r] \in OperationTypes
        /\ \A q \in Requests \ {r} : pc'[q] = pc[q] /\ type'[q] = type[q]
        /\ pc' \in [Requests -> HandlerPcs] /\ type' \in [Requests -> OperationTypes \cup {"none"}]
    BY <1>1, <2>1, OperationsAssumption
       DEF Send, Goto, IInv, TypeInv, TypeOK, OperationsTypeOK, HandlerPcs
  <2>3. UNCHANGED <<directorVars, resources, lock, opTask, abandoned, faults, poll, report>>
    BY <1>1 DEF Send
  <2>4. TypeInv'
    BY <2>2, <2>3 DEF IInv, TypeInv, TypeOK, OperationsTypeOK, DirectorTypeOK, FitsType, Fits
  <2>5. HoldsLock'
    BY <2>2, <2>3 DEF IInv, HoldsLock, CallPcs
  <2>6. ContextsKnown'
    BY <2>2, <2>3 DEF IInv, ContextsKnown
  <2>7. PollsFollow'
    BY <2>2, <2>3 DEF IInv, PollsFollow
  <2>8. \A t \in TaskId : (Active(t)' <=> Active(t)) /\ (StartedUnderLock(t)' <=> StartedUnderLock(t))
    BY <2>2, <2>3 DEF IInv, ContextsKnown, Active, StartedUnderLock
  <2>9. NothingRunning'
    BY <2>2, <2>8 DEF IInv, NothingRunning, AfterCheck
  <2>10. HandlerTasksExclusive'
    BY <2>8 DEF IInv, HandlerTasksExclusive
  <2> QED BY <2>4, <2>5, <2>6, <2>7, <2>9, <2>10 DEF IInv
<1>2. ASSUME NEW r \in Requests, Abandon(r) PROVE IInv'
  <2>1. /\ UNCHANGED <<directorVars, resources, lock, type, pc, opTask, poll, report>>
        /\ abandoned' = abandoned \cup {r}
        /\ faults' = faults + 1 /\ faults < MaxFaults
    BY <1>2 DEF Abandon, Fault
  <2>2. abandoned' \subseteq Requests /\ faults' \in 0..MaxFaults
    BY <2>1, OperationsAssumption DEF IInv, TypeInv, TypeOK, OperationsTypeOK
  <2>3. TypeInv'
    BY <2>1, <2>2 DEF IInv, TypeInv, TypeOK, OperationsTypeOK, DirectorTypeOK, FitsType
  <2> QED BY <2>1, <2>3 DEF IInv, HoldsLock, NothingRunning, ContextsKnown, PollsFollow,
                            HandlerTasksExclusive, Active, StartedUnderLock
<1>3. ASSUME RestartBroker PROVE IInv'
  <2>1. /\ UNCHANGED <<directorVars, resources, type, opTask, abandoned, report>>
        /\ lock' = NoRequest
        /\ pc' = [r \in Requests |-> IF InFlight(r) THEN "lost" ELSE pc[r]]
        /\ poll' = [p \in Pollers |-> Idle]
        /\ faults' = faults + 1 /\ faults < MaxFaults
    BY <1>3 DEF RestartBroker, Fault
  <2>2. \A r \in Requests : /\ pc'[r] = IF InFlight(r) THEN "lost" ELSE pc[r]
                            /\ pc'[r] \in Ended \cup {"unsent"}
                            /\ pc'[r] = "unsent" <=> pc[r] = "unsent"
    BY <2>1 DEF InFlight, Ended
  <2>3. faults' \in 0..MaxFaults
    BY <2>1, OperationsAssumption DEF IInv, TypeInv, TypeOK, OperationsTypeOK
  <2>4. poll' \in [Pollers -> Poll] /\ \A p \in Pollers : poll'[p].at = "idle"
    BY <2>1, DirectorAssumption DEF Idle, Poll
  <2>5. pc' \in [Requests -> HandlerPcs]
    BY <2>1, <2>2 DEF HandlerPcs
  <2>6. FitsType'
    BY <2>1, <2>2 DEF IInv, TypeInv, FitsType, Fits, Ended
  <2>7. TypeInv'
    BY <2>1, <2>3, <2>4, <2>5, <2>6 DEF IInv, TypeInv, TypeOK, OperationsTypeOK, DirectorTypeOK
  <2>8. HoldsLock' /\ NothingRunning' /\ PollsFollow'
    BY <2>2, <2>4 DEF HoldsLock, NothingRunning, PollsFollow, CallPcs, AfterCheck, Ended
  <2>9. ContextsKnown'
    BY <2>1, <2>2 DEF IInv, ContextsKnown
  <2>10. HandlerTasksExclusive'
    BY <2>1 DEF IInv, HandlerTasksExclusive, Active, StartedUnderLock
  <2> QED BY <2>7, <2>8, <2>9, <2>10 DEF IInv
<1> QED BY <1>1, <1>2, <1>3
-----------------------------------------------------------------------------
(* The theorems *)

\* InitIInv: the broker starts in a state of the inductive invariant.
LEMMA InitIInv == Init => IInv
<1> SUFFICES ASSUME Init PROVE IInv
  OBVIOUS
<1> USE DEF Init, OperationsInit, DirectorInit
<1>1. Unused \in Task /\ Idle \in Poll
  BY DirectorAssumption DEF Unused, Task, TaskKinds, TaskStates, ContextIds, Idle, Poll
<1>2. TypeOK
  BY <1>1, DirectorAssumption, OperationsAssumption
     DEF TypeOK, OperationsTypeOK, DirectorTypeOK, HandlerPcs, Reports
<1>3. FitsType
  BY DEF FitsType, Fits
<1>4. HoldsLock /\ NothingRunning /\ PollsFollow
  BY DEF HoldsLock, NothingRunning, PollsFollow, CallPcs, AfterCheck, Idle
<1>5. ContextsKnown /\ HandlerTasksExclusive
  BY DirectorAssumption DEF ContextsKnown, HandlerTasksExclusive, Active, Unused
<1> QED BY <1>2, <1>3, <1>4, <1>5 DEF IInv, TypeInv

\* NextIInv: every step keeps the inductive invariant.
LEMMA NextIInv == IInv /\ [Next]_vars => IInv'
<1> SUFFICES ASSUME IInv, [Next]_vars PROVE IInv'
  OBVIOUS
<1>1. ASSUME UNCHANGED vars PROVE IInv'
  BY <1>1 DEF vars, directorVars, operationVars, resources, IInv, TypeInv, TypeOK, OperationsTypeOK,
              DirectorTypeOK, FitsType, HoldsLock, NothingRunning, ContextsKnown, PollsFollow,
              HandlerTasksExclusive, Active, StartedUnderLock
<1>2. ASSUME NEW r \in Requests, Send(r) PROVE IInv'
  BY <1>2, ClientsKeepIInv
<1>3. ASSUME NEW r \in Requests, HandlerStep(r) \/ HandlerFails(r), UNCHANGED <<poll, report>> PROVE IInv'
  BY <1>3, HandlerKeepsIInv
<1>4. ASSUME NEW r \in Requests, Abandon(r) PROVE IInv'
  BY <1>4, ClientsKeepIInv
<1>5. ASSUME NEW p \in Pollers, NEW r \in Requests, LastOperation(p, r) PROVE IInv'
  BY <1>5, LastOperationKeepsIInv
<1>6. ASSUME NEW p \in Pollers, PollStep(p) \/ PollFails(p) PROVE IInv'
  BY <1>6, PollKeepsIInv
<1>7. ASSUME NEW t \in TaskId, DirectorStep(t), UNCHANGED <<operationVars, poll, report>> PROVE IInv'
  BY <1>7, DirectorKeepsIInv
<1>8. ASSUME RestartBroker PROVE IInv'
  BY <1>8, ClientsKeepIInv
<1>9. ASSUME Quiescent PROVE IInv'
  BY <1>1, <1>9 DEF Quiescent
<1> QED BY <1>1, <1>2, <1>3, <1>4, <1>5, <1>6, <1>7, <1>8, <1>9 DEF Next

\* IInvHolds: the inductive invariant holds in every behaviour.
THEOREM IInvHolds == Spec => []IInv
<1>1. Init => IInv
  BY InitIInv
<1>2. IInv /\ [Next]_vars => IInv'
  BY NextIInv
<1> QED BY <1>1, <1>2, PTL DEF Spec

\* TypeCorrect: every variable stays in its domain, whatever the number of
\* requests, polls, errands and faults (broker.go:50).
THEOREM TypeCorrect == Spec => []TypeOK
<1>1. IInv => TypeOK
  BY DEF IInv, TypeInv
<1> QED BY <1>1, IInvHolds, PTL

\* HandlersExclude: deploymentLock and the check for tasks in progress keep the
\* BOSH tasks of two handlers apart (task.go:239, deprovision.go:136).
THEOREM HandlersExclude == Spec => []HandlerTasksExclusive
<1>1. IInv => HandlerTasksExclusive
  BY DEF IInv
<1> QED BY <1>1, IInvHolds, PTL
=============================================================================
