----------------------- MODULE ServiceBrokerProperties -----------------------
(***************************************************************************)
(* What the broker's operations on one service instance must keep true.    *)
(***************************************************************************)
EXTENDS ServiceBroker

\* TypeOK: every variable of the broker model stays in its domain.
TypeOK ==
  /\ OperationsTypeOK
  /\ poll \in [Pollers -> Poll]
  /\ report \in [Requests -> Reports]
-----------------------------------------------------------------------------
Active(t) == tasks[t].state \in {"queued", "processing"}

\* Tasks a handler creates with the lock held: deploys, recreates, the delete
\* of a plan without pre-delete errands, the first pre-delete errand.  A poll
\* creates the others.
StartedUnderLock(t) ==
  \/ tasks[t].kind \in {"deploy", "recreate"}
  \/ tasks[t].kind = "delete" /\ tasks[t].ctx = NoRequest
  \/ tasks[t].kind = "errand" /\ tasks[t].step = 1 /\ type[tasks[t].ctx] \in DeleteTypes

\* HandlerTasksExclusive: deploymentLock and the check for tasks in progress
\* together keep two handlers from having BOSH tasks run on the deployment at
\* the same time, whatever polls start meanwhile (task.go:239, deprovision.go:136).
HandlerTasksExclusive ==
  \A t, u \in TaskId :
    Active(t) /\ StartedUnderLock(t) /\ Active(u) /\ StartedUnderLock(u) => t = u

Passed(t) == LET s == StateType(fetchTaskState(t))
             IN  \/ s = "complete"
                 \/ /\ s = "failed" /\ tasks[t].ctx \in Requests
                    /\ type[tasks[t].ctx] = "force-delete"

FirstStep(r) == IF type[r] \in DeleteTypes THEN 1 ELSE 0

\* StepsInOrder: under one context id each step of an operation runs at most
\* once, in order, none is skipped, and a step only starts after the one
\* before it passed (lifecycle_runner.go:57, 92).
StepsInOrder ==
  \A r \in Requests : LET mine == GetNormalisedTasksByContext(r) IN
    /\ \A t, u \in mine : t < u => tasks[t].step < tasks[u].step /\ Passed(t)
    /\ \A u \in mine : \/ tasks[u].step = FirstStep(r)
                       \/ \E t \in mine : tasks[t].step + 1 = tasks[u].step

LastStep(r) == IF type[r] \in DeleteTypes THEN PreErrands + 1 ELSE PostErrands

\* SucceededMeansEveryStepRan: an operation reported as succeeded ran all its
\* steps, and the last of them completed (last_operation.go:81).
SucceededMeansEveryStepRan ==
  \A r \in Requests : report[r] = "succeeded" /\ HasContext(r) =>
    \A n \in FirstStep(r)..LastStep(r) :
      \E t \in GetNormalisedTasksByContext(r) : tasks[t].step = n /\ Passed(t)

\* DeletionIsFinal: once a deletion is reported as succeeded the deployment is
\* gone and stays gone (last_operation.go:37 "Instance deletion completed").
DeletionIsFinal ==
  \A r \in Requests : type[r] \in DeleteTypes /\ report[r] = "succeeded" => ~deployed

\* DeploymentKeepsItsResources: configs and secrets are only removed once the
\* deployment they belong to is gone (deprovision.go:51, last_operation.go:149).
DeploymentKeepsItsResources == deployed => configs /\ secrets

\* DeletionDropsClient: after a deletion reported as succeeded no UAA client is
\* left (deprovision.go:88).
DeletionDropsClient ==
  \A r \in Requests : type[r] \in DeleteTypes /\ report[r] = "succeeded" => ~client

\* AcceptedHasTask: an accepted operation has a BOSH task a poll can look at
\* (last_operation.go:72).
AcceptedHasTask == \A r \in Requests : pc[r] = "accepted" => opTask[r] # 0

\* GoneIsFinal: an instance answered as not found stays gone
\* (deprovision.go:55 "error deprovisioning: instance %s, not found").
GoneIsFinal == \A r \in Requests : pc[r] = "gone" => ~deployed

Steps(r) ==
  CASE type[r] = "none"          -> 0
    [] type[r] \in DeleteTypes   -> PreErrands + 1
    [] OTHER                     -> IF HasContext(r) THEN PostErrands + 1 ELSE 1

TasksOf(r) ==
  IF HasContext(r) THEN GetNormalisedTasksByContext(r) ELSE {opTask[r]} \ {0}

\* Another request's delete has removed the deployment while the operation still has steps
\* to start, which it can not any more.
Stranded(r) ==
  /\ Cardinality(TasksOf(r)) < Steps(r)
  /\ \E q \in Requests \ {r} : \E t \in TasksOf(q) : tasks[t].kind = "delete" /\ tasks[t].state = "done"

\* AcceptedIsAnswered: a client that keeps polling an accepted operation gets a
\* terminal answer (last_operation.go:50), with three exceptions: the client gave up
\* on it, it was accepted with task id 0 (delete_deployment.go:27), or another
\* request's delete stranded it (lifecycle_runner.go:133, 188).
AcceptedIsAnswered ==
  \A r \in Requests :
    (pc[r] = "accepted" /\ opTask[r] # 0) ~>
      (report[r] \in Terminal \/ r \in abandoned \/ Stranded(r))

\* AcceptedIsAlwaysAnswered: the same without the third exception; it does not hold.
\* A poll goes on trying to run an errand on a deployment that is gone
\* (lifecycle_runner.go:188), or takes task id 0 for an error (lifecycle_runner.go:133).
AcceptedIsAlwaysAnswered ==
  \A r \in Requests :
    (pc[r] = "accepted" /\ opTask[r] # 0) ~> (report[r] \in Terminal \/ r \in abandoned)
-----------------------------------------------------------------------------
(* The promise of ServiceOperation *)

Current(r) ==
  IF TasksOf(r) = {} THEN "none"
  ELSE IF Active(Newest(TasksOf(r))) THEN "running"
  ELSE IF Passed(Newest(TasksOf(r))) THEN "passed" ELSE "failed"

StepsInAll   == [r \in Requests |-> Steps(r)]
StepsStarted == [r \in Requests |-> Cardinality(TasksOf(r))]
LatestStep   == [r \in Requests |-> Current(r)]

Promise == INSTANCE ServiceOperation
             WITH Operations <- Requests, total <- StepsInAll, started <- StepsStarted,
                  current <- LatestStep, verdict <- report

\* KeepsPromise: the broker and its polls implement ServiceOperation: steps
\* start one after another and the verdict follows from how they ended
\* (lifecycle_runner.go:32, last_operation.go:123).
KeepsPromise == Promise!OperationSpec
=============================================================================
