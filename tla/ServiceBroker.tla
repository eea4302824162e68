---------------------------- MODULE ServiceBroker ----------------------------
(***************************************************************************)
(* LastOperation and the LifeCycleRunner beside the operations, and the    *)
(* clients that send and poll.  LastOperation takes no lock: each BOSH     *)
(* call of a poll is a step that interleaves with everything else.         *)
(***************************************************************************)
EXTENDS DeploymentOperations

CONSTANTS Pollers,          \* goroutines serving LastOperation
          NoPoll,           \* a poller without a request
          ConcurrentPolls,  \* a client may poll again before the last answer
          QuickTasks        \* a task may end before the GetTask that follows its start

ASSUME PollingAssumption ==
         /\ NoPoll \notin Requests
         /\ ConcurrentPolls \in BOOLEAN
         /\ QuickTasks \in BOOLEAN

VARIABLES poll,   \* what each poller is doing: its next call, request, task, errand
          report  \* the last state reported for each operation

vars == <<directorVars, operationVars, poll, report>>

Poll     == [at : {"idle", "errand", "delete", "look", "configs", "secrets"},
             req : Requests \cup {NoPoll}, task : 0..MaxTasks, step : Nat]
Idle     == [at |-> "idle", req |-> NoPoll, task |-> 0, step |-> 0]
Reports  == {"none", "in progress", "succeeded", "failed"}
Terminal == {"succeeded", "failed"}
-----------------------------------------------------------------------------
(* LifeCycleRunner: what the next poll of operation r does *)

Answer(t, s)  == [move |-> "answer", task |-> t, state |-> s, step |-> 0]
NextErrand(n) == [move |-> "errand", task |-> 0, state |-> "incomplete", step |-> n]
RunDelete     == [move |-> "delete", task |-> 0, state |-> "incomplete", step |-> 0]
NoTasksFound  == [move |-> "error", task |-> 0, state |-> "incomplete", step |-> 0]

\* Post-deploy errand n+1 runs when the deploy and n errands are complete.  Operation data of
\* older brokers name one errand instead of a list, here a list of one; so below.
processPostDeployment_OffByOne(r) ==
  LET boshTasks == GetNormalisedTasksByContext(r)
      task      == Newest(boshTasks)
      state     == StateType(fetchTaskState(task))
      next      == Cardinality(boshTasks)
  IN  IF boshTasks = {} THEN NoTasksFound
      ELSE IF state # "complete" \/ next >= Errands(r)
           THEN Answer(task, state)
           ELSE NextErrand(next + 1)

processPostDeployment(r) ==
  LET boshTasks == GetNormalisedTasksByContext(r)
      task      == Newest(boshTasks)
      state     == StateType(fetchTaskState(task))
      next      == Cardinality(boshTasks) - 1
  IN  IF boshTasks = {} THEN NoTasksFound
      ELSE IF state # "complete" \/ next >= Errands(r)
           THEN Answer(task, state)
           ELSE NextErrand(next + 1)

\* A failed pre-delete errand stops a delete but not a forced one.
taskIsNotDone_SkipsErrors(state, ty) == state \notin {"complete", "failed"}
taskIsNotDone(state, ty) ==
  /\ state # "complete"
  /\ ~(state = "failed" /\ ty = "force-delete")

processPreDelete_OffByOne(r) ==
  LET boshTasks   == GetNormalisedTasksByContext(r)
      currentTask == Newest(boshTasks)
      state       == StateType(fetchTaskState(currentTask))
      len         == Cardinality(boshTasks)
  IN  IF boshTasks = {} THEN NoTasksFound
      ELSE IF taskIsNotDone(state, type[r]) \/ len >= Errands(r)
           THEN Answer(currentTask, state)
           ELSE NextErrand(len + 1)

processPreDelete(r) ==
  LET boshTasks   == GetNormalisedTasksByContext(r)
      currentTask == Newest(boshTasks)
      state       == StateType(fetchTaskState(currentTask))
      len         == Cardinality(boshTasks)
  IN  IF boshTasks = {} THEN NoTasksFound
      ELSE IF taskIsNotDone(state, type[r]) THEN Answer(currentTask, state)
      ELSE IF len = Errands(r) THEN RunDelete
      ELSE IF len > Errands(r) THEN Answer(currentTask, state)
      ELSE NextErrand(len + 1)

LifeCycleRunnerGetTask(r) ==
  IF ~HasContext(r) THEN Answer(opTask[r], StateType(GetTask(opTask[r])))
  ELSE IF type[r] \in DeleteTypes THEN processPreDelete(r)
  ELSE processPostDeployment(r)
-----------------------------------------------------------------------------
(* LastOperation *)

\* The client has acted on a terminal answer: a later one changes nothing.
Report(r, s) == report' = [report EXCEPT ![r] = IF @ \in Terminal THEN @ ELSE s]

lastOperationState_Unmapped(state) == state
lastOperationState(state) ==
  CASE state = "incomplete" -> "in progress"
    [] state = "complete"   -> "succeeded"
    [] OTHER                -> "failed"

cleanUpDue(r, state) == type[r] \in DeleteTypes /\ state = "complete"

\* What follows once the last task is known: clean up after a finished
\* delete, otherwise the answer.
Conclude(p, r, t, state) ==
  IF cleanUpDue(r, state)
  THEN /\ poll' = [poll EXCEPT ![p] = [at |-> "configs", req |-> r, task |-> t, step |-> 0]]
       /\ UNCHANGED report
  ELSE /\ poll' = [poll EXCEPT ![p] = Idle]
       /\ Report(r, lastOperationState(state))

\* A poll arrives and reads the operation's tasks.
LastOperation(p, r) ==
  /\ poll[p].at = "idle"
  /\ pc[r] = "accepted" /\ opTask[r] # 0
  /\ report[r] \notin Terminal /\ r \notin abandoned
  /\ ConcurrentPolls \/ \A q \in Pollers : poll[q].req # r
  /\ LET next == LifeCycleRunnerGetTask(r)
     IN  CASE next.move = "answer" -> Conclude(p, r, next.task, next.state)
           [] next.move = "error"  -> UNCHANGED <<poll, report>>
           [] OTHER -> /\ poll' = [poll EXCEPT ![p] = [at |-> next.move, req |-> r,
                                                       task |-> 0, step |-> next.step]]
                       /\ UNCHANGED report
  /\ UNCHANGED <<directorVars, operationVars>>

PollRunsErrand(p) ==
  /\ poll[p].at = "errand"
  /\ \/ /\ RunErrand(poll[p].req, poll[p].step)
        /\ poll' = [poll EXCEPT ![p].at = "look", ![p].task = lastTask + 1]
     \/ ~deployed /\ poll' = [poll EXCEPT ![p] = Idle] /\ UNCHANGED <<tasks, lastTask>>
  /\ UNCHANGED <<deployed, operationVars, report>>

DeprovisionAfterAllErrand_WithoutContext(p) ==
  /\ poll[p].at = "delete"
  /\ DeleteDeployment(NoRequest, 0)
  /\ poll' = [poll EXCEPT ![p] = IF deployed THEN [@ EXCEPT !.at = "look", !.task = DeleteTaskId]
                                            ELSE Idle]
  /\ UNCHANGED <<deployed, operationVars, report>>

\* Task id 0 of a deployment that is not found any more cannot be looked up:
\* the poll ends with an error.
DeprovisionAfterAllErrand(p) ==
  /\ poll[p].at = "delete"
  /\ DeleteDeployment(poll[p].req, PreErrands + 1)
  /\ poll' = [poll EXCEPT ![p] = IF deployed THEN [@ EXCEPT !.at = "look", !.task = DeleteTaskId]
                                            ELSE Idle]
  /\ UNCHANGED <<deployed, operationVars, report>>

\* GetTask on the task just started: its raw state, not the normalised one.
PollLooksAtNewTask(p) ==
  /\ poll[p].at = "look"
  /\ Conclude(p, poll[p].req, poll[p].task, StateType(GetTask(poll[p].task)))
  /\ UNCHANGED <<directorVars, operationVars>>

DeleteConfigs(p) ==
  /\ poll[p].at = "configs"
  /\ configs' = FALSE
  /\ poll' = [poll EXCEPT ![p].at = "secrets"]
  /\ UNCHANGED <<directorVars, secrets, client, lock, type, pc, opTask, abandoned, faults, report>>

DeleteSecrets(p) ==
  /\ poll[p].at = "secrets"
  /\ secrets' = FALSE
  /\ poll' = [poll EXCEPT ![p] = Idle]
  /\ Report(poll[p].req, "succeeded")
  /\ UNCHANGED <<directorVars, configs, client, lock, type, pc, opTask, abandoned, faults>>

\* A BOSH call of a poll errors (no report, the client polls again), or the
\* clean-up errors (reported as failed).
PollFails(p) ==
  /\ poll[p].at # "idle"
  /\ Fault("error")
  /\ IF poll[p].at \in {"configs", "secrets"} THEN Report(poll[p].req, "failed")
                                               ELSE UNCHANGED report
  /\ poll' = [poll EXCEPT ![p] = Idle]
  /\ UNCHANGED <<directorVars, resources, lock, type, pc, opTask, abandoned>>

PollStep(p) ==
  \/ PollRunsErrand(p)
  \/ DeprovisionAfterAllErrand(p)
  \/ PollLooksAtNewTask(p)
  \/ DeleteConfigs(p)
  \/ DeleteSecrets(p)
-----------------------------------------------------------------------------
(* Clients *)

\* Cloud Foundry runs one operation of an instance at a time; upgrade-all
\* and recreate-all use the management API and know nothing of that.
PlatformTypes == {"create", "update", "delete", "force-delete"}
Over(r) ==
  \/ r \in abandoned
  \/ pc[r] \in {"unsent", "failed", "gone", "lost"}
  \/ (pc[r] = "accepted" /\ report[r] \in Terminal)

Deleted(r) == type[r] \in DeleteTypes /\ (pc[r] = "gone" \/ report[r] = "succeeded")

\* A new instance starts with a create, which is never sent again.
MaySend(ty) ==
  /\ ty = "create" <=> (~deployed /\ \A q \in Requests : pc[q] = "unsent")
  /\ ty \in PlatformTypes => \A q \in Requests : /\ type[q] \in PlatformTypes => Over(q)
                                                 /\ ~Deleted(q)

Send(r) ==
  /\ pc[r] = "unsent"
  /\ \E ty \in Types :
       /\ MaySend(ty)
       /\ type' = [type EXCEPT ![r] = ty]
       /\ Goto(r, IF ty = "update" THEN "updateClient" ELSE "lock")
  /\ UNCHANGED <<directorVars, resources, lock, opTask, abandoned, faults, poll, report>>

\* The client stops waiting for the answer or for the operation to end.
Abandon(r) ==
  /\ InFlight(r) \/ (pc[r] = "accepted" /\ report[r] \notin Terminal)
  /\ r \notin abandoned
  /\ Fault("abandon")
  /\ abandoned' = abandoned \cup {r}
  /\ UNCHANGED <<directorVars, resources, lock, type, pc, opTask, poll, report>>

\* The broker process stops and starts: goroutines and the lock are gone,
\* what BOSH, UAA and CredHub hold stays.
RestartBroker ==
  /\ Fault("restart")
  /\ lock' = NoRequest
  /\ pc' = [r \in Requests |-> IF InFlight(r) THEN "lost" ELSE pc[r]]
  /\ poll' = [p \in Pollers |-> Idle]
  /\ UNCHANGED <<directorVars, resources, type, opTask, abandoned, report>>

\* Unless tasks can be quick, none ends between its start and the GetTask
\* of the poll that started it.
DirectorMayEnd(t) == QuickTasks \/ \A p \in Pollers : poll[p].at = "look" => poll[p].task # t

DirectorStep(t) ==
  \/ TaskStarts(t)
  \/ DirectorMayEnd(t) /\ TaskSucceeds(t)
  \/ DirectorMayEnd(t) /\ TaskFails(t)

Quiescent ==
  /\ \A r \in Requests : pc[r] \in Ended \/ (pc[r] = "unsent" /\ \A ty \in Types : ~MaySend(ty))
  /\ \A r \in Requests : pc[r] = "accepted" => Over(r) \/ opTask[r] = 0
  /\ \A p \in Pollers : poll[p].at = "idle"
  /\ GetTasksInProgress = {}
  /\ UNCHANGED vars

Init ==
  /\ OperationsInit
  /\ poll = [p \in Pollers |-> Idle]
  /\ report = [r \in Requests |-> "none"]

Next ==
  \/ \E r \in Requests : Send(r)
  \/ \E r \in Requests : HandlerStep(r) /\ UNCHANGED <<poll, report>>
  \/ \E r \in Requests : HandlerFails(r) /\ UNCHANGED <<poll, report>>
  \/ \E r \in Requests : Abandon(r)
  \/ \E p \in Pollers, r \in Requests : LastOperation(p, r)
  \/ \E p \in Pollers : PollStep(p)
  \/ \E p \in Pollers : PollFails(p)
  \/ \E t \in TaskId : DirectorStep(t) /\ UNCHANGED <<operationVars, poll, report>>
  \/ RestartBroker
  \/ Quiescent

Spec == Init /\ [][Next]_vars

(***************************************************************************)
(* BOSH runs the tasks it accepted, goroutines run, sync.Mutex does not    *)
(* starve, and a client polls until it has a terminal answer.  Nothing     *)
(* forces a client to send, to give up, or a call to fail.                 *)
(***************************************************************************)
Fairness ==
  /\ \A r \in Requests : WF_vars(HandlerStep(r) /\ UNCHANGED <<poll, report>>)
  /\ \A r \in Requests : WF_vars(\E p \in Pollers : LastOperation(p, r))
  /\ \A p \in Pollers : WF_vars(PollStep(p))
  /\ \A t \in TaskId : WF_vars(DirectorStep(t) /\ UNCHANGED <<operationVars, poll, report>>)

FairSpec == Spec /\ Fairness
=============================================================================
