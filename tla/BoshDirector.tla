---------------------------- MODULE BoshDirector ----------------------------
(***************************************************************************)
(* The BOSH director as the broker sees it, for the deployment of one      *)
(* service instance: the tasks it runs, the deployment, and the functions  *)
(* of package boshdirector that read them.  The director is not part of    *)
(* the repository; its steps are modelled from what the client code relies *)
(* on.  A BOSH context id is a fresh UUID per broker request, so the       *)
(* request stands for its context id.                                      *)
(***************************************************************************)
EXTENDS Naturals, FiniteSets

CONSTANTS Requests,      \* the requests that reach the broker's handlers
          NoRequest,     \* no request, or no context id
          MaxTasks,      \* bound on the tasks the director can create
          FailedStates   \* the ways a task may fail in this instance

ASSUME DirectorAssumption ==
         /\ NoRequest \notin Requests
         /\ MaxTasks \in Nat
         /\ FailedStates \subseteq {"error", "cancelled", "timeout"}
         /\ FailedStates # {}

VARIABLES tasks,     \* the director's tasks, by task id
          lastTask,  \* the last task id given out
          deployed   \* the deployment exists on the director

directorVars == <<tasks, lastTask, deployed>>
-----------------------------------------------------------------------------
TaskId     == 1..MaxTasks
ContextIds == Requests \cup {NoRequest}

TaskKinds  == {"none", "deploy", "recreate", "errand", "delete"}
\* A task that is being cancelled counts as "processing": StateType and the director's list
\* of current tasks treat the two alike.
TaskStates == {"queued", "processing", "done", "error", "cancelled", "timeout"}

\* step: which step of its operation the task is (0 deploy, n the n-th errand);
\* ok: the exit code of the task's output is 0.
Task == [kind : TaskKinds, ctx : ContextIds, step : Nat, state : TaskStates, ok : BOOLEAN]

Unused == [kind |-> "none", ctx |-> NoRequest, step |-> 0, state |-> "done", ok |-> TRUE]

\* task.go: the classes the broker tells apart.  Its fourth, TaskUnknown, is for states that
\* the director does not have; like "failed" it ends an operation.
StateType(s) ==
  CASE s = "done"                            -> "complete"
    [] s \in {"queued", "processing"}        -> "incomplete"
    [] s \in {"cancelled", "error", "timeout"} -> "failed"

\* An errand whose script fails is a 'done' task with a non-zero exit code.
fetchTaskState(t) ==
  IF tasks[t].state = "done" /\ ~tasks[t].ok THEN "error" ELSE tasks[t].state

GetTask(t) == tasks[t].state

GetTasksInProgress == {t \in TaskId : tasks[t].state \in {"queued", "processing"}}

GetNormalisedTasksByContext(c) == {t \in TaskId : tasks[t].kind # "none" /\ tasks[t].ctx = c}

\* FindTasksByContextId lists the newest task first: boshTasks[0].
Newest(ts) == CHOOSE t \in ts : \A u \in ts : u <= t

(***************************************************************************)
(* Requests to the director that create a task.  The client returns the    *)
(* task's id as soon as the director reports it, not when the task ends.   *)
(***************************************************************************)
StartTask(kind, c, step) ==
  /\ lastTask < MaxTasks
  /\ lastTask' = lastTask + 1
  /\ tasks' = [tasks EXCEPT ![lastTask + 1] =
                 [kind |-> kind, ctx |-> c, step |-> step, state |-> "queued", ok |-> TRUE]]

Deploy(c) == StartTask("deploy", c, 0)

\* These two need the deployment: the director answers with an error otherwise.
Recreate(c)        == deployed /\ StartTask("recreate", c, 0)
RunErrand(c, step) == deployed /\ StartTask("errand", c, step)

\* A deployment that is not found is no error: no task, and task id 0.
DeleteDeployment(c, step) ==
  IF deployed THEN StartTask("delete", c, step) ELSE UNCHANGED <<tasks, lastTask>>
DeleteTaskId == IF deployed THEN lastTask + 1 ELSE 0

(***************************************************************************)
(* The director's own steps.  It runs one task of a deployment at a time;  *)
(* the rest wait.  A deployment becomes visible at some point of the task  *)
(* that creates it; a failing task may leave it visible or not.            *)
(***************************************************************************)
TaskStarts(t) ==
  /\ tasks[t].state = "queued"
  /\ \A u \in TaskId : tasks[u].state # "processing"
  /\ tasks' = [tasks EXCEPT ![t].state = "processing"]
  /\ deployed' \in IF tasks[t].kind = "deploy" THEN {deployed, TRUE} ELSE {deployed}
  /\ UNCHANGED lastTask

TaskSucceeds(t) ==
  /\ tasks[t].state = "processing"
  /\ tasks[t].kind \in {"errand", "recreate"} => deployed
  /\ \E ok \in IF tasks[t].kind = "errand" THEN BOOLEAN ELSE {TRUE} :
       tasks' = [tasks EXCEPT ![t].state = "done", ![t].ok = ok]
  /\ deployed' = CASE tasks[t].kind = "deploy" -> TRUE
                   [] tasks[t].kind = "delete" -> FALSE
                   [] OTHER                    -> deployed
  /\ UNCHANGED lastTask

TaskFails(t) ==
  /\ tasks[t].state = "processing"
  /\ \E s \in FailedStates : tasks' = [tasks EXCEPT ![t].state = s]
  /\ UNCHANGED <<lastTask, deployed>>

DirectorInit ==
  /\ tasks = [t \in TaskId |-> Unused]
  /\ lastTask = 0
  /\ deployed \in BOOLEAN

DirectorTypeOK ==
  /\ tasks \in [TaskId -> Task]
  /\ lastTask \in 0..MaxTasks
  /\ deployed \in BOOLEAN
  /\ \A t \in TaskId : t > lastTask => tasks[t] = Unused
=============================================================================
