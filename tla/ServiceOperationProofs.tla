----------------------- MODULE ServiceOperationProofs -----------------------
(***************************************************************************)
(* What follows from the broker's tasks, for any number of requests,       *)
(* pollers, errands, tasks and faults: it implements ServiceOperation      *)
(* (steps of an operation follow one another and the verdict is how they   *)
(* ended), a deletion is final, and a deployment keeps what it needs.      *)
(***************************************************************************)
EXTENDS ServiceBrokerProofs

\* What the proof looks at: the tasks of each operation, which of the director's tasks run and
\* which passed, and what is fixed when a request is sent.
Own         == [r \in Requests |-> TasksOf(r)]
ActiveTasks == {t \in TaskId : Active(t)}
PassedTasks == {t \in TaskId : Passed(t)}
StepOf      == [t \in TaskId |-> tasks[t].step]
Contexts    == {r \in Requests : HasContext(r)}
FirstOf     == [r \in Requests |-> FirstStep(r)]

taskViews == <<Own, ActiveTasks, PassedTasks, StepOf, lastTask, StepsInAll, Contexts, FirstOf>>

\* The calls of a handler after it has started its task.
StartedPcs == {"finish", "dropClient", "accepted", "failed", "lost"}

\* A task belongs to one operation, which has started it, or to its context; only errands have
\* scripts that fail.  An operation without a context id remembers its task.
TasksInv ==
  /\ \A t \in TaskId : tasks[t].kind # "errand" => tasks[t].ok
  /\ \A t \in TaskId : tasks[t].ctx \in Requests =>
       tasks[t].ctx \in Contexts /\ pc[tasks[t].ctx] \in StartedPcs
  /\ \A r \in Requests : /\ opTask[r] <= lastTask
                         /\ pc[r] \notin StartedPcs => opTask[r] = 0
                         /\ ~HasContext(r) /\ opTask[r] # 0 => tasks[opTask[r]].ctx = NoRequest
  /\ \A q, r \in Requests : q # r /\ opTask[q] = opTask[r] => opTask[r] = 0

\* A handler that deprovisions runs the first errand or deletes, as the plan has errands or not;
\* what is asked for is known when the request is sent.
PathInv == \A r \in Requests : /\ pc[r] = "errand" => PreErrands > 0
                               /\ pc[r] = "delete" => PreErrands = 0
                               /\ pc[r] = "unsent" => type[r] = "none"

\* The tasks of an operation are its steps so far, one each, and all but the last one passed.
ChainInv ==
  \A r \in Requests :
    /\ Cardinality(Own[r]) <= StepsInAll[r]
    /\ \A t, u \in Own[r] : t < u => t \in PassedTasks
    /\ r \in Contexts =>
         /\ \A t, u \in Own[r] : t < u => StepOf[t] < StepOf[u]
         /\ \A t \in Own[r] : \/ StepOf[t] = FirstOf[r]
                              \/ \E u \in Own[r] : StepOf[u] + 1 = StepOf[t]
         /\ \A t \in Own[r] : StepOf[t] < FirstOf[r] + Cardinality(Own[r])
         /\ Own[r] # {} => \E t \in Own[r] : StepOf[t] + 1 = FirstOf[r] + Cardinality(Own[r])

\* A poll is about to start the step after those that passed, looks at one that runs, or cleans up
\* when all have passed; an operation has one poll at a time.
StepDue(p) == CASE poll[p].at = "errand" -> poll[p].step
                [] poll[p].at = "delete" -> PreErrands + 1
Serves(p) ==
  LET r == poll[p].req IN
  /\ poll[p].at \in {"errand", "delete"} =>
       /\ r \in Contexts /\ Own[r] # {} /\ Own[r] \subseteq PassedTasks
       /\ Cardinality(Own[r]) < StepsInAll[r]
       /\ StepDue(p) = FirstOf[r] + Cardinality(Own[r])
  /\ poll[p].at = "look" => poll[p].task \in Own[r] \cap ActiveTasks
  /\ poll[p].at \in {"configs", "secrets"} =>
       Own[r] # {} /\ Own[r] \subseteq PassedTasks /\ Cardinality(Own[r]) = StepsInAll[r]
PollInv == \A p \in Pollers : Serves(p)
PollsApart ==
  \A p, q \in Pollers : p # q /\ poll[p].req \in Requests => poll[p].req # poll[q].req

OrderInv == IInv /\ TasksInv /\ PathInv /\ ChainInv /\ PollInv /\ PollsApart
-----------------------------------------------------------------------------
(* What is known of the tasks of an operation. *)

\* The tasks of an operation are the director's, known, finitely many; none before it is started.
LEMMA OwnTasks ==
  ASSUME IInv, TasksInv, NEW r \in Requests
  PROVE  /\ Own[r] = TasksOf(r) /\ Own[r] \subseteq TaskId /\ IsFiniteSet(Own[r])
         /\ \A t \in Own[r] : t \in Nat /\ t <= lastTask
         /\ Cardinality(Own[r]) \in Nat
         /\ Cardinality(Own[r]) = 0 <=> Own[r] = {}
         /\ pc[r] \notin StartedPcs => Own[r] = {}
<1>1. /\ lastTask \in 0..MaxTasks /\ opTask[r] \in 0..MaxTasks
      /\ \A t \in TaskId : t > lastTask => tasks[t].kind = "none"
  BY DEF IInv, TypeInv, TypeOK, OperationsTypeOK, DirectorTypeOK, Unused
<1>2. Own[r] = TasksOf(r)
  BY DEF Own
<1>3. /\ \A t \in Own[r] : t \in TaskId /\ t <= lastTask
      /\ pc[r] \notin StartedPcs => Own[r] = {}
  <2>1. CASE HasContext(r)
    BY <1>1, <1>2, <2>1, DirectorAssumption DEF TasksOf, GetNormalisedTasksByContext, TasksInv, TaskId
  <2>2. CASE ~HasContext(r)
    BY <1>1, <1>2, <2>2, DirectorAssumption DEF TasksOf, TasksInv, TaskId
  <2> QED BY <2>1, <2>2
<1>4. IsFiniteSet(TaskId)
  BY FS_Interval, DirectorAssumption DEF TaskId
<1>5. IsFiniteSet(Own[r])
  BY <1>3, <1>4, FS_Subset
<1>6. Cardinality(Own[r]) \in Nat /\ (Cardinality(Own[r]) = 0 <=> Own[r] = {})
  BY <1>5, FS_CardinalityType, FS_EmptySet
<1> QED BY <1>2, <1>3, <1>5, <1>6 DEF TaskId

\* No task belongs to two operations.
LEMMA OwnApart ==
  ASSUME IInv, TasksInv, NEW q \in Requests, NEW r \in Requests, q # r
  PROVE  Own[q] \cap Own[r] = {}
<1>1. opTask[q] \in 0..MaxTasks /\ opTask[r] \in 0..MaxTasks
  BY DEF IInv, TypeInv, TypeOK, OperationsTypeOK
<1>2. TasksOf(q) \cap TasksOf(r) = {}
  BY <1>1, DirectorAssumption DEF TasksOf, GetNormalisedTasksByContext, TasksInv, Contexts
<1> QED BY <1>2 DEF Own

\* The newest of some tasks.
LEMMA NewestIs ==
  ASSUME NEW ts \in SUBSET TaskId, NEW m \in ts, \A t \in ts : t <= m
  PROVE  Newest(ts) = m
<1>1. Newest(ts) \in ts /\ m <= Newest(ts) /\ Newest(ts) <= m
  BY DEF Newest
<1>2. \A t \in TaskId : t \in Nat
  BY DirectorAssumption DEF TaskId
<1>3. m \in TaskId /\ Newest(ts) \in TaskId
  BY <1>1
<1> QED BY <1>1, <1>2, <1>3

\* A task runs, has passed, or has failed for good.
LEMMA TaskStands ==
  ASSUME IInv, NEW t \in TaskId
  PROVE  /\ Active(t) <=> StateType(fetchTaskState(t)) = "incomplete"
         /\ Passed(t) => ~Active(t)
         /\ StateType(fetchTaskState(t)) \in {"complete", "incomplete", "failed"}
         /\ tasks[t].ok => fetchTaskState(t) = GetTask(t)
<1>1. tasks[t].state \in TaskStates /\ tasks[t].ok \in BOOLEAN
  BY DEF IInv, TypeInv, TypeOK, OperationsTypeOK, DirectorTypeOK, Task
<1>2. fetchTaskState(t) \in TaskStates /\ (Active(t) <=> fetchTaskState(t) \in {"queued", "processing"})
  BY <1>1 DEF fetchTaskState, Active, TaskStates
<1>3. \A s \in TaskStates : /\ StateType(s) \in {"complete", "incomplete", "failed"}
                            /\ StateType(s) = "incomplete" <=> s \in {"queued", "processing"}
  BY DEF TaskStates, StateType
<1>4. Passed(t) => StateType(fetchTaskState(t)) \in {"complete", "failed"}
  BY DEF Passed
<1> QED BY <1>1, <1>2, <1>3, <1>4 DEF fetchTaskState, GetTask

\* The latest step of an operation, as ServiceOperation sees it.
LEMMA LatestIs ==
  ASSUME IInv, TasksInv, NEW r \in Requests
  PROVE  /\ LatestStep[r] = Current(r) /\ StepsStarted[r] = Cardinality(Own[r])
         /\ Own[r] = {} => LatestStep[r] = "none"
         /\ \A m \in Own[r] : (\A t \in Own[r] : t <= m) =>
              LatestStep[r] = IF m \in ActiveTasks THEN "running"
                              ELSE IF m \in PassedTasks THEN "passed" ELSE "failed"
<1>1. Own[r] = TasksOf(r) /\ Own[r] \subseteq TaskId
  BY OwnTasks
<1>2. LatestStep[r] = Current(r) /\ StepsStarted[r] = Cardinality(Own[r])
  BY <1>1 DEF LatestStep, StepsStarted
<1>3. ASSUME NEW m \in Own[r], \A t \in Own[r] : t <= m
      PROVE  Newest(TasksOf(r)) = m /\ TasksOf(r) # {} /\ m \in TaskId
  BY <1>1, <1>3, NewestIs
<1>4. ASSUME NEW m \in Own[r], \A t \in Own[r] : t <= m
      PROVE  Current(r) = IF m \in ActiveTasks THEN "running"
                          ELSE IF m \in PassedTasks THEN "passed" ELSE "failed"
  BY <1>3, <1>4 DEF Current, ActiveTasks, PassedTasks
<1> QED BY <1>1, <1>2, <1>4 DEF Current
-----------------------------------------------------------------------------
(* What steps do to the tasks, as the proof looks at them. *)

\* The next task is started as the next step of operation r, those before it having passed.
Starts(r) ==
  LET n == lastTask + 1 IN
  /\ Own[r] \subseteq PassedTasks /\ Cardinality(Own[r]) < StepsInAll[r]
  /\ r \in Contexts => StepOf'[n] = FirstOf[r] + Cardinality(Own[r])
  /\ n \in TaskId /\ n \notin ActiveTasks /\ lastTask' = n
  /\ Own' = [Own EXCEPT ![r] = @ \cup {n}]
  /\ ActiveTasks' = ActiveTasks \cup {n} /\ PassedTasks' = PassedTasks \ {n}
  /\ \A t \in TaskId \ {n} : StepOf'[t] = StepOf[t]
  /\ UNCHANGED <<StepsInAll, Contexts, FirstOf>>

\* Task t ends, in whatever way.
Ends(t) ==
  /\ t \in ActiveTasks /\ ActiveTasks' = ActiveTasks \ {t}
  /\ PassedTasks' \in {PassedTasks, PassedTasks \cup {t}}
  /\ UNCHANGED <<Own, StepOf, lastTask, StepsInAll, Contexts, FirstOf>>

\* What leaves tasks, types and operation data alone leaves all of this alone.
LEMMA SameTasks ==
  ASSUME UNCHANGED <<tasks, lastTask, type, opTask>>
  PROVE  UNCHANGED taskViews
<1>1. \A t \in TaskId : Active(t)' = Active(t) /\ Passed(t)' = Passed(t)
  BY DEF Active, Passed, fetchTaskState, StateType
<1>2. \A r \in Requests : HasContext(r)' = HasContext(r) /\ FirstStep(r)' = FirstStep(r) /\ Steps(r)' = Steps(r)
  BY DEF HasContext, FirstStep, Steps
<1>3. \A r \in Requests : TasksOf(r)' = TasksOf(r)
  BY <1>2 DEF TasksOf, GetNormalisedTasksByContext
<1>4. Own' = Own /\ StepsInAll' = StepsInAll /\ FirstOf' = FirstOf /\ StepOf' = StepOf
  BY <1>2, <1>3 DEF Own, StepsInAll, FirstOf, StepOf
<1>5. ActiveTasks' = ActiveTasks /\ PassedTasks' = PassedTasks /\ Contexts' = Contexts
  BY <1>1, <1>2 DEF ActiveTasks, PassedTasks, Contexts
<1> QED BY <1>4, <1>5 DEF taskViews
-----------------------------------------------------------------------------
\* A task that is started for operation r is its next step, and belongs to no other.
LEMMA TaskOf ==
  ASSUME IInv, TasksInv, NEW r \in Requests, NEW kind \in {"deploy", "recreate", "delete", "errand"},
         NEW c, NEW step \in Nat, StartTask(kind, c, step), UNCHANGED type,
         c = BoshContextID(r), kind = "errand" => c = r,
         \/ opTask' = [opTask EXCEPT ![r] = lastTask + 1] /\ pc[r] \notin StartedPcs
         \/ opTask' = opTask /\ HasContext(r),
         pc'[r] \in StartedPcs, \A q \in Requests \ {r} : pc'[q] = pc[q],
         Own[r] \subseteq PassedTasks, Cardinality(Own[r]) < StepsInAll[r],
         HasContext(r) => step = FirstStep(r) + Cardinality(Own[r])
  PROVE  Starts(r) /\ TasksInv'
<1>0. PICK n : n = lastTask + 1
  OBVIOUS
<1>1. /\ n \in TaskId /\ tasks'[n].kind = kind /\ tasks'[n].ctx = c /\ tasks'[n].step = step
      /\ \A t \in TaskId \ {n} : tasks'[t] = tasks[t]
  BY <1>0, NewTask DEF IInv
<1>2. /\ lastTask' = n /\ lastTask \in Nat /\ tasks[n] = Unused
      /\ opTask \in [Requests -> 0..MaxTasks] /\ tasks \in [TaskId -> Task]
  BY <1>0, <1>1, DirectorAssumption
     DEF StartTask, IInv, TypeInv, TypeOK, OperationsTypeOK, DirectorTypeOK, TaskId
<1>3. tasks'[n].state = "queued" /\ tasks'[n].ok = TRUE
  BY <1>0, <1>1, <1>2 DEF StartTask
<1>4. /\ n \in ActiveTasks' /\ n \notin PassedTasks' /\ n \notin ActiveTasks
      /\ \A t \in TaskId \ {n} : Active(t)' = Active(t) /\ Passed(t)' = Passed(t)
  <2>1. n \in ActiveTasks' /\ n \notin ActiveTasks
    BY <1>1, <1>2, <1>3 DEF ActiveTasks, Active, Unused
  <2>2. ~Passed(n)'
    BY <1>3 DEF Passed, fetchTaskState, StateType
  <2>3. \A t \in TaskId \ {n} : Active(t)' = Active(t) /\ Passed(t)' = Passed(t)
    BY <1>1 DEF Active, Passed, fetchTaskState
  <2> QED BY <1>1, <2>1, <2>2, <2>3 DEF PassedTasks
<1>5. /\ ActiveTasks' = ActiveTasks \cup {n} /\ PassedTasks' = PassedTasks \ {n}
      /\ \A t \in TaskId \ {n} : StepOf'[t] = StepOf[t]
      /\ StepOf'[n] = step
  BY <1>1, <1>4 DEF ActiveTasks, PassedTasks, StepOf
<1>6. \A q \in Requests : HasContext(q)' = HasContext(q) /\ FirstStep(q)' = FirstStep(q) /\ Steps(q)' = Steps(q)
  BY DEF HasContext, FirstStep, Steps
<1>7. UNCHANGED <<StepsInAll, Contexts, FirstOf>>
  BY <1>6 DEF StepsInAll, Contexts, FirstOf
<1>8. /\ \A q \in Requests \ {r} : opTask'[q] = opTask[q]
      /\ opTask'[r] \in {n, opTask[r]}
      /\ ~HasContext(r) => opTask'[r] = n /\ opTask[r] = 0
      /\ \A q \in Requests : opTask[q] \in Nat /\ opTask[q] <= lastTask
  BY <1>0, <1>1, <1>2, DirectorAssumption DEF TasksInv, Contexts
<1>9. c = IF HasContext(r) THEN r ELSE NoRequest
  BY DEF BoshContextID
<1>10. TasksOf(r)' = TasksOf(r) \cup {n}
  <2>1. CASE HasContext(r)
    <3>1. GetNormalisedTasksByContext(r)' = GetNormalisedTasksByContext(r) \cup {n}
      BY <1>1, <1>9, <2>1 DEF GetNormalisedTasksByContext
    <3> QED BY <1>6, <2>1, <3>1 DEF TasksOf
  <2>2. CASE ~HasContext(r)
    BY <1>2, <1>6, <1>8, <2>2 DEF TasksOf
  <2> QED BY <2>1, <2>2
<1>11. ASSUME NEW q \in Requests, q # r PROVE TasksOf(q)' = TasksOf(q)
  <2>1. c # q
    BY <1>9, <1>11, DirectorAssumption
  <2>2. GetNormalisedTasksByContext(q)' = GetNormalisedTasksByContext(q)
    <3>1. tasks[n].kind = "none"
      BY <1>2 DEF Unused
    <3> QED BY <1>1, <2>1, <3>1 DEF GetNormalisedTasksByContext
  <2> QED BY <1>6, <1>8, <1>11, <2>2 DEF TasksOf
<1>12. Own' = [Own EXCEPT ![r] = @ \cup {n}]
  BY <1>10, <1>11 DEF Own
<1>13. Starts(r)
  <2>1. r \in Contexts => StepOf'[n] = FirstOf[r] + Cardinality(Own[r])
    BY <1>5 DEF Contexts, FirstOf
  <2> QED BY <1>0, <1>1, <1>2, <1>4, <1>5, <1>7, <1>12, <2>1 DEF Starts
<1>14. TasksInv'
  <2>1. \A t \in TaskId : tasks'[t].kind # "errand" => tasks'[t].ok
    BY <1>1, <1>3 DEF TasksInv
  <2>2. \A t \in TaskId : tasks'[t].ctx \in Requests =>
          tasks'[t].ctx \in Contexts' /\ pc'[tasks'[t].ctx] \in StartedPcs
    BY <1>1, <1>7, <1>9, DirectorAssumption DEF TasksInv, Contexts
  <2>3. ASSUME NEW q \in Requests
        PROVE  /\ opTask'[q] <= lastTask' /\ (pc'[q] \notin StartedPcs => opTask'[q] = 0)
               /\ ~HasContext(q)' /\ opTask'[q] # 0 => tasks'[opTask'[q]].ctx = NoRequest
    <3>1. CASE q = r
      BY <1>0, <1>1, <1>2, <1>6, <1>8, <1>9, <3>1
    <3>2. CASE q # r
      <4>1. opTask'[q] = opTask[q] /\ opTask[q] # n /\ pc'[q] = pc[q] /\ opTask[q] <= lastTask'
        BY <1>0, <1>2, <1>8, <3>2
      <4>2. opTask[q] # 0 => tasks'[opTask[q]] = tasks[opTask[q]]
        BY <1>0, <1>1, <1>2, <4>1, DirectorAssumption DEF TaskId
      <4> QED BY <1>6, <4>1, <4>2 DEF TasksInv
    <3> QED BY <3>1, <3>2
  <2>4. \A q, s \in Requests : q # s /\ opTask'[q] = opTask'[s] => opTask'[s] = 0
    BY <1>2, <1>8 DEF TasksInv
  <2>5. \A q \in Requests : /\ opTask'[q] <= lastTask' /\ (pc'[q] \notin StartedPcs => opTask'[q] = 0)
                            /\ ~HasContext(q)' /\ opTask'[q] # 0 => tasks'[opTask'[q]].ctx = NoRequest
    BY <2>3
  <2> QED BY <2>1, <2>2, <2>4, <2>5 DEF TasksInv
<1> QED BY <1>13, <1>14

\* The director starts a task, which changes nothing here, or ends one no poll looks at.
LEMMA DirectorDoes ==
  ASSUME IInv, TasksInv, ~QuickTasks, NEW t \in TaskId, DirectorStep(t),
         UNCHANGED <<operationVars, poll, report>>
  PROVE  /\ TasksInv'
         /\ \/ UNCHANGED taskViews
            \/ Ends(t) /\ \A p \in Pollers : poll[p].at = "look" => poll[p].task # t
<1>1. /\ tasks \in [TaskId -> Task] /\ tasks[t].state \in {"queued", "processing"}
      /\ UNCHANGED <<lastTask, type, pc, opTask>>
  BY DEF DirectorStep, TaskStarts, TaskSucceeds, TaskFails, operationVars, IInv, TypeInv, TypeOK,
         OperationsTypeOK, DirectorTypeOK
<1>2. \/ tasks' = [tasks EXCEPT ![t].state = "processing"]
      \/ \E ok \in BOOLEAN : /\ tasks' = [tasks EXCEPT ![t].state = "done", ![t].ok = ok]
                             /\ tasks[t].kind # "errand" => ok
      \/ \E s \in FailedStates : tasks' = [tasks EXCEPT ![t].state = s]
  BY DEF DirectorStep, TaskStarts, TaskSucceeds, TaskFails
<1>3. \A u \in TaskId : /\ tasks'[u].kind = tasks[u].kind /\ tasks'[u].ctx = tasks[u].ctx
                        /\ tasks'[u].step = tasks[u].step
                        /\ u # t => tasks'[u] = tasks[u]
                        /\ tasks'[u].kind # "errand" => tasks'[u].ok
  BY <1>1, <1>2 DEF Task, TasksInv
<1>4. \A q \in Requests : /\ HasContext(q)' = HasContext(q) /\ FirstStep(q)' = FirstStep(q)
                          /\ Steps(q)' = Steps(q)
  BY <1>1 DEF HasContext, FirstStep, Steps
<1>5. \A q \in Requests : TasksOf(q)' = TasksOf(q)
  <2>1. \A q \in Requests : GetNormalisedTasksByContext(q)' = GetNormalisedTasksByContext(q)
    BY <1>3 DEF GetNormalisedTasksByContext
  <2> QED BY <1>1, <1>4, <2>1 DEF TasksOf
<1>6. UNCHANGED <<Own, StepOf, lastTask, StepsInAll, Contexts, FirstOf>>
  BY <1>1, <1>3, <1>4, <1>5 DEF Own, StepOf, StepsInAll, Contexts, FirstOf
<1>7. TasksInv'
  <2>1. \A r \in Requests : opTask[r] # 0 => opTask[r] \in TaskId
    BY DirectorAssumption DEF IInv, TypeInv, TypeOK, OperationsTypeOK, TaskId
  <2>2. \A u \in TaskId : tasks'[u].ctx \in Requests =>
          tasks'[u].ctx \in Contexts' /\ pc'[tasks'[u].ctx] \in StartedPcs
    BY <1>1, <1>3, <1>6 DEF TasksInv
  <2>3. \A r \in Requests :
          /\ opTask'[r] <= lastTask' /\ (pc'[r] \notin StartedPcs => opTask'[r] = 0)
          /\ ~HasContext(r)' /\ opTask'[r] # 0 => tasks'[opTask'[r]].ctx = NoRequest
    BY <1>1, <1>3, <1>4, <2>1 DEF TasksInv
  <2>4. \A q, s \in Requests : q # s /\ opTask'[q] = opTask'[s] => opTask'[s] = 0
    BY <1>1 DEF TasksInv
  <2> QED BY <1>3, <2>2, <2>3, <2>4 DEF TasksInv
<1>8. \A u \in TaskId \ {t} : Active(u)' = Active(u) /\ Passed(u)' = Passed(u)
  BY <1>1, <1>3 DEF Active, Passed, fetchTaskState
<1>9. t \in ActiveTasks /\ t \notin PassedTasks
  BY <1>1, TaskStands DEF ActiveTasks, Active, PassedTasks
<1>10. CASE TaskStarts(t)
  <2>1. tasks'[t].state = "processing"
    BY <1>1, <1>10 DEF TaskStarts
  <2>2. Active(t)' /\ ~Passed(t)'
    BY <2>1 DEF Active, Passed, fetchTaskState, StateType
  <2>3. ActiveTasks' = ActiveTasks /\ PassedTasks' = PassedTasks
    BY <1>8, <1>9, <2>2 DEF ActiveTasks, PassedTasks
  <2> QED BY <1>6, <1>7, <2>3 DEF taskViews
<1>11. CASE DirectorMayEnd(t) /\ (TaskSucceeds(t) \/ TaskFails(t))
  <2>1. tasks'[t].state \notin {"queued", "processing"}
    <3>1. CASE TaskSucceeds(t)
      BY <1>1, <3>1 DEF TaskSucceeds
    <3>2. CASE TaskFails(t)
      BY <1>1, <3>2, DirectorAssumption DEF TaskFails
    <3> QED BY <1>11, <3>1, <3>2
  <2>2. ~Active(t)'
    BY <2>1 DEF Active
  <2>3. ActiveTasks' = ActiveTasks \ {t} /\ PassedTasks' \in {PassedTasks, PassedTasks \cup {t}}
    BY <1>8, <1>9, <2>2 DEF ActiveTasks, PassedTasks
  <2> QED BY <1>6, <1>7, <1>9, <1>11, <2>3 DEF Ends, DirectorMayEnd
<1> QED BY <1>10, <1>11 DEF DirectorStep
-----------------------------------------------------------------------------
(* The steps of an operation stay a chain. *)

\* Numbers of steps are numbers.
LEMMA StepTypes ==
  ASSUME IInv, NEW r \in Requests
  PROVE  StepsInAll[r] \in Nat /\ FirstOf[r] \in {0, 1} /\ \A t \in TaskId : StepOf[t] \in Nat
<1>1. Steps(r) \in Nat
  BY OperationsAssumption DEF Steps
<1> QED BY <1>1 DEF IInv, TypeInv, TypeOK, OperationsTypeOK, DirectorTypeOK, Task, StepsInAll,
                    FirstOf, FirstStep, StepOf

\* A task that is started is new and makes the steps of its operation one more.
LEMMA OneMore ==
  ASSUME IInv, TasksInv, NEW r \in Requests, Starts(r)
  PROVE  /\ lastTask + 1 \notin Own[r] /\ Own'[r] = Own[r] \cup {lastTask + 1}
         /\ Cardinality(Own'[r]) = Cardinality(Own[r]) + 1
         /\ \A q \in Requests \ {r} : Own'[q] = Own[q] /\ lastTask + 1 \notin Own[q]
<1>1. /\ \A q \in Requests : lastTask + 1 \notin Own[q]
      /\ IsFiniteSet(Own[r])
  <2>1. lastTask \in Nat
    BY DEF IInv, TypeInv, TypeOK, OperationsTypeOK, DirectorTypeOK
  <2> QED BY <2>1, OwnTasks
<1>2. /\ Own'[r] = Own[r] \cup {lastTask + 1}
      /\ \A q \in Requests \ {r} : Own'[q] = Own[q]
  BY DEF Starts, Own
<1>3. Cardinality(Own[r] \cup {lastTask + 1}) = Cardinality(Own[r]) + 1
  BY <1>1, FS_AddElement
<1> QED BY <1>1, <1>2, <1>3

\* The step that is due, once started, makes the chain longer.
LEMMA ChainGrows ==
  ASSUME IInv, TasksInv, ChainInv, NEW r \in Requests, Starts(r)
  PROVE  ChainInv'
<1>0. PICK n : n = lastTask + 1
  OBVIOUS
<1>1. /\ n \notin Own[r] /\ Own'[r] = Own[r] \cup {n}
      /\ Cardinality(Own'[r]) = Cardinality(Own[r]) + 1
      /\ \A q \in Requests \ {r} : Own'[q] = Own[q] /\ n \notin Own[q]
  BY <1>0, OneMore
<1>2. /\ Own[r] \subseteq PassedTasks /\ Cardinality(Own[r]) < StepsInAll[r]
      /\ r \in Contexts => StepOf'[n] = FirstOf[r] + Cardinality(Own[r])
      /\ PassedTasks' = PassedTasks \ {n}
      /\ \A t \in TaskId \ {n} : StepOf'[t] = StepOf[t]
      /\ UNCHANGED <<StepsInAll, Contexts, FirstOf>>
  BY <1>0 DEF Starts
<1>3. \A q \in Requests : /\ Own[q] \subseteq TaskId /\ Cardinality(Own[q]) \in Nat
                          /\ Cardinality(Own[q]) = 0 <=> Own[q] = {}
                          /\ \A t \in Own[q] : t \in Nat /\ t < n
                          /\ StepsInAll[q] \in Nat /\ FirstOf[q] \in {0, 1}
                          /\ n \in Nat /\ \A t \in Own[q] : StepOf[t] \in Nat
  <2>1. lastTask \in Nat
    BY DEF IInv, TypeInv, TypeOK, OperationsTypeOK, DirectorTypeOK
  <2> QED BY <1>0, <2>1, OwnTasks, StepTypes
<1>4. ASSUME NEW q \in Requests, q # r
      PROVE  /\ Cardinality(Own'[q]) <= StepsInAll'[q]
             /\ \A t, u \in Own'[q] : t < u => t \in PassedTasks'
             /\ q \in Contexts' =>
                  /\ \A t, u \in Own'[q] : t < u => StepOf'[t] < StepOf'[u]
                  /\ \A t \in Own'[q] : \/ StepOf'[t] = FirstOf'[q]
                                        \/ \E u \in Own'[q] : StepOf'[u] + 1 = StepOf'[t]
                  /\ \A t \in Own'[q] : StepOf'[t] < FirstOf'[q] + Cardinality(Own'[q])
                  /\ Own'[q] # {} => \E t \in Own'[q] : StepOf'[t] + 1 = FirstOf'[q] + Cardinality(Own'[q])
  <2>1. Own'[q] = Own[q] /\ \A t \in Own[q] : t # n /\ StepOf'[t] = StepOf[t]
    BY <1>1, <1>2, <1>3, <1>4
  <2>2. StepsInAll'[q] = StepsInAll[q] /\ FirstOf'[q] = FirstOf[q] /\ (q \in Contexts' <=> q \in Contexts)
    BY <1>2
  <2> QED BY <1>2, <1>4, <2>1, <2>2 DEF ChainInv
<1>5. /\ Cardinality(Own'[r]) <= StepsInAll'[r]
      /\ \A t, u \in Own'[r] : t < u => t \in PassedTasks'
  <2>1. Cardinality(Own'[r]) <= StepsInAll'[r]
    BY <1>1, <1>2, <1>3
  <2>2. \A t, u \in Own'[r] : t < u => t \in Own[r]
    BY <1>1, <1>3
  <2> QED BY <1>1, <1>2, <2>1, <2>2
<1>6. ASSUME r \in Contexts
      PROVE  /\ \A t, u \in Own'[r] : t < u => StepOf'[t] < StepOf'[u]
             /\ \A t \in Own'[r] : \/ StepOf'[t] = FirstOf'[r]
                                   \/ \E u \in Own'[r] : StepOf'[u] + 1 = StepOf'[t]
             /\ \A t \in Own'[r] : StepOf'[t] < FirstOf'[r] + Cardinality(Own'[r])
             /\ \E t \in Own'[r] : StepOf'[t] + 1 = FirstOf'[r] + Cardinality(Own'[r])
  <2>1. /\ \A t, u \in Own[r] : t < u => StepOf[t] < StepOf[u]
        /\ \A t \in Own[r] : StepOf[t] = FirstOf[r] \/ \E u \in Own[r] : StepOf[u] + 1 = StepOf[t]
        /\ \A t \in Own[r] : StepOf[t] < FirstOf[r] + Cardinality(Own[r])
        /\ Own[r] # {} => \E t \in Own[r] : StepOf[t] + 1 = FirstOf[r] + Cardinality(Own[r])
    BY <1>6 DEF ChainInv
  <2>2. \A t \in Own[r] : StepOf'[t] = StepOf[t] /\ t # n
    BY <1>1, <1>2, <1>3
  <2>3. StepOf'[n] = FirstOf[r] + Cardinality(Own[r]) /\ FirstOf'[r] = FirstOf[r]
    BY <1>2, <1>6
  <2>4. \A t, u \in Own'[r] : t < u => StepOf'[t] < StepOf'[u]
    <3>1. \A t, u \in Own'[r] : t < u => t \in Own[r] /\ (u \in Own[r] \/ u = n)
      BY <1>1, <1>3
    <3> QED BY <2>1, <2>2, <2>3, <3>1
  <2>5. \A t \in Own'[r] : \/ StepOf'[t] = FirstOf'[r]
                           \/ \E u \in Own'[r] : StepOf'[u] + 1 = StepOf'[t]
    <3>1. StepOf'[n] = FirstOf'[r] \/ \E u \in Own'[r] : StepOf'[u] + 1 = StepOf'[n]
      BY <1>1, <1>3, <2>1, <2>2, <2>3
    <3> QED BY <1>1, <2>1, <2>2, <2>3, <3>1
  <2>6. \A t \in Own'[r] : StepOf'[t] < FirstOf'[r] + Cardinality(Own'[r])
    BY <1>1, <1>3, <2>1, <2>2, <2>3
  <2>7. StepOf'[n] + 1 = FirstOf'[r] + Cardinality(Own'[r])
    BY <1>1, <1>3, <2>3
  <2> QED BY <1>1, <2>4, <2>5, <2>6, <2>7
<1>7. r \in Contexts' <=> r \in Contexts
  BY <1>2
<1> QED BY <1>4, <1>5, <1>6, <1>7 DEF ChainInv

\* A task that ends leaves the chain as it is.
LEMMA ChainStays ==
  ASSUME ChainInv, UNCHANGED taskViews \/ \E t \in TaskId : Ends(t) PROVE ChainInv'
<1>1. UNCHANGED <<Own, StepOf, StepsInAll, Contexts, FirstOf>> /\ PassedTasks \subseteq PassedTasks'
  BY DEF taskViews, Ends
<1> QED BY <1>1 DEF ChainInv
-----------------------------------------------------------------------------
(* Polls go on serving their operation. *)

\* A poll that does nothing is not disturbed by the first task of another operation...
LEMMA ServesOther ==
  ASSUME IInv, TasksInv, NEW r \in Requests, Starts(r), NEW p \in Pollers, Serves(p),
         poll'[p] = poll[p], poll[p].at = "idle" \/ poll[p].req \in Requests \ {r}
  PROVE  Serves(p)'
<1>1. CASE poll[p].at = "idle"
  BY <1>1 DEF Serves
<1>2. CASE poll[p].req \in Requests \ {r}
  <2> DEFINE q == poll[p].req
  <2>1. Own'[q] = Own[q] /\ lastTask + 1 \notin Own[q]
    BY <1>2, OneMore
  <2>2. /\ PassedTasks' = PassedTasks \ {lastTask + 1} /\ ActiveTasks \subseteq ActiveTasks'
        /\ UNCHANGED <<StepsInAll, Contexts, FirstOf>>
    BY DEF Starts
  <2>3. poll'[p].req = q /\ StepDue(p)' = StepDue(p)
    BY DEF StepDue
  <2> HIDE DEF q
  <2>4. /\ poll[p].at \in {"errand", "delete"} =>
             /\ q \in Contexts' /\ Own'[q] # {} /\ Own'[q] \subseteq PassedTasks'
             /\ Cardinality(Own'[q]) < StepsInAll'[q]
             /\ StepDue(p)' = FirstOf'[q] + Cardinality(Own'[q])
        /\ poll[p].at = "look" => poll[p].task \in Own'[q] \cap ActiveTasks'
        /\ poll[p].at \in {"configs", "secrets"} =>
             Own'[q] # {} /\ Own'[q] \subseteq PassedTasks' /\ Cardinality(Own'[q]) = StepsInAll'[q]
    BY <2>1, <2>2, <2>3 DEF Serves, q
  <2> QED BY <2>3, <2>4 DEF Serves, q
<1> QED BY <1>1, <1>2

\* ...nor by a task that ends while it does not look.
LEMMA ServesStill ==
  ASSUME NEW p \in Pollers, Serves(p), poll'[p] = poll[p],
         \/ UNCHANGED taskViews
         \/ \E t \in TaskId : Ends(t) /\ (poll[p].at = "look" => poll[p].task # t)
  PROVE  Serves(p)'
<1>1. /\ UNCHANGED <<Own, StepsInAll, Contexts, FirstOf>> /\ PassedTasks \subseteq PassedTasks'
      /\ poll[p].at = "look" /\ poll[p].task \in ActiveTasks => poll[p].task \in ActiveTasks'
  BY DEF taskViews, Ends
<1>2. StepDue(p)' = StepDue(p)
  BY DEF StepDue
<1> QED BY <1>1, <1>2 DEF Serves
-----------------------------------------------------------------------------
(* What handlers do. *)

\* A plan with pre-delete errands leads a deprovision to the errand, one without to the delete.
LEMMA CallsPath ==
  ASSUME NEW ty \in OperationTypes, NEW at \in Moves, Fits(ty, at), ~(at = "deploy" /\ ty = "recreate")
  PROVE  /\ Calls(ty)[at] = "errand" => PreErrands > 0
         /\ Calls(ty)[at] = "delete" => PreErrands = 0
<1> USE DEF Moves, Fits, OperationTypes, DeleteTypes
<1>1. CASE ty \in DeleteTypes
  <2>1. Calls(ty) = DeprovisionCalls
    BY <1>1 DEF Calls
  <2> QED BY <1>1, <2>1, OperationsAssumption DEF DeprovisionCalls
<1>2. CASE ty = "create"
  <2>1. Calls(ty) = ProvisionCalls
    BY <1>2 DEF Calls
  <2> QED BY <1>2, <2>1 DEF ProvisionCalls
<1>3. CASE ty = "update"
  <2>1. Calls(ty) = UpdateCalls
    BY <1>3 DEF Calls
  <2> QED BY <1>3, <2>1 DEF UpdateCalls
<1>4. CASE ty = "upgrade"
  <2>1. Calls(ty) = UpgradeCalls
    BY <1>4 DEF Calls
  <2> QED BY <1>4, <2>1 DEF UpgradeCalls
<1>5. CASE ty = "recreate"
  <2>1. Calls(ty) = RecreateCalls
    BY <1>5 DEF Calls
  <2> QED BY <1>5, <2>1 DEF RecreateCalls
<1> QED BY <1>1, <1>2, <1>3, <1>4, <1>5

\* A handler starts nothing, and does not go back, ...
Quiet(r) == /\ UNCHANGED <<tasks, lastTask, opTask>>
            /\ pc[r] \in StartedPcs => pc'[r] \in StartedPcs
            /\ pc'[r] = "errand" => PreErrands > 0
            /\ pc'[r] = "delete" => PreErrands = 0
\* ...or the first task of its operation.
First(r) == /\ pc[r] \notin StartedPcs /\ pc'[r] \in StartedPcs
            /\ type[r] \in OperationTypes
            /\ opTask' = [opTask EXCEPT ![r] = lastTask + 1]
            /\ \/ \E kind \in {"deploy", "recreate", "delete"} :
                    StartTask(kind, BoshContextID(r), 0) /\ (HasContext(r) => type[r] \notin DeleteTypes)
               \/ /\ StartTask("errand", r, 1)
                  /\ HasContext(r) /\ type[r] \in DeleteTypes

\* A step of a handler is one or the other (provision.go:105, deprovision.go:161).
LEMMA HandlerTasks ==
  ASSUME IInv, TasksInv, PathInv, NEW r \in Requests, HandlerStep(r) \/ HandlerFails(r)
  PROVE  Quiet(r) \/ First(r)
<1> USE DEF directorVars, resources, StartedPcs
<1>1. /\ pc \in [Requests -> HandlerPcs] /\ opTask \in [Requests -> 0..MaxTasks]
      /\ Fits(type[r], pc[r])
  BY DEF IInv, TypeInv, TypeOK, OperationsTypeOK, FitsType
<1>2. ASSUME NEW next, Goto(r, next) PROVE pc'[r] = next
  BY <1>1, <1>2 DEF Goto
<1>3. ASSUME NEW how, Reply(r, how) PROVE pc'[r] = how
  BY <1>2, <1>3 DEF Reply
<1>4. ASSUME pc[r] \in Moves, ~(pc[r] = "deploy" /\ type[r] = "recreate"), Proceed(r)
      PROVE  /\ pc'[r] = "errand" => PreErrands > 0
             /\ pc'[r] = "delete" => PreErrands = 0
             /\ pc[r] \notin StartedPcs
  <2>1. type[r] \in OperationTypes
    BY <1>1, <1>4 DEF Fits, Moves
  <2>2. pc'[r] = Calls(type[r])[pc[r]]
    BY <1>2, <1>4 DEF Proceed
  <2> QED BY <1>1, <1>4, <2>1, <2>2, CallsPath DEF Moves
<1>5. CASE Acquire(r)
  <2>1. type[r] \in OperationTypes /\ Fits(type[r], "lock")
    BY <1>1, <1>5 DEF Acquire, Fits
  <2>2. pc'[r] = Calls(type[r])["lock"] /\ "lock" \in Moves
    BY <1>2, <1>5 DEF Acquire, Moves
  <2>3. /\ pc'[r] = "errand" => PreErrands > 0
        /\ pc'[r] = "delete" => PreErrands = 0
    BY <2>1, <2>2, CallsPath
  <2> QED BY <1>5, <2>3 DEF Acquire, Quiet
<1>6. CASE GetServiceInstanceClientForUpdate(r)
  BY <1>2, <1>6 DEF GetServiceInstanceClientForUpdate, Quiet
<1>7. CASE FindDeploymentToProvision(r)
  BY <1>3, <1>4, <1>7 DEF FindDeploymentToProvision, Moves, Quiet
<1>8. CASE CreateClient(r)
  BY <1>4, <1>8 DEF CreateClient, Moves, Quiet
<1>9. CASE AssertNoOperationsInProgress(r)
  BY <1>3, <1>4, <1>9 DEF AssertNoOperationsInProgress, Moves, Quiet
<1>10. CASE GetDeploymentManifest(r)
  BY <1>3, <1>4, <1>10 DEF GetDeploymentManifest, Moves, Quiet
<1>11. CASE BulkSet(r)
  BY <1>4, <1>11 DEF BulkSet, Moves, Quiet
<1>12. CASE UpdateConfigs(r)
  BY <1>4, <1>12 DEF UpdateConfigs, Moves, Quiet
<1>13. CASE DeployManifest(r)
  <2>1. pc[r] = "deploy" /\ type[r] \in {"create", "update", "upgrade"}
    BY <1>1, <1>13 DEF DeployManifest, Fits
  <2>2. Calls(type[r])["deploy"] = "finish"
    BY <2>1 DEF Calls, ProvisionCalls, UpdateCalls, UpgradeCalls, DeleteTypes
  <2>3. pc'[r] = "finish"
    BY <1>2, <1>13, <2>1, <2>2 DEF DeployManifest, Proceed
  <2>4. StartTask("deploy", BoshContextID(r), 0) /\ opTask' = [opTask EXCEPT ![r] = lastTask + 1]
    BY <1>13 DEF DeployManifest, Deploy, Remember
  <2> QED BY <2>1, <2>3, <2>4 DEF First, OperationTypes, DeleteTypes
<1>14. CASE RecreateDeployment(r)
  <2>1. CASE Recreate(BoshContextID(r)) /\ Remember(r, lastTask + 1) /\ Reply(r, "accepted")
    <3>1. /\ StartTask("recreate", BoshContextID(r), 0)
          /\ opTask' = [opTask EXCEPT ![r] = lastTask + 1] /\ pc'[r] = "accepted"
      BY <1>3, <2>1 DEF Recreate, Remember
    <3>2. pc[r] = "deploy" /\ type[r] = "recreate"
      BY <1>14 DEF RecreateDeployment
    <3> QED BY <3>1, <3>2 DEF First, OperationTypes, DeleteTypes
  <2>2. CASE Reply(r, "failed") /\ UNCHANGED <<tasks, lastTask, opTask>>
    BY <1>3, <2>2 DEF Quiet
  <2> QED BY <1>14, <2>1, <2>2 DEF RecreateDeployment
<1>15. CASE FinishDeploy(r)
  BY <1>3, <1>15 DEF FinishDeploy, Quiet
<1>16. CASE AssertDeploymentExists(r)
  BY <1>2, <1>4, <1>16 DEF AssertDeploymentExists, Moves, Quiet
<1>17. CASE DeleteConfigsForNotFoundInstance(r)
  BY <1>2, <1>17 DEF DeleteConfigsForNotFoundInstance, Quiet
<1>18. CASE ClearSecretsForNotFoundInstance(r)
  BY <1>3, <1>18 DEF ClearSecretsForNotFoundInstance, Quiet
<1>19. CASE DeprovisionAssertNoOperations(r)
  BY <1>3, <1>4, <1>19 DEF DeprovisionAssertNoOperations, Moves, Quiet
<1>20. CASE RunPreDeleteErrands(r)
  <2>1. pc[r] = "errand" /\ type[r] \in DeleteTypes /\ HasContext(r) /\ type[r] \in OperationTypes
    BY <1>1, <1>20 DEF RunPreDeleteErrands, Fits, PathInv, HasContext, DeleteTypes
  <2>2. CASE RunErrand(r, 1) /\ Remember(r, lastTask + 1) /\ Reply(r, "accepted")
    BY <1>3, <2>1, <2>2 DEF RunErrand, Remember, First
  <2>3. CASE Reply(r, "failed") /\ UNCHANGED <<tasks, lastTask, opTask>>
    BY <1>3, <2>3 DEF Quiet
  <2> QED BY <1>20, <2>2, <2>3 DEF RunPreDeleteErrands
<1>21. CASE DeleteInstance(r)
  <2>1. /\ pc[r] = "delete" /\ type[r] \in DeleteTypes /\ type[r] \in OperationTypes
        /\ PreErrands = 0
    BY <1>1, <1>21 DEF DeleteInstance, Fits, PathInv
  <2>2. ~HasContext(r) /\ BoshContextID(r) = NoRequest
    BY <2>1 DEF HasContext, BoshContextID, DeleteTypes
  <2>3. pc'[r] = "dropClient"
    <3>1. Calls(type[r])["delete"] = "dropClient"
      BY <2>1 DEF Calls, DeprovisionCalls, DeleteTypes
    <3> QED BY <1>2, <1>21, <2>1, <3>1 DEF DeleteInstance, Proceed
  <2>4. CASE deployed
    <3>1. StartTask("delete", NoRequest, 0) /\ opTask' = [opTask EXCEPT ![r] = lastTask + 1]
      BY <1>21, <2>4 DEF DeleteInstance, DeleteDeployment, DeleteTaskId, Remember
    <3> QED BY <2>1, <2>2, <2>3, <3>1 DEF First
  <2>5. CASE ~deployed
    <3>1. UNCHANGED <<tasks, lastTask>> /\ opTask' = [opTask EXCEPT ![r] = 0]
      BY <1>21, <2>5 DEF DeleteInstance, DeleteDeployment, DeleteTaskId, Remember
    <3>2. opTask[r] = 0
      BY <2>1 DEF TasksInv
    <3>3. opTask' = opTask
      BY <1>1, <3>1, <3>2
    <3> QED BY <2>3, <3>1, <3>3 DEF Quiet
  <2> QED BY <2>4, <2>5
<1>22. CASE DeleteClient(r)
  <2> DEFINE how == IF pc[r] = "dropClient" THEN "accepted" ELSE "failed"
  <2>1. Reply(r, how) /\ how \in {"accepted", "failed"} /\ UNCHANGED <<tasks, lastTask, opTask>>
    BY <1>22 DEF DeleteClient
  <2> HIDE DEF how
  <2> QED BY <1>3, <2>1 DEF Quiet
<1>23. CASE HandlerFails(r)
  <2>1. \/ pc[r] = "delete" /\ Goto(r, "deleteFailed") /\ UNCHANGED lock
        \/ Reply(r, "accepted")
        \/ Reply(r, "failed")
    BY <1>23, Zenon DEF HandlerFails
  <2>2. UNCHANGED <<tasks, lastTask, opTask>>
    BY <1>23 DEF HandlerFails
  <2> QED BY <1>2, <1>3, <2>1, <2>2 DEF Quiet
<1> QED BY <1>5, <1>6, <1>7, <1>8, <1>9, <1>10, <1>11, <1>12, <1>13, <1>14, <1>15, <1>16,
           <1>17, <1>18, <1>19, <1>20, <1>21, <1>22, <1>23 DEF HandlerStep

\* So it keeps the invariant, and what it starts is its first step.
LEMMA HandlerKeepsOrder ==
  ASSUME OrderInv, NEW r \in Requests, HandlerStep(r) \/ HandlerFails(r), UNCHANGED <<poll, report>>
  PROVE  OrderInv' /\ (UNCHANGED taskViews \/ Starts(r))
<1>0. IInv /\ TasksInv /\ PathInv /\ ChainInv /\ PollInv /\ PollsApart
  BY DEF OrderInv
<1>1. IInv'
  BY <1>0, HandlerKeepsIInv
<1>2. /\ pc[r] \notin Ended \cup {"unsent"} /\ UNCHANGED type /\ pc'[r] # "unsent"
      /\ \A q \in Requests \ {r} : pc'[q] = pc[q]
  BY <1>0, HandlerMoves DEF IInv
<1>3. PollsApart'
  BY <1>0 DEF PollsApart
<1>4. \A p \in Pollers : poll[p].at = "idle" \/ poll[p].req \in Requests \ {r}
  BY <1>0, <1>2 DEF IInv, PollsFollow, Ended
<1>5. CASE Quiet(r)
  <2>1. UNCHANGED taskViews
    BY <1>2, <1>5, SameTasks DEF Quiet
  <2>2. PathInv'
    BY <1>0, <1>2, <1>5 DEF Quiet, PathInv
  <2>3. TasksInv'
    <3>1. Contexts' = Contexts /\ UNCHANGED <<tasks, lastTask, opTask>>
          /\ \A q \in Requests : HasContext(q)' = HasContext(q)
      BY <1>2, <1>5, <2>1 DEF taskViews, Quiet, HasContext
    <3>2. \A q \in Requests : pc[q] \in StartedPcs => pc'[q] \in StartedPcs
      BY <1>2, <1>5 DEF Quiet
    <3> QED BY <1>0, <3>1, <3>2 DEF TasksInv
  <2>4. ChainInv'
    BY <1>0, <2>1, ChainStays
  <2>5. PollInv'
    <3>1. ASSUME NEW p \in Pollers PROVE Serves(p)'
      BY <1>0, <2>1, ServesStill DEF PollInv
    <3> QED BY <3>1 DEF PollInv
  <2> QED BY <1>1, <1>3, <2>1, <2>2, <2>3, <2>4, <2>5 DEF OrderInv
<1>6. CASE First(r)
  <2>1. Own[r] = {} /\ Cardinality(Own[r]) = 0
    BY <1>0, <1>6, OwnTasks DEF First
  <2>2. Cardinality(Own[r]) < StepsInAll[r]
    BY <1>6, <2>1, OperationsAssumption DEF First, StepsInAll, Steps, OperationTypes
  <2>3. Starts(r) /\ TasksInv'
    <3>1. ASSUME NEW kind \in {"deploy", "recreate", "delete"}, StartTask(kind, BoshContextID(r), 0),
                 HasContext(r) => type[r] \notin DeleteTypes
          PROVE  Starts(r) /\ TasksInv'
      <4>0. PICK c : c = BoshContextID(r)
        OBVIOUS
      <4>1. HasContext(r) => 0 = FirstStep(r) + Cardinality(Own[r])
        BY <2>1, <3>1 DEF FirstStep
      <4>2. /\ opTask' = [opTask EXCEPT ![r] = lastTask + 1] /\ pc[r] \notin StartedPcs
            /\ pc'[r] \in StartedPcs /\ Own[r] \subseteq PassedTasks
        BY <1>6, <2>1 DEF First
      <4>3. kind \in {"deploy", "recreate", "delete", "errand"} /\ (kind = "errand" => c = r)
        BY <3>1
      <4>4. StartTask(kind, c, 0) /\ 0 \in Nat
        BY <3>1, <4>0
      <4> QED BY <1>0, <1>2, <2>2, <4>0, <4>1, <4>2, <4>3, <4>4, TaskOf
    <3>2. ASSUME StartTask("errand", r, 1), HasContext(r), type[r] \in DeleteTypes
          PROVE  Starts(r) /\ TasksInv'
      <4>1. 1 = FirstStep(r) + Cardinality(Own[r]) /\ r = BoshContextID(r)
        BY <2>1, <3>2 DEF FirstStep, BoshContextID
      <4> QED BY <1>0, <1>2, <1>6, <2>1, <2>2, <3>2, <4>1, TaskOf DEF First
    <3> QED BY <1>6, <3>1, <3>2 DEF First
  <2>4. PathInv'
    BY <1>0, <1>2, <1>6 DEF First, StartedPcs, PathInv
  <2>5. ChainInv'
    BY <1>0, <2>3, ChainGrows
  <2>6. PollInv'
    <3>1. ASSUME NEW p \in Pollers PROVE Serves(p)'
      BY <1>0, <1>4, <2>3, ServesOther DEF PollInv
    <3> QED BY <3>1 DEF PollInv
  <2> QED BY <1>1, <1>3, <2>3, <2>4, <2>5, <2>6 DEF OrderInv
<1> QED BY <1>0, <1>5, <1>6, HandlerTasks
-----------------------------------------------------------------------------
(* What polls do. *)

\* What the LifeCycleRunner finds is where the operation stands.
LEMMA RunnerSees ==
  ASSUME IInv, TasksInv, ChainInv, NEW r \in Requests, pc[r] = "accepted", opTask[r] # 0
  PROVE  LET next == LifeCycleRunnerGetTask(r)
         IN  /\ next.move \in {"errand", "delete"} =>
                  /\ r \in Contexts /\ Own[r] # {} /\ Own[r] \subseteq PassedTasks
                  /\ Cardinality(Own[r]) < StepsInAll[r]
             /\ next.move = "errand" => next.step = FirstOf[r] + Cardinality(Own[r])
             /\ next.move = "delete" => PreErrands + 1 = FirstOf[r] + Cardinality(Own[r])
             /\ next.move = "answer" =>
                  /\ next.state \in {"complete", "incomplete", "failed"} /\ Own[r] # {}
                  /\ next.state = "complete" =>
                       Own[r] \subseteq PassedTasks /\ Cardinality(Own[r]) = StepsInAll[r]
                  /\ next.state = "failed" =>
                       \/ Cardinality(Own[r]) = StepsInAll[r]
                       \/ \E m \in Own[r] : (\A t \in Own[r] : t <= m) /\ m \notin ActiveTasks \cup PassedTasks
<1> USE DEF Answer, NextErrand, RunDelete, NoTasksFound
<1> DEFINE next == LifeCycleRunnerGetTask(r)
<1>1. /\ Own[r] = TasksOf(r) /\ Own[r] \subseteq TaskId
      /\ Cardinality(Own[r]) \in Nat /\ (Cardinality(Own[r]) = 0 <=> Own[r] = {})
      /\ Cardinality(Own[r]) <= StepsInAll[r] /\ StepsInAll[r] = Steps(r)
      /\ FirstOf[r] = FirstStep(r)
      /\ type[r] \in OperationTypes
  <2>1. type[r] \in OperationTypes
    BY DEF IInv, TypeInv, FitsType, Fits
  <2>2. Cardinality(Own[r]) <= StepsInAll[r]
    BY DEF ChainInv
  <2> QED BY <2>1, <2>2, OwnTasks DEF StepsInAll, FirstOf
<1>2. ASSUME Own[r] # {}
      PROVE  LET m == Newest(Own[r])
             IN  /\ m \in Own[r] /\ m \in TaskId /\ \A t \in Own[r] : t <= m
                 /\ m \in PassedTasks => Own[r] \subseteq PassedTasks
  <2>1. PICK m : m = Newest(Own[r])
    OBVIOUS
  <2>2. m \in Own[r] /\ m \in TaskId /\ \A t \in Own[r] : t <= m
    BY <1>1, <1>2, <2>1, NewestIsATask
  <2>3. \A t \in Own[r] : t = m \/ t < m
    BY <1>1, <2>2, DirectorAssumption DEF TaskId
  <2>4. \A t \in Own[r] : t < m => t \in PassedTasks
    BY <2>2 DEF ChainInv
  <2> QED BY <2>1, <2>2, <2>3, <2>4
<1>3. PICK m : m = Newest(Own[r])
  OBVIOUS
<1>4. ASSUME NEW t \in TaskId
      PROVE  /\ StateType(fetchTaskState(t)) \in {"complete", "incomplete", "failed"}
             /\ t \in ActiveTasks <=> StateType(fetchTaskState(t)) = "incomplete"
             /\ t \in PassedTasks <=> Passed(t)
  BY TaskStands DEF ActiveTasks, PassedTasks
<1>5. CASE ~HasContext(r)
  <2>1. opTask[r] \in TaskId /\ tasks[opTask[r]].ctx = NoRequest
    BY <1>5, DirectorAssumption DEF IInv, TypeInv, TypeOK, OperationsTypeOK, TaskId, TasksInv
  <2>2. tasks[opTask[r]].kind # "errand"
    BY <2>1, DirectorAssumption DEF IInv, ContextsKnown
  <2>3. fetchTaskState(opTask[r]) = GetTask(opTask[r])
    BY <2>1, <2>2, TaskStands DEF TasksInv
  <2>4. Own[r] = {opTask[r]} /\ Cardinality(Own[r]) = 1
    <3>1. Own[r] = {opTask[r]}
      BY <1>1, <1>5 DEF TasksOf
    <3> QED BY <3>1, FS_Singleton
  <2>5. Steps(r) = 1
    BY <1>1, <1>5, OperationsAssumption DEF Steps, HasContext, OperationTypes, DeleteTypes
  <2>6. next = Answer(opTask[r], StateType(fetchTaskState(opTask[r])))
    BY <1>5, <2>3 DEF LifeCycleRunnerGetTask
  <2>7. Passed(opTask[r]) <=> StateType(fetchTaskState(opTask[r])) = "complete"
    BY <2>1, DirectorAssumption DEF Passed
  <2>8. \A t \in Own[r] : t <= opTask[r]
    BY <2>1, <2>4, DirectorAssumption DEF TaskId
  <2>9. /\ next.move = "answer" /\ next.state = StateType(fetchTaskState(opTask[r]))
    BY <2>6
  <2> HIDE DEF next
  <2>10. /\ next.state \in {"complete", "incomplete", "failed"} /\ Own[r] # {}
         /\ next.state = "complete" => Own[r] \subseteq PassedTasks
         /\ Cardinality(Own[r]) = StepsInAll[r]
    BY <1>1, <1>4, <2>1, <2>4, <2>5, <2>7, <2>9
  <2> QED BY <2>9, <2>10 DEF next
<1>6. CASE HasContext(r)
  <2>1. Own[r] = GetNormalisedTasksByContext(r) /\ r \in Contexts
    BY <1>1, <1>6 DEF TasksOf, Contexts
  <2>2. Own[r] # {} => tasks[m].ctx = r
    BY <1>2, <1>3, <2>1 DEF GetNormalisedTasksByContext
  <2> DEFINE state == StateType(fetchTaskState(m))
             len   == Cardinality(Own[r])
  <2>3. Own[r] # {} => (Passed(m) <=> state = "complete" \/ (state = "failed" /\ type[r] = "force-delete"))
    BY <2>2 DEF Passed
  <2>4. Own[r] # {} => /\ m \in Own[r] /\ m \in TaskId /\ \A t \in Own[r] : t <= m
                       /\ Passed(m) => Own[r] \subseteq PassedTasks
                       /\ state \in {"complete", "incomplete", "failed"}
                       /\ m \in ActiveTasks <=> state = "incomplete"
                       /\ m \in PassedTasks <=> Passed(m)
    BY <1>2, <1>3, <1>4
  <2>5. len \in Nat /\ (len = 0 <=> Own[r] = {}) /\ len <= Steps(r)
    BY <1>1
  <2>6. CASE type[r] \in DeleteTypes
    <3>1. Steps(r) = PreErrands + 1 /\ FirstStep(r) = 1 /\ Errands(r) = PreErrands
      BY <2>6 DEF Steps, FirstStep, Errands, DeleteTypes
    <3>2. next = IF Own[r] = {} THEN NoTasksFound
                 ELSE IF taskIsNotDone(state, type[r]) THEN Answer(m, state)
                 ELSE IF len = Errands(r) THEN RunDelete
                 ELSE IF len > Errands(r) THEN Answer(m, state)
                 ELSE NextErrand(len + 1)
      BY <1>3, <1>6, <2>1, <2>6 DEF LifeCycleRunnerGetTask, processPreDelete
    <3>3. CASE Own[r] = {}
      BY <3>2, <3>3
    <3>4. CASE Own[r] # {} /\ taskIsNotDone(state, type[r])
      <4>1. next.move = "answer" /\ next.state = state
        BY <3>2, <3>4
      <4>2. state # "complete" /\ ~Passed(m)
        BY <2>3, <3>4 DEF taskIsNotDone
      <4> HIDE DEF next, state
      <4>3. state = "failed" => m \notin ActiveTasks \cup PassedTasks
        BY <2>4, <3>4, <4>2
      <4> QED BY <2>4, <3>4, <4>1, <4>2, <4>3 DEF next
    <3>5. CASE Own[r] # {} /\ ~taskIsNotDone(state, type[r])
      <4>1. Passed(m)
        BY <2>3, <3>5 DEF taskIsNotDone
      <4>2. /\ Own[r] \subseteq PassedTasks
            /\ state \in {"complete", "failed"}
        BY <2>4, <3>5, <4>1 DEF taskIsNotDone
      <4> HIDE DEF state, len
      <4>3. CASE len = Errands(r)
        <5>1. next = RunDelete
          BY <3>2, <3>5, <4>3
        <5> QED BY <1>1, <2>1, <2>5, <3>1, <3>5, <4>2, <4>3, <5>1, OperationsAssumption DEF len
      <4>4. CASE len > Errands(r)
        <5>1. next = Answer(m, state)
          BY <2>5, <3>1, <3>2, <3>5, <4>4, OperationsAssumption
        <5>2. Cardinality(Own[r]) = StepsInAll[r]
          BY <1>1, <2>5, <3>1, <4>4, OperationsAssumption DEF len
        <5> QED BY <3>5, <4>2, <5>1, <5>2
      <4>5. CASE len < Errands(r)
        <5>1. next = NextErrand(len + 1)
          BY <2>5, <3>1, <3>2, <3>5, <4>5, OperationsAssumption
        <5> QED BY <1>1, <2>1, <2>5, <3>1, <3>5, <4>2, <4>5, <5>1, OperationsAssumption DEF len
      <4> QED BY <2>5, <3>1, <4>3, <4>4, <4>5, OperationsAssumption
    <3> QED BY <3>3, <3>4, <3>5
  <2>7. CASE type[r] \notin DeleteTypes
    <3>1. Steps(r) = PostErrands + 1 /\ FirstStep(r) = 0 /\ Errands(r) = PostErrands
      BY <1>1, <1>6, <2>7 DEF Steps, FirstStep, Errands, OperationTypes
    <3>2. next = IF Own[r] = {} THEN NoTasksFound
                 ELSE IF state # "complete" \/ len - 1 >= Errands(r) THEN Answer(m, state)
                 ELSE NextErrand(len - 1 + 1)
      BY <1>3, <1>6, <2>1, <2>7 DEF LifeCycleRunnerGetTask, processPostDeployment
    <3>3. CASE Own[r] = {}
      BY <3>2, <3>3
    <3>4. CASE Own[r] # {} /\ state # "complete"
      <4>1. next.move = "answer" /\ next.state = state
        BY <3>2, <3>4
      <4>2. ~Passed(m)
        BY <2>3, <2>7, <3>4 DEF DeleteTypes
      <4> HIDE DEF next, state
      <4>3. state = "failed" => m \notin ActiveTasks \cup PassedTasks
        BY <2>4, <3>4, <4>2
      <4> QED BY <2>4, <3>4, <4>1, <4>3 DEF next
    <3>5. CASE Own[r] # {} /\ state = "complete"
      <4>1. Own[r] \subseteq PassedTasks
        BY <2>3, <2>4, <3>5
      <4> HIDE DEF state, len
      <4>2. CASE len - 1 >= Errands(r)
        <5>1. next = Answer(m, state)
          BY <3>2, <3>5, <4>2
        <5>2. Cardinality(Own[r]) = StepsInAll[r]
          BY <1>1, <2>5, <3>1, <4>2, OperationsAssumption DEF len
        <5> QED BY <3>5, <4>1, <5>1, <5>2
      <4>3. CASE len - 1 < Errands(r)
        <5>1. next = NextErrand(len - 1 + 1)
          BY <2>5, <3>1, <3>2, <3>5, <4>3, OperationsAssumption
        <5> QED BY <1>1, <2>1, <2>5, <3>1, <3>5, <4>1, <4>3, <5>1, OperationsAssumption DEF len
      <4> QED BY <2>5, <3>1, <4>2, <4>3, OperationsAssumption
    <3> QED BY <3>3, <3>4, <3>5
  <2> QED BY <2>6, <2>7
<1> QED BY <1>5, <1>6

\* The client is told v about operation r.
Told(r, v) ==
  /\ report[r] \notin Terminal /\ report' = [report EXCEPT ![r] = v]
  /\ v = "in progress" => Own[r] # {}
  /\ v = "succeeded" =>
       Own[r] # {} /\ Own[r] \subseteq PassedTasks /\ Cardinality(Own[r]) = StepsInAll[r]
  /\ v = "failed" =>
       \/ Cardinality(Own[r]) = StepsInAll[r]
       \/ \E m \in Own[r] : (\A t \in Own[r] : t <= m) /\ m \notin ActiveTasks \cup PassedTasks

Tells == \E r \in Requests, v \in {"in progress", "succeeded", "failed"} : Told(r, v)

\* What follows once the last task of an operation is known.
LEMMA Concludes ==
  ASSUME IInv, NEW p \in Pollers, NEW r \in Requests, NEW t, NEW state, Conclude(p, r, t, state),
         state \in {"complete", "incomplete", "failed"}, Own[r] # {},
         state = "complete" => Own[r] \subseteq PassedTasks /\ Cardinality(Own[r]) = StepsInAll[r],
         state = "failed" =>
           \/ Cardinality(Own[r]) = StepsInAll[r]
           \/ \E m \in Own[r] : (\A u \in Own[r] : u <= m) /\ m \notin ActiveTasks \cup PassedTasks
  PROVE  /\ \A q \in Pollers \ {p} : poll'[q] = poll[q]
         /\ \/ poll'[p] = Idle
            \/ poll'[p].at = "configs" /\ poll'[p].req = r /\ state = "complete"
         /\ UNCHANGED report \/ Tells
<1>1. poll \in [Pollers -> Poll] /\ report \in [Requests -> Reports]
  BY DEF IInv, TypeInv, TypeOK
<1>2. CASE cleanUpDue(r, state)
  BY <1>1, <1>2 DEF Conclude, cleanUpDue
<1>3. CASE ~cleanUpDue(r, state)
  <2>1. poll' = [poll EXCEPT ![p] = Idle] /\ Report(r, lastOperationState(state))
    BY <1>3 DEF Conclude
  <2>2. CASE report[r] \in Terminal
    BY <1>1, <2>1, <2>2 DEF Report
  <2>3. CASE report[r] \notin Terminal
    <3>1. PICK v : v = lastOperationState(state)
      OBVIOUS
    <3>2. report' = [report EXCEPT ![r] = v]
      BY <2>1, <2>3, <3>1 DEF Report
    <3>3. /\ v \in {"in progress", "succeeded", "failed"}
          /\ v = "succeeded" => state = "complete"
          /\ v = "failed" => state = "failed"
      BY <3>1 DEF lastOperationState
    <3>4. Told(r, v)
      BY <2>3, <3>2, <3>3 DEF Told
    <3> QED BY <1>1, <2>1, <3>3, <3>4 DEF Tells
  <2> QED BY <2>2, <2>3
<1> QED BY <1>2, <1>3

\* A poll that starts no task: the others go on, and it does what is due.
LEMMA PollsGoOn ==
  ASSUME OrderInv, NEW p \in Pollers, UNCHANGED <<tasks, lastTask, type, opTask, pc>>,
         \A q \in Pollers \ {p} : poll'[q] = poll[q], Serves(p)', PollsApart', IInv'
  PROVE  OrderInv' /\ UNCHANGED taskViews
<1>1. UNCHANGED taskViews
  BY SameTasks
<1>2. TasksInv' /\ PathInv'
  <2>1. Contexts' = Contexts /\ \A q \in Requests : HasContext(q)' = HasContext(q)
    BY <1>1 DEF taskViews, HasContext
  <2> QED BY <2>1 DEF OrderInv, TasksInv, PathInv
<1>3. ChainInv'
  BY <1>1, ChainStays DEF OrderInv
<1>4. PollInv'
  <2>1. ASSUME NEW q \in Pollers, q # p PROVE Serves(q)'
    BY <1>1, <2>1, ServesStill DEF OrderInv, PollInv
  <2> QED BY <2>1 DEF PollInv
<1> QED BY <1>1, <1>2, <1>3, <1>4 DEF OrderInv

\* What an idle poll, or one that cleans up, has to keep.
LEMMA CleansUp ==
  ASSUME NEW p \in Pollers, NEW r \in Requests, UNCHANGED taskViews,
         \/ poll'[p].at = "idle"
         \/ /\ poll'[p].at \in {"configs", "secrets"} /\ poll'[p].req = r
            /\ Own[r] # {} /\ Own[r] \subseteq PassedTasks /\ Cardinality(Own[r]) = StepsInAll[r]
  PROVE  Serves(p)'
BY DEF Serves, taskViews

\* A poll that arrives finds the step that is due, or where the operation stands (last_operation.go:50).
LEMMA LastOperationKeepsOrder ==
  ASSUME OrderInv, ConcurrentPolls = FALSE, NEW p \in Pollers, NEW r \in Requests, LastOperation(p, r)
  PROVE  OrderInv' /\ UNCHANGED taskViews /\ (UNCHANGED report \/ Tells)
<1>0. IInv /\ TasksInv /\ PathInv /\ ChainInv /\ PollInv /\ PollsApart
  BY DEF OrderInv
<1>1. PICK next : next = LifeCycleRunnerGetTask(r)
  OBVIOUS
<1>2. /\ pc[r] = "accepted" /\ opTask[r] # 0 /\ UNCHANGED <<tasks, lastTask, type, opTask, pc>>
      /\ \A q \in Pollers : poll[q].req # r
      /\ poll \in [Pollers -> Poll] /\ poll[p].at = "idle"
  BY <1>0 DEF LastOperation, directorVars, operationVars, IInv, TypeInv, TypeOK
<1>3. \/ next.move = "answer" /\ Conclude(p, r, next.task, next.state)
      \/ UNCHANGED <<poll, report>>
      \/ /\ next.move \in {"errand", "delete"} /\ UNCHANGED report
         /\ poll' = [poll EXCEPT ![p] = [at |-> next.move, req |-> r, task |-> 0, step |-> next.step]]
  <2>1. next.move \in {"answer", "error", "errand", "delete"}
    BY <1>0, <1>1, RunnerTypes DEF IInv
  <2>2. CASE next.move = "answer"
    BY <1>1, <2>2 DEF LastOperation
  <2>3. CASE next.move = "error"
    BY <1>1, <2>3 DEF LastOperation
  <2>4. CASE next.move \notin {"answer", "error"}
    BY <1>1, <2>1, <2>4 DEF LastOperation
  <2> QED BY <2>2, <2>3, <2>4
<1>4. /\ next.move \in {"errand", "delete"} =>
           /\ r \in Contexts /\ Own[r] # {} /\ Own[r] \subseteq PassedTasks
           /\ Cardinality(Own[r]) < StepsInAll[r]
      /\ next.move = "errand" => next.step = FirstOf[r] + Cardinality(Own[r])
      /\ next.move = "delete" => PreErrands + 1 = FirstOf[r] + Cardinality(Own[r])
      /\ next.move = "answer" =>
           /\ next.state \in {"complete", "incomplete", "failed"} /\ Own[r] # {}
           /\ next.state = "complete" =>
                Own[r] \subseteq PassedTasks /\ Cardinality(Own[r]) = StepsInAll[r]
           /\ next.state = "failed" =>
                \/ Cardinality(Own[r]) = StepsInAll[r]
                \/ \E m \in Own[r] : (\A t \in Own[r] : t <= m) /\ m \notin ActiveTasks \cup PassedTasks
  BY <1>0, <1>1, <1>2, RunnerSees
<1>5. IInv'
  BY <1>0, LastOperationKeepsIInv
<1>6. UNCHANGED taskViews
  BY <1>2, SameTasks
<1>7. ASSUME \A q \in Pollers \ {p} : poll'[q] = poll[q], poll'[p].req \in {r, NoPoll, poll[p].req}
      PROVE  PollsApart'
  BY <1>0, <1>2, <1>7, PollingAssumption DEF PollsApart
<1>8. CASE next.move = "answer" /\ Conclude(p, r, next.task, next.state)
  <2>1. /\ \A q \in Pollers \ {p} : poll'[q] = poll[q]
        /\ \/ poll'[p] = Idle
           \/ poll'[p].at = "configs" /\ poll'[p].req = r /\ next.state = "complete"
        /\ UNCHANGED report \/ Tells
    BY <1>0, <1>4, <1>8, Concludes
  <2>2. Serves(p)'
    BY <1>4, <1>6, <1>8, <2>1, CleansUp DEF Idle
  <2>3. PollsApart'
    BY <1>7, <2>1 DEF Idle
  <2> QED BY <1>2, <1>5, <2>1, <2>2, <2>3, PollsGoOn
<1>9. CASE UNCHANGED <<poll, report>>
  <2>1. Serves(p)'
    BY <1>0, <1>6, <1>9, ServesStill DEF PollInv
  <2>2. PollsApart'
    BY <1>0, <1>9 DEF PollsApart
  <2> QED BY <1>2, <1>5, <1>9, <2>1, <2>2, PollsGoOn
<1>10. CASE /\ next.move \in {"errand", "delete"} /\ UNCHANGED report
            /\ poll' = [poll EXCEPT ![p] = [at |-> next.move, req |-> r, task |-> 0, step |-> next.step]]
  <2>1. /\ \A q \in Pollers \ {p} : poll'[q] = poll[q]
        /\ poll'[p].at = next.move /\ poll'[p].req = r /\ poll'[p].step = next.step
    BY <1>2, <1>10
  <2>2. StepDue(p)' = FirstOf[r] + Cardinality(Own[r])
    <3>1. CASE next.move = "errand"
      BY <1>4, <2>1, <3>1 DEF StepDue
    <3>2. CASE next.move = "delete"
      BY <1>4, <2>1, <3>2 DEF StepDue
    <3> QED BY <1>10, <3>1, <3>2
  <2>3. Serves(p)'
    BY <1>4, <1>6, <1>10, <2>1, <2>2 DEF Serves, taskViews
  <2>4. PollsApart'
    BY <1>7, <2>1
  <2> QED BY <1>2, <1>5, <1>10, <2>1, <2>3, <2>4, PollsGoOn
<1> QED BY <1>3, <1>8, <1>9, <1>10

\* A poll that starts a task starts the step that is due.
LEMMA PollStarts ==
  ASSUME OrderInv, NEW p \in Pollers, NEW kind \in {"errand", "delete"}, poll[p].at = kind,
         NEW step \in Nat, step = StepDue(p), StartTask(kind, poll[p].req, step),
         poll' = [poll EXCEPT ![p].at = "look", ![p].task = lastTask + 1],
         UNCHANGED <<type, opTask, pc>>, IInv'
  PROVE  OrderInv' /\ Starts(poll[p].req)
<1>0. IInv /\ TasksInv /\ PathInv /\ ChainInv /\ PollInv /\ PollsApart
  BY DEF OrderInv
<1>1. PICK r \in Requests : r = poll[p].req /\ pc[r] = "accepted"
  BY <1>0 DEF IInv, PollsFollow
<1>2. /\ r \in Contexts /\ Own[r] # {} /\ Own[r] \subseteq PassedTasks
      /\ Cardinality(Own[r]) < StepsInAll[r]
      /\ step = FirstOf[r] + Cardinality(Own[r])
  BY <1>0, <1>1 DEF PollInv, Serves
<1>3. Starts(r) /\ TasksInv'
  <2>1. HasContext(r) /\ BoshContextID(r) = r /\ step = FirstStep(r) + Cardinality(Own[r])
    BY <1>2 DEF Contexts, BoshContextID, FirstOf
  <2>2. kind \in {"deploy", "recreate", "delete", "errand"}
    OBVIOUS
  <2>3. pc'[r] \in StartedPcs /\ \A q \in Requests \ {r} : pc'[q] = pc[q]
    BY <1>1 DEF StartedPcs
  <2>4. StartTask(kind, r, step)
    BY <1>1
  <2> QED BY <1>0, <1>2, <2>1, <2>2, <2>3, <2>4, TaskOf
<1>4. PathInv'
  BY <1>0 DEF PathInv
<1>5. ChainInv'
  BY <1>0, <1>3, ChainGrows
<1>6. /\ poll \in [Pollers -> Poll] /\ \A q \in Pollers \ {p} : poll'[q] = poll[q]
      /\ poll'[p].at = "look" /\ poll'[p].task = lastTask + 1 /\ poll'[p].req = r
  BY <1>0, <1>1 DEF IInv, TypeInv, TypeOK, Poll
<1>7. PollsApart'
  BY <1>0, <1>1, <1>6 DEF PollsApart
<1>8. PollInv'
  <2>1. ASSUME NEW q \in Pollers, q # p PROVE Serves(q)'
    <3>1. poll[q].at = "idle" \/ poll[q].req \in Requests \ {r}
      BY <1>0, <1>1, <2>1 DEF PollsApart, IInv, PollsFollow
    <3> QED BY <1>0, <1>3, <1>6, <2>1, <3>1, ServesOther DEF PollInv
  <2>2. lastTask + 1 \in Own'[r] \cap ActiveTasks'
    BY <1>0, <1>3, OneMore DEF Starts
  <2>3. Serves(p)'
    BY <1>6, <2>2 DEF Serves
  <2> QED BY <2>1, <2>3 DEF PollInv
<1> QED BY <1>1, <1>3, <1>4, <1>5, <1>7, <1>8 DEF OrderInv

\* A poll that goes on starts the step it found, looks, or cleans up (lifecycle_runner.go:123, 188).
LEMMA PollKeepsOrder ==
  ASSUME OrderInv, NEW p \in Pollers, PollStep(p) \/ PollFails(p)
  PROVE  /\ OrderInv'
         /\ \/ UNCHANGED taskViews /\ (UNCHANGED report \/ Tells)
            \/ (\E r \in Requests : Starts(r)) /\ UNCHANGED report
<1> USE DEF directorVars, operationVars, resources
<1>0. IInv /\ TasksInv /\ PathInv /\ ChainInv /\ PollInv /\ PollsApart
  BY DEF OrderInv
<1>1. IInv'
  BY <1>0, PollKeepsIInv
<1>2. /\ poll \in [Pollers -> Poll] /\ report \in [Requests -> Reports]
      /\ UNCHANGED <<type, pc>> /\ poll[p].at # "idle"
      /\ \A q \in Pollers \ {p} : poll'[q] = poll[q]
  BY <1>0, PollCalls DEF IInv, TypeInv, TypeOK
<1>3. PICK r \in Requests : r = poll[p].req
  BY <1>0, <1>2 DEF IInv, PollsFollow
<1>4. UNCHANGED opTask
  BY DEF PollStep, PollRunsErrand, DeprovisionAfterAllErrand, PollLooksAtNewTask, DeleteConfigs,
         DeleteSecrets, PollFails
<1>5. ASSUME poll'[p].req \in {r, NoPoll} PROVE PollsApart'
  BY <1>0, <1>2, <1>3, <1>5, PollingAssumption DEF PollsApart
<1>6. Serves(p)
  BY <1>0 DEF PollInv
<1>7. ASSUME poll' = [poll EXCEPT ![p] = Idle], UNCHANGED <<tasks, lastTask>>
      PROVE  OrderInv' /\ UNCHANGED taskViews
  <2>1. poll'[p].at = "idle" /\ poll'[p].req = NoPoll
    BY <1>2, <1>7 DEF Idle
  <2>2. Serves(p)'
    BY <2>1 DEF Serves
  <2> QED BY <1>1, <1>2, <1>4, <1>5, <1>7, <2>1, <2>2, PollsGoOn
<1>8. CASE PollRunsErrand(p)
  <2>1. poll[p].at = "errand" /\ UNCHANGED report
    BY <1>8 DEF PollRunsErrand
  <2>2. CASE /\ RunErrand(poll[p].req, poll[p].step)
             /\ poll' = [poll EXCEPT ![p].at = "look", ![p].task = lastTask + 1]
    <3>1. PICK step \in Nat : step = poll[p].step
      BY <1>2 DEF Poll
    <3>2. step = StepDue(p)
      BY <2>1, <3>1 DEF StepDue
    <3>3. StartTask("errand", poll[p].req, step)
      BY <2>2, <3>1 DEF RunErrand
    <3>4. OrderInv' /\ Starts(poll[p].req)
      BY <1>1, <1>2, <1>4, <2>1, <2>2, <3>2, <3>3, PollStarts
    <3> QED BY <1>3, <2>1, <3>4
  <2>3. CASE poll' = [poll EXCEPT ![p] = Idle] /\ UNCHANGED <<tasks, lastTask>>
    BY <1>7, <2>1, <2>3
  <2> QED BY <1>8, <2>2, <2>3 DEF PollRunsErrand
<1>9. CASE DeprovisionAfterAllErrand(p)
  <2>1. poll[p].at = "delete" /\ UNCHANGED report
    BY <1>9 DEF DeprovisionAfterAllErrand
  <2>2. CASE deployed
    <3>1. poll' = [poll EXCEPT ![p].at = "look", ![p].task = lastTask + 1]
      BY <1>2, <1>9, <2>2 DEF DeprovisionAfterAllErrand, DeleteTaskId
    <3>2. PICK step \in Nat : step = PreErrands + 1
      BY OperationsAssumption
    <3>3. step = StepDue(p)
      BY <2>1, <3>2 DEF StepDue
    <3>4. StartTask("delete", poll[p].req, step)
      BY <1>9, <2>2, <3>2 DEF DeprovisionAfterAllErrand, DeleteDeployment
    <3>5. OrderInv' /\ Starts(poll[p].req)
      BY <1>1, <1>2, <1>4, <2>1, <3>1, <3>3, <3>4, PollStarts
    <3> QED BY <1>3, <2>1, <3>5
  <2>3. CASE ~deployed
    <3>1. poll' = [poll EXCEPT ![p] = Idle] /\ UNCHANGED <<tasks, lastTask>>
      BY <1>9, <2>3 DEF DeprovisionAfterAllErrand, DeleteDeployment
    <3> QED BY <1>7, <2>1, <3>1
  <2> QED BY <2>2, <2>3
<1>10. CASE PollLooksAtNewTask(p)
  <2>1. /\ poll[p].at = "look" /\ UNCHANGED <<tasks, lastTask>>
        /\ Conclude(p, r, poll[p].task, StateType(GetTask(poll[p].task)))
    BY <1>3, <1>10 DEF PollLooksAtNewTask
  <2>2. poll[p].task \in Own[r] /\ poll[p].task \in ActiveTasks
    BY <1>3, <1>6, <2>1 DEF Serves
  <2>3. PICK state : state = StateType(GetTask(poll[p].task))
    OBVIOUS
  <2>4. state = "incomplete"
    BY <2>2, <2>3 DEF ActiveTasks, Active, GetTask, StateType
  <2>5. /\ \/ poll'[p] = Idle
           \/ poll'[p].at = "configs" /\ poll'[p].req = r /\ state = "complete"
        /\ UNCHANGED report \/ Tells
    BY <1>0, <2>1, <2>2, <2>3, <2>4, Concludes
  <2>6. poll'[p].at = "idle" /\ poll'[p].req = NoPoll
    BY <2>4, <2>5 DEF Idle
  <2>7. Serves(p)'
    BY <2>6 DEF Serves
  <2> QED BY <1>1, <1>2, <1>4, <1>5, <2>1, <2>5, <2>6, <2>7, PollsGoOn
<1>11. CASE DeleteConfigs(p)
  <2>1. /\ poll[p].at = "configs" /\ UNCHANGED <<tasks, lastTask, report>>
        /\ poll'[p].at = "secrets" /\ poll'[p].req = r
    BY <1>2, <1>3, <1>11 DEF DeleteConfigs, Poll
  <2>2. UNCHANGED taskViews
    BY <1>2, <1>4, <2>1, SameTasks
  <2>3. Own[r] # {} /\ Own[r] \subseteq PassedTasks /\ Cardinality(Own[r]) = StepsInAll[r]
    BY <1>3, <1>6, <2>1 DEF Serves
  <2>4. Serves(p)'
    BY <2>1, <2>2, <2>3, CleansUp
  <2> QED BY <1>1, <1>2, <1>4, <1>5, <2>1, <2>4, PollsGoOn
<1>12. ASSUME poll[p].at \in {"configs", "secrets"}, NEW v \in {"succeeded", "failed"}, Report(r, v)
       PROVE  UNCHANGED report \/ Tells
  <2>1. Own[r] # {} /\ Own[r] \subseteq PassedTasks /\ Cardinality(Own[r]) = StepsInAll[r]
    BY <1>3, <1>6, <1>12 DEF Serves
  <2>2. CASE report[r] \in Terminal
    BY <1>2, <1>12, <2>2 DEF Report
  <2>3. CASE report[r] \notin Terminal
    <3>1. Told(r, v)
      BY <1>12, <2>1, <2>3 DEF Report, Told
    <3> QED BY <3>1 DEF Tells
  <2> QED BY <2>2, <2>3
<1>13. CASE DeleteSecrets(p)
  <2>1. /\ poll[p].at = "secrets" /\ UNCHANGED <<tasks, lastTask>> /\ Report(r, "succeeded")
        /\ poll' = [poll EXCEPT ![p] = Idle]
    BY <1>3, <1>13 DEF DeleteSecrets
  <2> QED BY <1>7, <1>12, <2>1
<1>14. CASE PollFails(p)
  <2>1. UNCHANGED <<tasks, lastTask>> /\ poll' = [poll EXCEPT ![p] = Idle]
    BY <1>14 DEF PollFails
  <2>2. UNCHANGED report \/ (poll[p].at \in {"configs", "secrets"} /\ Report(r, "failed"))
    BY <1>3, <1>14 DEF PollFails
  <2> QED BY <1>7, <1>12, <2>1, <2>2
<1> QED BY <1>8, <1>9, <1>10, <1>11, <1>13, <1>14 DEF PollStep
-----------------------------------------------------------------------------
(* The director and the clients. *)

\* The director ends tasks, and none that a poll has just started.
LEMMA DirectorKeepsOrder ==
  ASSUME OrderInv, QuickTasks = FALSE, NEW t \in TaskId, DirectorStep(t),
         UNCHANGED <<operationVars, poll, report>>
  PROVE  OrderInv' /\ (UNCHANGED taskViews \/ \E u \in TaskId : Ends(u))
<1>0. IInv /\ TasksInv /\ PathInv /\ ChainInv /\ PollInv /\ PollsApart
  BY DEF OrderInv
<1>1. IInv'
  BY <1>0, DirectorKeepsIInv
<1>2. /\ TasksInv'
      /\ \/ UNCHANGED taskViews
         \/ Ends(t) /\ \A p \in Pollers : poll[p].at = "look" => poll[p].task # t
  BY <1>0, DirectorDoes
<1>3. PathInv' /\ PollsApart'
  BY <1>0 DEF operationVars, PathInv, PollsApart
<1>4. ChainInv'
  BY <1>0, <1>2, ChainStays
<1>5. PollInv'
  <2>1. ASSUME NEW p \in Pollers PROVE Serves(p)'
    BY <1>0, <1>2, ServesStill DEF PollInv
  <2> QED BY <2>1 DEF PollInv
<1> QED BY <1>1, <1>2, <1>3, <1>4, <1>5 DEF OrderInv

\* The request of operation r is sent: it has steps now, and no task yet.
Sent(r) == /\ StepsInAll[r] = 0 /\ StepsInAll'[r] \in Nat \ {0}
           /\ StepsInAll' = [StepsInAll EXCEPT ![r] = StepsInAll'[r]]
           /\ UNCHANGED <<Own, ActiveTasks, PassedTasks>>

\* Sending a request fixes its steps and touches no other operation.
LEMMA SendKeepsOrder ==
  ASSUME OrderInv, NEW r \in Requests, Send(r)
  PROVE  OrderInv' /\ Sent(r) /\ UNCHANGED report
<1>0. IInv /\ TasksInv /\ PathInv /\ ChainInv /\ PollInv /\ PollsApart
  BY DEF OrderInv
<1>1. IInv'
  BY <1>0, ClientsKeepIInv
<1>2. /\ pc[r] = "unsent" /\ type[r] = "none" /\ opTask[r] = 0 /\ Own[r] = {}
  BY <1>0, OwnTasks DEF Send, PathInv, TasksInv, StartedPcs
<1>3. /\ type'[r] \in OperationTypes /\ pc'[r] \in {"updateClient", "lock"}
      /\ \A q \in Requests \ {r} : type'[q] = type[q] /\ pc'[q] = pc[q]
      /\ UNCHANGED <<tasks, lastTask, opTask, poll, report>>
  BY <1>0, OperationsAssumption
     DEF Send, Goto, directorVars, IInv, TypeInv, TypeOK, OperationsTypeOK
<1>4. \A t \in TaskId : tasks[t].ctx # r
  BY <1>0, <1>2 DEF TasksInv, StartedPcs
<1>5. \A t \in TaskId : (Active(t)' <=> Active(t)) /\ (Passed(t)' <=> Passed(t))
  BY <1>3, <1>4 DEF Active, Passed, fetchTaskState
<1>6. \A q \in Requests \ {r} : /\ HasContext(q)' = HasContext(q) /\ FirstStep(q)' = FirstStep(q)
                                /\ Steps(q)' = Steps(q)
  BY <1>3 DEF HasContext, FirstStep, Steps
<1>7. \A q \in Requests : TasksOf(q)' = Own[q]
  <2>1. \A q \in Requests : GetNormalisedTasksByContext(q)' = GetNormalisedTasksByContext(q)
    BY <1>3 DEF GetNormalisedTasksByContext
  <2>2. \A q \in Requests \ {r} : TasksOf(q)' = TasksOf(q)
    BY <1>3, <1>6, <2>1 DEF TasksOf
  <2>3. GetNormalisedTasksByContext(r) = {}
    BY <1>4 DEF GetNormalisedTasksByContext
  <2>4. TasksOf(r)' = {}
    BY <1>2, <1>3, <2>1, <2>3 DEF TasksOf
  <2> QED BY <1>2, <2>2, <2>4 DEF Own
<1>8. UNCHANGED <<Own, ActiveTasks, PassedTasks, StepOf>>
  <2>1. Own' = Own
    BY <1>7 DEF Own
  <2> QED BY <1>3, <1>5, <2>1 DEF ActiveTasks, PassedTasks, StepOf
<1>9. \A q \in Requests \ {r} : /\ StepsInAll'[q] = StepsInAll[q] /\ FirstOf'[q] = FirstOf[q]
                                /\ q \in Contexts' <=> q \in Contexts
  BY <1>6 DEF StepsInAll, FirstOf, Contexts
<1>10. StepsInAll[r] = 0 /\ StepsInAll'[r] \in Nat \ {0}
  <2>1. Steps(r) = 0
    BY <1>2 DEF Steps, DeleteTypes
  <2>2. Steps(r)' \in Nat \ {0}
    <3>1. PICK ty \in OperationTypes : ty = type'[r]
      BY <1>3
    <3>2. ty # "none"
      BY DEF OperationTypes
    <3> QED BY <3>1, <3>2, OperationsAssumption DEF Steps
  <2> QED BY <2>1, <2>2 DEF StepsInAll
<1>11. Sent(r)
  <2>1. StepsInAll' = [StepsInAll EXCEPT ![r] = StepsInAll'[r]]
    BY <1>9 DEF StepsInAll
  <2> QED BY <1>8, <1>10, <2>1 DEF Sent
<1>12. TasksInv'
  <2>1. \A t \in TaskId : tasks[t].ctx \in Requests =>
          tasks[t].ctx \in Contexts' /\ pc'[tasks[t].ctx] \in StartedPcs
    BY <1>0, <1>3, <1>4, <1>9 DEF TasksInv
  <2>2. ASSUME NEW q \in Requests
        PROVE  /\ pc'[q] \notin StartedPcs => opTask[q] = 0
               /\ ~HasContext(q)' /\ opTask[q] # 0 => tasks[opTask[q]].ctx = NoRequest
    <3>1. CASE q = r
      BY <1>2, <3>1
    <3>2. CASE q # r
      BY <1>0, <1>3, <1>6, <3>2 DEF TasksInv
    <3> QED BY <3>1, <3>2
  <2> QED BY <1>0, <1>3, <2>1, <2>2 DEF TasksInv
<1>13. PathInv' /\ PollsApart'
  BY <1>0, <1>3 DEF PathInv, PollsApart
<1>14. ChainInv'
  <2>1. Cardinality(Own'[r]) <= StepsInAll'[r] /\ Own'[r] = {}
    <3>1. Cardinality(Own[r]) = 0
      BY <1>0, <1>2, OwnTasks
    <3> QED BY <1>2, <1>8, <1>10, <3>1
  <2> QED BY <1>0, <1>8, <1>9, <2>1 DEF ChainInv
<1>15. PollInv'
  <2>1. ASSUME NEW p \in Pollers PROVE Serves(p)'
    <3>1. CASE poll[p].at = "idle"
      BY <1>3, <3>1 DEF Serves
    <3>2. CASE poll[p].at # "idle"
      <4>1. poll[p].req \in Requests \ {r}
        BY <1>0, <1>2, <3>2 DEF IInv, PollsFollow
      <4>2. Serves(p) /\ StepDue(p)' = StepDue(p)
        BY <1>0, <1>3 DEF PollInv, StepDue
      <4> QED BY <1>3, <1>8, <1>9, <4>1, <4>2 DEF Serves
    <3> QED BY <3>1, <3>2
  <2> QED BY <2>1 DEF PollInv
<1> QED BY <1>1, <1>3, <1>11, <1>12, <1>13, <1>14, <1>15 DEF OrderInv

\* A client that gives up, and steps that change nothing, leave everything.
LEMMA NothingMoves ==
  ASSUME OrderInv, UNCHANGED <<tasks, lastTask, type, pc, opTask, poll, report>>, IInv'
  PROVE  OrderInv' /\ UNCHANGED taskViews
<1>0. IInv /\ TasksInv /\ PathInv /\ ChainInv /\ PollInv /\ PollsApart
  BY DEF OrderInv
<1>1. UNCHANGED taskViews
  BY SameTasks
<1>2. TasksInv' /\ PathInv' /\ PollsApart'
  <2>1. Contexts' = Contexts /\ \A q \in Requests : HasContext(q)' = HasContext(q)
    BY <1>1 DEF taskViews, HasContext
  <2> QED BY <1>0, <2>1 DEF TasksInv, PathInv, PollsApart
<1>3. ChainInv'
  BY <1>0, <1>1, ChainStays
<1>4. PollInv'
  <2>1. ASSUME NEW p \in Pollers PROVE Serves(p)'
    BY <1>0, <1>1, ServesStill DEF PollInv
  <2> QED BY <2>1 DEF PollInv
<1> QED BY <1>1, <1>2, <1>3, <1>4 DEF OrderInv

\* A restart loses handlers and polls, and no task.
LEMMA RestartKeepsOrder ==
  ASSUME OrderInv, RestartBroker
  PROVE  OrderInv' /\ UNCHANGED taskViews /\ UNCHANGED report
<1> USE DEF directorVars, resources
<1>0. IInv /\ TasksInv /\ PathInv /\ ChainInv /\ PollInv /\ PollsApart
  BY DEF OrderInv
<1>1. IInv'
  BY <1>0, ClientsKeepIInv
<1>2. /\ UNCHANGED <<tasks, lastTask, type, opTask, report>>
      /\ \A r \in Requests : pc'[r] \in {pc[r], "lost"}
      /\ \A p \in Pollers : poll'[p] = Idle
  BY DEF RestartBroker
<1>3. UNCHANGED taskViews
  BY <1>2, SameTasks
<1>4. TasksInv'
  <2>1. Contexts' = Contexts /\ \A q \in Requests : HasContext(q)' = HasContext(q)
    BY <1>2, <1>3 DEF taskViews, HasContext
  <2> QED BY <1>0, <1>2, <2>1 DEF TasksInv, StartedPcs
<1>5. PathInv'
  BY <1>0, <1>2 DEF PathInv
<1>6. ChainInv'
  BY <1>0, <1>3, ChainStays
<1>7. PollInv' /\ PollsApart'
  <2>1. \A p \in Pollers : poll'[p].at = "idle" /\ poll'[p].req \notin Requests
    BY <1>2, PollingAssumption DEF Idle
  <2>2. PollsApart'
    BY <2>1 DEF PollsApart
  <2>3. ASSUME NEW p \in Pollers PROVE Serves(p)'
    BY <2>1 DEF Serves
  <2> QED BY <2>2, <2>3 DEF PollInv
<1> QED BY <1>1, <1>2, <1>3, <1>4, <1>5, <1>6, <1>7 DEF OrderInv
-----------------------------------------------------------------------------
(* Every step keeps the invariant and is one of five to an onlooker. *)

Effect ==
  \/ UNCHANGED taskViews /\ (UNCHANGED report \/ Tells)
  \/ UNCHANGED report /\ \/ \E r \in Requests : Starts(r) \/ Sent(r)
                         \/ \E t \in TaskId : Ends(t)

\* Each step of the whole system keeps the invariant and has one of the effects.
LEMMA StepKeepsOrder ==
  ASSUME ConcurrentPolls = FALSE, QuickTasks = FALSE, OrderInv, [Next]_vars
  PROVE  OrderInv' /\ Effect
<1> USE DEF directorVars, operationVars, resources
<1>0. IInv /\ IInv'
  BY NextIInv DEF OrderInv
<1>1. CASE UNCHANGED vars
  BY <1>0, <1>1, NothingMoves DEF vars, Effect
<1>2. ASSUME NEW r \in Requests, Send(r) PROVE OrderInv' /\ Effect
  BY <1>2, SendKeepsOrder DEF Effect
<1>3. ASSUME NEW r \in Requests, HandlerStep(r) \/ HandlerFails(r), UNCHANGED <<poll, report>>
      PROVE  OrderInv' /\ Effect
  BY <1>3, HandlerKeepsOrder DEF Effect
<1>4. ASSUME NEW r \in Requests, Abandon(r) PROVE OrderInv' /\ Effect
  BY <1>0, <1>4, NothingMoves DEF Abandon, Effect
<1>5. ASSUME NEW p \in Pollers, NEW r \in Requests, LastOperation(p, r) PROVE OrderInv' /\ Effect
  BY <1>5, LastOperationKeepsOrder DEF Effect
<1>6. ASSUME NEW p \in Pollers, PollStep(p) \/ PollFails(p) PROVE OrderInv' /\ Effect
  BY <1>6, PollKeepsOrder DEF Effect
<1>7. ASSUME NEW t \in TaskId, DirectorStep(t), UNCHANGED <<operationVars, poll, report>>
      PROVE  OrderInv' /\ Effect
  BY <1>7, DirectorKeepsOrder DEF Effect
<1>8. CASE RestartBroker
  BY <1>8, RestartKeepsOrder DEF Effect
<1>9. CASE Quiescent
  BY <1>1, <1>9 DEF Quiescent
<1> QED BY <1>1, <1>2, <1>3, <1>4, <1>5, <1>6, <1>7, <1>8, <1>9 DEF Next

\* Nothing is requested and nothing started in the beginning.
LEMMA NoTasksAtFirst ==
  ASSUME Init
  PROVE  \A r \in Requests : TasksOf(r) = {} /\ Own[r] = {} /\ Steps(r) = 0
<1>1. \A t \in TaskId : tasks[t] = Unused
  BY DEF Init, OperationsInit, DirectorInit
<1>2. ASSUME NEW r \in Requests PROVE TasksOf(r) = {} /\ Steps(r) = 0
  <2>1. opTask[r] = 0 /\ type[r] = "none"
    BY DEF Init, OperationsInit
  <2>2. GetNormalisedTasksByContext(r) = {}
    BY <1>1 DEF GetNormalisedTasksByContext, Unused
  <2>3. TasksOf(r) = {}
    BY <2>1, <2>2 DEF TasksOf
  <2>4. Steps(r) = 0
    BY <2>1 DEF Steps, DeleteTypes
  <2> QED BY <2>3, <2>4
<1> QED BY <1>2 DEF Own

\* The invariant holds in the beginning.
LEMMA InitOrder == Init => OrderInv
<1> SUFFICES ASSUME Init PROVE OrderInv
  OBVIOUS
<1>1. IInv
  BY InitIInv
<1>2. /\ \A t \in TaskId : tasks[t] = Unused
      /\ \A r \in Requests : opTask[r] = 0 /\ pc[r] = "unsent" /\ type[r] = "none"
      /\ \A p \in Pollers : poll[p] = Idle
      /\ lastTask = 0
  BY DEF Init, OperationsInit, DirectorInit
<1>3. TasksInv
  <2>1. \A t \in TaskId : tasks[t].ok /\ tasks[t].ctx \notin Requests
    BY <1>2, DirectorAssumption DEF Unused
  <2> QED BY <1>2, <2>1 DEF TasksInv
<1>4. PathInv
  BY <1>2 DEF PathInv
<1>5. ChainInv
  <2>1. \A r \in Requests : Own[r] = {} /\ Cardinality(Own[r]) = 0 /\ StepsInAll[r] = 0
    BY NoTasksAtFirst, FS_EmptySet DEF StepsInAll
  <2> QED BY <2>1 DEF ChainInv
<1>6. PollInv /\ PollsApart
  <2>1. \A p \in Pollers : poll[p].at = "idle" /\ poll[p].req \notin Requests
    BY <1>2, PollingAssumption DEF Idle
  <2> QED BY <2>1 DEF PollInv, Serves, PollsApart
<1> QED BY <1>1, <1>3, <1>4, <1>5, <1>6 DEF OrderInv

\* OrderInvHolds: the invariant holds in every behaviour in which CF polls an operation
\* once at a time (lifecycle_runner.go:32).
THEOREM OrderInvHolds ==
  ASSUME ConcurrentPolls = FALSE, QuickTasks = FALSE
  PROVE  Spec => []OrderInv
<1>1. Init => OrderInv
  BY InitOrder
<1>2. OrderInv /\ [Next]_vars => OrderInv'
  BY StepKeepsOrder
<1> QED BY <1>1, <1>2, PTL DEF Spec

\* StepsFollow: with one poll at a time, the steps of an operation run at most once, in order, none
\* skipped, and one starts only after the one before it passed, whatever the number of errands,
\* requests, faults and restarts (lifecycle_runner.go:57, 92).
THEOREM StepsFollow ==
  ASSUME ConcurrentPolls = FALSE, QuickTasks = FALSE
  PROVE  Spec => []StepsInOrder
<1>1. OrderInv => StepsInOrder
  <2> SUFFICES ASSUME OrderInv, NEW r \in Requests
               PROVE  LET mine == GetNormalisedTasksByContext(r) IN
                        /\ \A t, u \in mine : t < u => tasks[t].step < tasks[u].step /\ Passed(t)
                        /\ \A u \in mine : \/ tasks[u].step = FirstStep(r)
                                           \/ \E t \in mine : tasks[t].step + 1 = tasks[u].step
    BY DEF StepsInOrder
  <2>1. CASE GetNormalisedTasksByContext(r) = {}
    BY <2>1
  <2>2. CASE GetNormalisedTasksByContext(r) # {}
    <3>1. r \in Contexts
      BY <2>2 DEF OrderInv, TasksInv, GetNormalisedTasksByContext
    <3>2. Own[r] = GetNormalisedTasksByContext(r) /\ Own[r] \subseteq TaskId
      BY <3>1, OwnTasks DEF OrderInv, TasksOf, Contexts
    <3>3. /\ \A t, u \in Own[r] : t < u => StepOf[t] < StepOf[u] /\ t \in PassedTasks
          /\ \A u \in Own[r] : StepOf[u] = FirstOf[r] \/ \E t \in Own[r] : StepOf[t] + 1 = StepOf[u]
      BY <3>1 DEF OrderInv, ChainInv
    <3>4. FirstOf[r] = FirstStep(r) /\ \A t \in TaskId : StepOf[t] = tasks[t].step
      BY DEF FirstOf, StepOf
    <3>5. \A t \in PassedTasks : Passed(t)
      BY DEF PassedTasks
    <3> QED BY <3>2, <3>3, <3>4, <3>5
  <2> QED BY <2>1, <2>2
<1> QED BY <1>1, OrderInvHolds, PTL
-----------------------------------------------------------------------------
(* The refinement. *)

\* What ServiceOperation sees, read off the tasks.
Seen ==
  /\ StepsStarted = [r \in Requests |-> Cardinality(Own[r])]
  /\ LatestStep = [r \in Requests |-> LatestStep[r]]
  /\ \A r \in Requests :
       /\ Own[r] = {} => LatestStep[r] = "none"
       /\ Own[r] # {} => \E m \in Own[r] : \A t \in Own[r] : t <= m
       /\ \A m \in Own[r] : (\A t \in Own[r] : t <= m) =>
            LatestStep[r] = IF m \in ActiveTasks THEN "running"
                            ELSE IF m \in PassedTasks THEN "passed" ELSE "failed"

\* The invariant says how ServiceOperation's variables follow from the tasks.
LEMMA OrderIsSeen == OrderInv => Seen
<1> SUFFICES ASSUME OrderInv PROVE Seen
  OBVIOUS
<1>0. IInv /\ TasksInv
  BY DEF OrderInv
<1>1. StepsStarted = [r \in Requests |-> Cardinality(Own[r])]
  <2>1. \A r \in Requests : StepsStarted[r] = Cardinality(Own[r])
    BY <1>0, LatestIs
  <2> QED BY <2>1 DEF StepsStarted
<1>2. LatestStep = [r \in Requests |-> LatestStep[r]]
  BY DEF LatestStep
<1>3. ASSUME NEW r \in Requests
      PROVE  /\ Own[r] = {} => LatestStep[r] = "none"
             /\ Own[r] # {} => \E m \in Own[r] : \A t \in Own[r] : t <= m
             /\ \A m \in Own[r] : (\A t \in Own[r] : t <= m) =>
                  LatestStep[r] = IF m \in ActiveTasks THEN "running"
                                  ELSE IF m \in PassedTasks THEN "passed" ELSE "failed"
  <2>1. Own[r] \subseteq TaskId
    BY <1>0, OwnTasks
  <2> QED BY <1>0, <2>1, LatestIs, NewestIsATask
<1> QED BY <1>1, <1>2, <1>3 DEF Seen

\* An operation whose newest task stands as before is seen as before.
LEMMA SameStep ==
  ASSUME Seen, Seen', NEW r \in Requests, Own'[r] = Own[r],
         \A m \in Own[r] : (\A t \in Own[r] : t <= m) =>
           (m \in ActiveTasks' <=> m \in ActiveTasks) /\ (m \in PassedTasks' <=> m \in PassedTasks)
  PROVE  LatestStep'[r] = LatestStep[r]
<1>1. CASE Own[r] = {}
  BY <1>1 DEF Seen
<1>2. CASE Own[r] # {}
  <2>1. PICK m \in Own[r] : \A t \in Own[r] : t <= m
    BY <1>2 DEF Seen
  <2>2. LatestStep[r] = IF m \in ActiveTasks THEN "running"
                        ELSE IF m \in PassedTasks THEN "passed" ELSE "failed"
    BY <2>1 DEF Seen
  <2>3. LatestStep'[r] = IF m \in ActiveTasks' THEN "running"
                         ELSE IF m \in PassedTasks' THEN "passed" ELSE "failed"
    BY <2>1 DEF Seen
  <2> QED BY <2>1, <2>2, <2>3
<1> QED BY <1>1, <1>2

\* A step that is started is ServiceOperation's StartStep, ...
LEMMA StartIsAStep ==
  ASSUME OrderInv, Seen, Seen', NEW r \in Requests, Starts(r), UNCHANGED report
  PROVE  Promise!StartStep(r)
<1>0. IInv /\ TasksInv
  BY DEF OrderInv
<1>1. PICK n : n = lastTask + 1
  OBVIOUS
<1>2. /\ n \notin Own[r] /\ Own'[r] = Own[r] \cup {n}
      /\ Cardinality(Own'[r]) = Cardinality(Own[r]) + 1
      /\ \A q \in Requests \ {r} : Own'[q] = Own[q] /\ n \notin Own[q]
  BY <1>0, <1>1, OneMore
<1>3. /\ Own[r] \subseteq PassedTasks /\ Cardinality(Own[r]) < StepsInAll[r]
      /\ ActiveTasks' = ActiveTasks \cup {n} /\ PassedTasks' = PassedTasks \ {n}
      /\ StepsInAll' = StepsInAll
  BY <1>1 DEF Starts
<1>4. StepsStarted[r] < StepsInAll[r] /\ StepsStarted' = [StepsStarted EXCEPT ![r] = @ + 1]
  BY <1>2, <1>3 DEF Seen
<1>5. LatestStep[r] \in {"none", "passed"}
  <2>1. CASE Own[r] = {}
    BY <2>1 DEF Seen
  <2>2. CASE Own[r] # {}
    <3>1. PICK m \in Own[r] : \A t \in Own[r] : t <= m
      BY <2>2 DEF Seen
    <3>2. m \in PassedTasks /\ m \in TaskId
      BY <1>3 DEF PassedTasks
    <3>3. m \notin ActiveTasks
      BY <1>0, <3>2, TaskStands DEF PassedTasks, ActiveTasks
    <3> QED BY <3>1, <3>2, <3>3 DEF Seen
  <2> QED BY <2>1, <2>2
<1>6. LatestStep'[r] = "running"
  <2>1. \A t \in Own'[r] : t <= n
    <3>1. lastTask \in Nat /\ \A t \in Own[r] : t \in Nat /\ t <= lastTask
      BY <1>0, OwnTasks DEF IInv, TypeInv, TypeOK, OperationsTypeOK, DirectorTypeOK
    <3> QED BY <1>1, <1>2, <3>1
  <2>2. n \in Own'[r] /\ n \in ActiveTasks'
    BY <1>2, <1>3
  <2> QED BY <2>1, <2>2 DEF Seen
<1>7. \A q \in Requests \ {r} : LatestStep'[q] = LatestStep[q]
  BY <1>2, <1>3, SameStep
<1>8. LatestStep' = [LatestStep EXCEPT ![r] = "running"]
  BY <1>6, <1>7 DEF Seen
<1> QED BY <1>3, <1>4, <1>5, <1>8 DEF Promise!StartStep

\* ...the end of an operation's newest task its EndStep, ...
LEMMA EndIsAStep ==
  ASSUME OrderInv, Seen, Seen', NEW t \in TaskId, Ends(t), UNCHANGED report
  PROVE  \/ \E r \in Requests : Promise!EndStep(r)
         \/ UNCHANGED <<StepsInAll, StepsStarted, LatestStep, report>>
<1>1. /\ t \in ActiveTasks /\ ActiveTasks' = ActiveTasks \ {t}
      /\ PassedTasks' \in {PassedTasks, PassedTasks \cup {t}}
      /\ UNCHANGED <<Own, StepsInAll>>
  BY DEF Ends
<1>2. StepsStarted' = StepsStarted
  BY <1>1 DEF Seen
<1>3. ASSUME NEW q \in Requests, ~(t \in Own[q] /\ \A u \in Own[q] : u <= t)
      PROVE  LatestStep'[q] = LatestStep[q]
  BY <1>1, <1>3, SameStep
<1>4. CASE \A q \in Requests : ~(t \in Own[q] /\ \A u \in Own[q] : u <= t)
  <2>1. LatestStep' = LatestStep
    BY <1>3, <1>4 DEF Seen
  <2> QED BY <1>1, <1>2, <2>1
<1>5. ASSUME NEW r \in Requests, t \in Own[r], \A u \in Own[r] : u <= t
      PROVE  Promise!EndStep(r)
  <2>1. LatestStep[r] = "running"
    BY <1>1, <1>5 DEF Seen
  <2>2. LatestStep'[r] \in {"passed", "failed"}
    <3>1. t \in Own'[r] /\ \A u \in Own'[r] : u <= t
      BY <1>1, <1>5
    <3> QED BY <1>1, <3>1 DEF Seen
  <2>3. \A q \in Requests \ {r} : LatestStep'[q] = LatestStep[q]
    <3>1. \A q \in Requests \ {r} : t \notin Own[q]
      BY <1>5, OwnApart DEF OrderInv
    <3> QED BY <1>3, <3>1
  <2>4. LatestStep' = [LatestStep EXCEPT ![r] = LatestStep'[r]]
    BY <2>3 DEF Seen
  <2> QED BY <1>1, <1>2, <2>1, <2>2, <2>4 DEF Promise!EndStep
<1> QED BY <1>4, <1>5

\* ...an answer its Tell, ...
LEMMA TellIsAStep ==
  ASSUME OrderInv, Seen, Seen', UNCHANGED taskViews
  PROVE  /\ UNCHANGED <<StepsInAll, StepsStarted, LatestStep>>
         /\ Tells => \E r \in Requests, v \in {"in progress", "succeeded", "failed"} : Promise!Tell(r, v)
<1>1. UNCHANGED <<Own, ActiveTasks, PassedTasks, StepsInAll>>
  BY DEF taskViews
<1>2. StepsStarted' = StepsStarted
  BY <1>1 DEF Seen
<1>3. LatestStep' = LatestStep
  <2>1. \A r \in Requests : LatestStep'[r] = LatestStep[r]
    BY <1>1, SameStep
  <2> QED BY <2>1 DEF Seen
<1>4. ASSUME NEW r \in Requests, Own[r] # {} PROVE StepsStarted[r] > 0
  <2>1. StepsStarted[r] = Cardinality(Own[r]) /\ Cardinality(Own[r]) \in Nat /\ Cardinality(Own[r]) # 0
    BY <1>4, OwnTasks DEF Seen, OrderInv
  <2> QED BY <2>1
<1>5. ASSUME NEW r \in Requests, NEW v \in {"in progress", "succeeded", "failed"}, Told(r, v)
      PROVE  Promise!Tell(r, v)
  <2>1. StepsStarted[r] = Cardinality(Own[r]) /\ Cardinality(Own[r]) \in Nat
        /\ (Cardinality(Own[r]) = 0 <=> Own[r] = {})
    BY OwnTasks DEF Seen, OrderInv
  <2>2. v = "in progress" => StepsStarted[r] > 0
    BY <1>4, <1>5, Zenon DEF Told
  <2>3. v = "succeeded" => LatestStep[r] = "passed" /\ StepsStarted[r] = StepsInAll[r]
    <3> SUFFICES ASSUME v = "succeeded"
                 PROVE  LatestStep[r] = "passed" /\ StepsStarted[r] = StepsInAll[r]
      OBVIOUS
    <3>1. Own[r] # {} /\ Own[r] \subseteq PassedTasks /\ Cardinality(Own[r]) = StepsInAll[r]
      BY <1>5 DEF Told
    <3>2. PICK m \in Own[r] : \A t \in Own[r] : t <= m
      BY <3>1 DEF Seen
    <3>3. m \in PassedTasks /\ m \notin ActiveTasks
      BY <3>1, <3>2, TaskStands DEF PassedTasks, ActiveTasks, OrderInv
    <3> QED BY <2>1, <3>1, <3>2, <3>3 DEF Seen
  <2>4. v = "failed" => LatestStep[r] = "failed" \/ StepsStarted[r] = StepsInAll[r]
    BY <1>5, <2>1 DEF Told, Seen
  <2>5. report[r] \notin {"succeeded", "failed"} /\ report' = [report EXCEPT ![r] = v]
    BY <1>5 DEF Told, Terminal
  <2> QED BY <1>1, <1>2, <1>3, <2>2, <2>3, <2>4, <2>5 DEF Promise!Tell
<1> QED BY <1>1, <1>2, <1>3, <1>5 DEF Tells

\* ...and a request its Request.
LEMMA SendIsAStep ==
  ASSUME Seen, Seen', NEW r \in Requests, Sent(r), UNCHANGED report
  PROVE  Promise!Request(r)
<1>1. UNCHANGED <<Own, ActiveTasks, PassedTasks>>
  BY DEF Sent
<1>2. StepsStarted' = StepsStarted
  BY <1>1 DEF Seen
<1>3. LatestStep' = LatestStep
  <2>1. \A q \in Requests : LatestStep'[q] = LatestStep[q]
    BY <1>1, SameStep
  <2> QED BY <2>1 DEF Seen
<1> QED BY <1>2, <1>3 DEF Sent, Promise!Request

\* So each step is one of ServiceOperation or changes nothing it sees.
LEMMA EffectIsAStep ==
  ASSUME OrderInv, Seen, Seen', Effect
  PROVE  [Promise!OperationSpecNext]_(Promise!operationSpecVars)
<1> USE DEF Promise!OperationSpecNext, Promise!operationSpecVars
<1>1. CASE UNCHANGED taskViews /\ (UNCHANGED report \/ Tells)
  BY <1>1, TellIsAStep
<1>2. ASSUME NEW r \in Requests, Starts(r), UNCHANGED report
      PROVE  [Promise!OperationSpecNext]_(Promise!operationSpecVars)
  BY <1>2, StartIsAStep
<1>3. ASSUME NEW r \in Requests, Sent(r), UNCHANGED report
      PROVE  [Promise!OperationSpecNext]_(Promise!operationSpecVars)
  BY <1>3, SendIsAStep
<1>4. ASSUME NEW t \in TaskId, Ends(t), UNCHANGED report
      PROVE  [Promise!OperationSpecNext]_(Promise!operationSpecVars)
  BY <1>4, EndIsAStep
<1> QED BY <1>1, <1>2, <1>3, <1>4 DEF Effect

\* The initial states are its initial states.
LEMMA InitIsInit == Init => Promise!OperationSpecInit
<1> SUFFICES ASSUME Init PROVE Promise!OperationSpecInit
  OBVIOUS
<1>1. \A r \in Requests : Steps(r) = 0 /\ Cardinality(TasksOf(r)) = 0 /\ Current(r) = "none"
  BY NoTasksAtFirst, FS_EmptySet DEF Current
<1>2. report = [r \in Requests |-> "none"]
  BY DEF Init
<1> QED BY <1>1, <1>2 DEF Promise!OperationSpecInit, StepsInAll, StepsStarted, LatestStep

\* PromiseKept: with one poll at a time the broker implements ServiceOperation: a step starts only
\* after the one before it passed, and what the client is told is how the steps went, whatever
\* fails, restarts or is given up (lifecycle_runner.go:32, last_operation.go:123).
THEOREM PromiseKept ==
  ASSUME ConcurrentPolls = FALSE, QuickTasks = FALSE
  PROVE  Spec => KeepsPromise
<1>1. Init => Promise!OperationSpecInit
  BY InitIsInit
<1>2. OrderInv => Seen
  BY OrderIsSeen
<1>3. OrderInv /\ OrderInv' /\ Seen /\ Seen' /\ [Next]_vars =>
        [Promise!OperationSpecNext]_(Promise!operationSpecVars)
  BY StepKeepsOrder, EffectIsAStep
<1> QED BY <1>1, <1>2, <1>3, OrderInvHolds, PTL DEF Spec, KeepsPromise, Promise!OperationSpec
-----------------------------------------------------------------------------
(***************************************************************************)
(* Deletions are final and deployments keep what they need, for any number *)
(* of requests, pollers, errands, tasks and faults: as long as no update   *)
(* or upgrade runs while the polls of a delete go through pre-delete       *)
(* errands, and no create is cut off while its deploy goes on.             *)
(***************************************************************************)

\* The deploys and the deletes that run or wait, and the deletes that are done.
KindOf    == [t \in TaskId |-> tasks[t].kind]
Deploys   == {t \in ActiveTasks : tasks[t].kind = "deploy"}
Deletes   == {t \in ActiveTasks : tasks[t].kind = "delete"}
Deletions == {t \in TaskId : tasks[t].kind = "delete" /\ tasks[t].state = "done"}

\* Where pre-delete errands are run nothing deploys an existing instance: polls delete without a
\* check for tasks in progress (lifecycle_runner.go:123).
NoLateDeploys == PreErrands = 0 \/ Types \cap {"update", "upgrade"} = {}

\* What clients have sent and heard of: a create comes first and once, and finds nothing.
SentInv ==
  /\ \A r \in Requests : type[r] \in Types \cup {"none"}
  /\ (\A r \in Requests : pc[r] = "unsent") => lastTask = 0
  /\ \A q, r \in Requests : type[q] = "create" /\ type[r] = "create" => q = r
  /\ \A r \in Requests : type[r] = "create" /\ pc[r] \notin StartedPcs => ~deployed /\ lastTask = 0
  /\ \A r \in Requests : report[r] # "none" => pc[r] = "accepted"

\* An update or upgrade that has found the deployment's manifest deploys while it exists.
StillDeployed ==
  \A r \in Requests :
    type[r] \in {"update", "upgrade"} /\ pc[r] \in {"secrets", "configs", "deploy"} => deployed

\* Without errands a delete is its handler's; with them it is the last step, and a poll's.
DeletesLast ==
  /\ \A t \in TaskId : KindOf[t] = "delete" /\ PreErrands = 0 => tasks[t].ctx = NoRequest
  /\ \A r \in Requests : type[r] \in DeleteTypes =>
       \A t \in Own[r] : (r \in Contexts => StepOf[t] = PreErrands + 1) => KindOf[t] = "delete"
  /\ \A p \in Pollers :
       /\ poll[p].at = "delete" => type[poll[p].req] \in DeleteTypes
       /\ poll[p].at = "errand" /\ type[poll[p].req] \in DeleteTypes => poll[p].step <= PreErrands

\* No deploy waits or runs beside a delete, after one, or while errands lead to one.
NoDeployBeside ==
  /\ Deploys # {} => Deletes = {} /\ Deletions = {}
  /\ \A r \in Contexts : type[r] \in DeleteTypes /\ Own[r] # {} => Deploys = {}

\* A deletion that was reported, or whose remains are cleaned up, was done by a delete task, after
\* which there is no deployment.
DeletedIsGone ==
  /\ Deletions # {} => ~deployed
  /\ \A r \in Requests : type[r] \in DeleteTypes /\ report[r] = "succeeded" => Deletions # {}
  /\ \A p \in Pollers : poll[p].at \in {"configs", "secrets"} => Deletions # {}

\* The inductive invariant of deletions.
FinalInv == OrderInv /\ SentInv /\ StillDeployed /\ DeletesLast /\ NoDeployBeside /\ DeletedIsGone
-----------------------------------------------------------------------------
\* Where no task changes nothing of this does.
LEMMA SameViews ==
  ASSUME UNCHANGED tasks
  PROVE  /\ KindOf' = KindOf /\ ActiveTasks' = ActiveTasks
         /\ Deploys' = Deploys /\ Deletes' = Deletes /\ Deletions' = Deletions
<1>1. \A t \in TaskId : Active(t)' = Active(t)
  BY DEF Active
<1>2. ActiveTasks' = ActiveTasks
  BY <1>1 DEF ActiveTasks
<1> QED BY <1>2 DEF KindOf, Deploys, Deletes, Deletions

\* A task that is started waits, as what it is.
LEMMA NewViews ==
  ASSUME OrderInv, NEW kind \in {"deploy", "recreate", "delete", "errand"}, NEW c, NEW step,
         StartTask(kind, c, step), NEW n, n = lastTask + 1
  PROVE  /\ n \in TaskId /\ lastTask' = n /\ n # 0
         /\ KindOf'[n] = kind /\ \A t \in TaskId \ {n} : KindOf'[t] = KindOf[t]
         /\ tasks'[n].ctx = c /\ tasks'[n].step = step
         /\ \A t \in TaskId \ {n} : tasks'[t] = tasks[t]
         /\ Deploys' = IF kind = "deploy" THEN Deploys \cup {n} ELSE Deploys
         /\ Deletes' = IF kind = "delete" THEN Deletes \cup {n} ELSE Deletes
         /\ Deletions' = Deletions
<1>1. TypeInv /\ lastTask \in Nat /\ tasks \in [TaskId -> Task]
  BY DEF OrderInv, IInv, TypeInv, TypeOK, OperationsTypeOK, DirectorTypeOK
<1>2. /\ n \in TaskId /\ tasks'[n].kind = kind /\ tasks'[n].ctx = c /\ tasks'[n].step = step
      /\ \A t \in TaskId \ {n} : tasks'[t] = tasks[t]
      /\ lastTask' = n /\ n # 0
  <2>1. lastTask' = n /\ n # 0
    BY <1>1 DEF StartTask
  <2>2. /\ lastTask + 1 \in TaskId /\ tasks'[lastTask + 1].kind = kind
        /\ tasks'[lastTask + 1].ctx = c /\ tasks'[lastTask + 1].step = step
        /\ \A t \in TaskId \ {lastTask + 1} : tasks'[t] = tasks[t]
    BY <1>1, NewTask
  <2> QED BY <2>1, <2>2
<1>3. tasks'[n].state = "queued" /\ tasks[n] = Unused
  <2>1. tasks' = [tasks EXCEPT ![n] = [kind |-> kind, ctx |-> c, step |-> step,
                                       state |-> "queued", ok |-> TRUE]]
    BY DEF StartTask
  <2>2. n > lastTask
    BY <1>1
  <2> QED BY <1>1, <1>2, <2>1, <2>2
     DEF OrderInv, IInv, TypeInv, TypeOK, OperationsTypeOK, DirectorTypeOK
<1>4. /\ n \in ActiveTasks' /\ n \notin ActiveTasks
      /\ \A t \in TaskId \ {n} : t \in ActiveTasks' <=> t \in ActiveTasks
  BY <1>2, <1>3 DEF ActiveTasks, Active, Unused
<1>5. KindOf'[n] = kind /\ \A t \in TaskId \ {n} : KindOf'[t] = KindOf[t]
  BY <1>2 DEF KindOf
<1>6. Deploys' = IF kind = "deploy" THEN Deploys \cup {n} ELSE Deploys
  BY <1>2, <1>4 DEF Deploys, ActiveTasks
<1>7. Deletes' = IF kind = "delete" THEN Deletes \cup {n} ELSE Deletes
  BY <1>2, <1>4 DEF Deletes, ActiveTasks
<1>8. Deletions' = Deletions
  <2>1. n \notin Deletions' /\ n \notin Deletions
    BY <1>3 DEF Deletions, Unused
  <2>2. \A t \in TaskId \ {n} : t \in Deletions' <=> t \in Deletions
    BY <1>2 DEF Deletions
  <2> QED BY <2>1, <2>2 DEF Deletions
<1> QED BY <1>2, <1>5, <1>6, <1>7, <1>8

\* What the director does: a deploy makes the deployment appear, a delete that is done makes it go.
LEMMA DirectorViews ==
  ASSUME OrderInv, NEW t \in TaskId, DirectorStep(t)
  PROVE  /\ KindOf' = KindOf /\ lastTask' = lastTask
         /\ \A u \in TaskId : tasks'[u].ctx = tasks[u].ctx /\ tasks'[u].step = tasks[u].step
         /\ ActiveTasks' \subseteq ActiveTasks
         /\ Deploys' \subseteq Deploys /\ Deletes' \subseteq Deletes
         /\ \/ /\ Deletions' = Deletions
               /\ deployed' = deployed \/ (deployed' = TRUE /\ Deploys # {})
            \/ t \in Deletes /\ Deletions' = Deletions \cup {t} /\ deployed' = FALSE
<1>1. /\ tasks \in [TaskId -> Task] /\ tasks[t].state \in {"queued", "processing"}
      /\ lastTask' = lastTask
  BY DEF DirectorStep, TaskStarts, TaskSucceeds, TaskFails, OrderInv, IInv, TypeInv, TypeOK,
         OperationsTypeOK, DirectorTypeOK
<1>2. PICK s \in TaskStates, ok \in BOOLEAN :
        /\ tasks' = [tasks EXCEPT ![t].state = s, ![t].ok = ok]
        /\ \/ /\ s # "done"
              /\ deployed' = deployed \/ (deployed' = TRUE /\ tasks[t].kind = "deploy")
           \/ /\ s = "done"
              /\ deployed' = CASE tasks[t].kind = "deploy" -> TRUE
                               [] tasks[t].kind = "delete" -> FALSE
                               [] OTHER                    -> deployed
  <2>1. CASE TaskStarts(t)
    <3>1. tasks' = [tasks EXCEPT ![t].state = "processing", ![t].ok = tasks[t].ok]
      BY <1>1, <2>1 DEF TaskStarts, Task
    <3>2. deployed' = deployed \/ (deployed' = TRUE /\ tasks[t].kind = "deploy")
      BY <2>1 DEF TaskStarts
    <3>3. "processing" \in TaskStates /\ "processing" # "done" /\ tasks[t].ok \in BOOLEAN
      BY <1>1 DEF Task, TaskStates
    <3> QED BY <3>1, <3>2, <3>3
  <2>2. CASE TaskSucceeds(t)
    <3>1. PICK ok \in BOOLEAN : tasks' = [tasks EXCEPT ![t].state = "done", ![t].ok = ok]
      BY <2>2 DEF TaskSucceeds
    <3>2. deployed' = CASE tasks[t].kind = "deploy" -> TRUE
                        [] tasks[t].kind = "delete" -> FALSE
                        [] OTHER                    -> deployed
      BY <2>2 DEF TaskSucceeds
    <3>3. "done" \in TaskStates
      BY DEF TaskStates
    <3> QED BY <3>1, <3>2, <3>3
  <2>3. CASE TaskFails(t)
    <3>1. PICK s \in FailedStates : tasks' = [tasks EXCEPT ![t].state = s]
      BY <2>3 DEF TaskFails
    <3>2. tasks' = [tasks EXCEPT ![t].state = s, ![t].ok = tasks[t].ok] /\ tasks[t].ok \in BOOLEAN
      BY <1>1, <3>1 DEF Task
    <3>3. s \in TaskStates /\ s # "done" /\ deployed' = deployed
      BY <2>3, DirectorAssumption DEF TaskFails, TaskStates
    <3> QED BY <3>2, <3>3
  <2> QED BY <2>1, <2>2, <2>3 DEF DirectorStep
<1>3. /\ tasks'[t].kind = tasks[t].kind /\ tasks'[t].ctx = tasks[t].ctx
      /\ tasks'[t].step = tasks[t].step /\ tasks'[t].state = s
      /\ \A u \in TaskId \ {t} : tasks'[u] = tasks[u]
  BY <1>1, <1>2 DEF Task
<1>4. t \in ActiveTasks /\ ActiveTasks' \subseteq ActiveTasks
  BY <1>1, <1>3 DEF ActiveTasks, Active
<1>5. KindOf' = KindOf /\ \A u \in TaskId : tasks'[u].ctx = tasks[u].ctx /\ tasks'[u].step = tasks[u].step
  BY <1>3 DEF KindOf
<1>6. Deploys' \subseteq Deploys /\ Deletes' \subseteq Deletes
  BY <1>3, <1>4 DEF Deploys, Deletes, ActiveTasks
<1>7. CASE s = "done" /\ tasks[t].kind = "delete"
  <2>1. t \in Deletes /\ deployed' = FALSE
    BY <1>2, <1>4, <1>7 DEF Deletes
  <2>2. Deletions' = Deletions \cup {t}
    BY <1>3, <1>7 DEF Deletions
  <2> QED BY <1>1, <1>4, <1>5, <1>6, <2>1, <2>2
<1>8. CASE ~(s = "done" /\ tasks[t].kind = "delete")
  <2>1. Deletions' = Deletions
    BY <1>1, <1>3, <1>8 DEF Deletions
  <2>2. deployed' = deployed \/ (deployed' = TRUE /\ tasks[t].kind = "deploy")
    BY <1>2, <1>8
  <2>3. tasks[t].kind = "deploy" => Deploys # {}
    BY <1>4 DEF Deploys
  <2> QED BY <1>1, <1>4, <1>5, <1>6, <2>1, <2>2, <2>3
<1> QED BY <1>7, <1>8
-----------------------------------------------------------------------------
\* What the LifeCycleRunner answers is the state of the operation's newest task; it deletes, and
\* runs an errand before, only what is to be deleted (lifecycle_runner.go:92).
LEMMA RunnerAnswers ==
  ASSUME IInv, TasksInv, NEW r \in Requests, pc[r] = "accepted", opTask[r] # 0
  PROVE  LET next == LifeCycleRunnerGetTask(r)
         IN  /\ next.move = "delete" => type[r] \in DeleteTypes
             /\ next.move = "errand" /\ type[r] \in DeleteTypes => next.step <= PreErrands
             /\ next.move = "answer" =>
                  \E m \in Own[r] : /\ \A t \in Own[r] : t <= m
                                    /\ next.state = StateType(fetchTaskState(m))
<1> USE DEF Answer, NextErrand, RunDelete, NoTasksFound
<1> DEFINE next == LifeCycleRunnerGetTask(r)
<1>1. /\ Own[r] = TasksOf(r) /\ Own[r] \subseteq TaskId /\ Cardinality(Own[r]) \in Nat
      /\ \A t \in Own[r] : t \in Nat
  BY OwnTasks
<1>2. PICK m : m = Newest(Own[r])
  OBVIOUS
<1>3. Own[r] # {} => m \in Own[r] /\ \A t \in Own[r] : t <= m
  BY <1>1, <1>2, NewestIsATask
<1>4. CASE ~HasContext(r)
  <2>1. opTask[r] \in TaskId /\ tasks[opTask[r]].ctx = NoRequest
    BY <1>4, DirectorAssumption DEF IInv, TypeInv, TypeOK, OperationsTypeOK, TaskId, TasksInv
  <2>2. tasks[opTask[r]].kind # "errand"
    BY <2>1, DirectorAssumption DEF IInv, ContextsKnown
  <2>3. fetchTaskState(opTask[r]) = GetTask(opTask[r])
    BY <2>1, <2>2, TaskStands DEF TasksInv
  <2>4. Own[r] = {opTask[r]}
    BY <1>1, <1>4 DEF TasksOf
  <2>5. next = Answer(opTask[r], StateType(fetchTaskState(opTask[r])))
    BY <1>4, <2>3 DEF LifeCycleRunnerGetTask
  <2>6. opTask[r] \in Own[r] /\ \A t \in Own[r] : t <= opTask[r]
    BY <1>1, <2>4
  <2>7. next.move = "answer" /\ next.state = StateType(fetchTaskState(opTask[r]))
    BY <2>5
  <2> QED BY <2>6, <2>7
<1>5. CASE HasContext(r) /\ type[r] \in DeleteTypes
  <2> DEFINE state == StateType(fetchTaskState(m))
             len   == Cardinality(Own[r])
  <2>1. Own[r] = GetNormalisedTasksByContext(r) /\ Errands(r) = PreErrands
    BY <1>1, <1>5 DEF TasksOf, Errands
  <2>2. next = IF Own[r] = {} THEN NoTasksFound
               ELSE IF taskIsNotDone(state, type[r]) THEN Answer(m, state)
               ELSE IF len = PreErrands THEN RunDelete
               ELSE IF len > PreErrands THEN Answer(m, state)
               ELSE NextErrand(len + 1)
    BY <1>2, <1>5, <2>1 DEF LifeCycleRunnerGetTask, processPreDelete
  <2>3. len \in Nat
    BY <1>1
  <2> HIDE DEF len, state
  <2>4. \/ next = NoTasksFound
        \/ next = RunDelete
        \/ Own[r] # {} /\ next = Answer(m, state)
        \/ len < PreErrands /\ next = NextErrand(len + 1)
    BY <2>2, <2>3, OperationsAssumption
  <2>5. CASE next = NoTasksFound \/ next = RunDelete
    <3>1. next.move \in {"error", "delete"}
      BY <2>5
    <3> QED BY <1>5, <3>1
  <2>6. CASE Own[r] # {} /\ next = Answer(m, state)
    <3>1. next.move = "answer" /\ next.state = state
      BY <2>6
    <3> QED BY <1>3, <2>6, <3>1 DEF state
  <2>7. CASE len < PreErrands /\ next = NextErrand(len + 1)
    <3>1. next.move = "errand" /\ next.step = len + 1
      BY <2>7
    <3> QED BY <2>3, <2>7, <3>1, OperationsAssumption
  <2> QED BY <2>4, <2>5, <2>6, <2>7
<1>6. CASE HasContext(r) /\ type[r] \notin DeleteTypes
  <2> DEFINE state == StateType(fetchTaskState(m))
             len   == Cardinality(Own[r]) - 1
  <2>1. Own[r] = GetNormalisedTasksByContext(r)
    BY <1>1, <1>6 DEF TasksOf
  <2>2. next = IF Own[r] = {} THEN NoTasksFound
               ELSE IF state # "complete" \/ len >= Errands(r) THEN Answer(m, state)
               ELSE NextErrand(len + 1)
    BY <1>2, <1>6, <2>1 DEF LifeCycleRunnerGetTask, processPostDeployment
  <2> HIDE DEF len, state
  <2>3. CASE next = NoTasksFound \/ next = NextErrand(len + 1)
    <3>1. next.move \in {"error", "errand"}
      BY <2>3
    <3> QED BY <1>6, <3>1
  <2>4. CASE Own[r] # {} /\ next = Answer(m, state)
    <3>1. next.move = "answer" /\ next.state = state
      BY <2>4
    <3> QED BY <1>3, <2>4, <3>1 DEF state
  <2> QED BY <2>2, <2>3, <2>4
<1> QED BY <1>4, <1>5, <1>6

\* So a delete that is answered as complete has been done by a delete task, and an operation that
\* is answered as complete or failed runs no task any more.
LEMMA CompleteIsDone ==
  ASSUME OrderInv, DeletesLast, NEW r \in Requests, pc[r] = "accepted", opTask[r] # 0
  PROVE  LET next == LifeCycleRunnerGetTask(r)
         IN  next.move = "answer" =>
               /\ next.state = "complete" /\ type[r] \in DeleteTypes => Deletions # {}
               /\ next.state \in {"complete", "failed"} => Own[r] \cap ActiveTasks = {}
<1>0. IInv /\ TasksInv /\ ChainInv
  BY DEF OrderInv
<1>1. PICK next : next = LifeCycleRunnerGetTask(r)
  OBVIOUS
<1> SUFFICES ASSUME next.move = "answer"
             PROVE  /\ next.state = "complete" /\ type[r] \in DeleteTypes => Deletions # {}
                    /\ next.state \in {"complete", "failed"} => Own[r] \cap ActiveTasks = {}
  BY <1>1
<1>2. PICK m \in Own[r] : (\A t \in Own[r] : t <= m) /\ next.state = StateType(fetchTaskState(m))
  BY <1>0, <1>1, RunnerAnswers
<1>3. /\ Own[r] \subseteq TaskId /\ Own[r] = TasksOf(r) /\ \A t \in Own[r] : t \in Nat
      /\ Cardinality(Own[r]) \in Nat
  BY <1>0, OwnTasks
<1>4. \A t \in Own[r] : t = m \/ t < m
  BY <1>2, <1>3
<1>5. next.state \in {"complete", "failed"} => Own[r] \cap ActiveTasks = {}
  <2>1. \A t \in Own[r] : t < m => t \in PassedTasks
    BY <1>0, <1>2 DEF ChainInv
  <2>2. \A t \in Own[r] : t \in PassedTasks => t \notin ActiveTasks
    BY <1>0, <1>3, TaskStands DEF PassedTasks, ActiveTasks
  <2>3. next.state \in {"complete", "failed"} => m \notin ActiveTasks
    BY <1>0, <1>2, <1>3, TaskStands DEF ActiveTasks
  <2> QED BY <1>4, <2>1, <2>2, <2>3
<1>6. ASSUME next.state = "complete", type[r] \in DeleteTypes PROVE Deletions # {}
  <2>1. Cardinality(Own[r]) = StepsInAll[r] /\ StepsInAll[r] = PreErrands + 1
    <3>1. Cardinality(Own[r]) = StepsInAll[r]
      BY <1>0, <1>1, <1>6, RunnerSees
    <3>2. Steps(r) = PreErrands + 1
      BY <1>6 DEF Steps, DeleteTypes
    <3> QED BY <3>1, <3>2 DEF StepsInAll
  <2>2. r \in Contexts => StepOf[m] = PreErrands + 1
    <3> SUFFICES ASSUME r \in Contexts PROVE StepOf[m] = PreErrands + 1
      OBVIOUS
    <3>1. FirstOf[r] = 1
      BY <1>6 DEF FirstOf, FirstStep
    <3>2. \A t \in Own[r] : StepOf[t] \in Nat
      BY <1>0, <1>3, StepTypes
    <3>3. PICK t \in Own[r] : StepOf[t] + 1 = FirstOf[r] + Cardinality(Own[r])
      BY <1>0, <1>2 DEF ChainInv
    <3>4. StepOf[m] < FirstOf[r] + Cardinality(Own[r])
      BY <1>0, <1>2 DEF ChainInv
    <3>5. t < m => StepOf[t] < StepOf[m]
      BY <1>0, <1>2, <3>3 DEF ChainInv
    <3>6. StepOf[t] = PreErrands + 1
      BY <2>1, <3>1, <3>2, <3>3, OperationsAssumption
    <3>7. CASE t = m
      BY <3>6, <3>7
    <3>8. CASE t < m
      BY <2>1, <3>1, <3>2, <3>4, <3>5, <3>6, <3>8, OperationsAssumption
    <3> QED BY <1>4, <3>3, <3>7, <3>8
  <2>3. KindOf[m] = "delete"
    BY <1>2, <1>6, <2>2 DEF DeletesLast
  <2>4. tasks[m].kind = "delete" /\ tasks[m].ok /\ m \in TaskId
    BY <1>0, <1>2, <1>3, <2>3 DEF KindOf, TasksInv
  <2>5. tasks[m].state = "done"
    <3>1. tasks[m].state \in TaskStates /\ fetchTaskState(m) = tasks[m].state
      BY <1>0, <2>4 DEF IInv, TypeInv, TypeOK, OperationsTypeOK, DirectorTypeOK, Task, fetchTaskState
    <3> QED BY <1>2, <1>6, <3>1 DEF StateType, TaskStates
  <2> QED BY <2>4, <2>5 DEF Deletions
<1> QED BY <1>5, <1>6
-----------------------------------------------------------------------------
\* What a handler's step can be: it starts nothing, or a task of its operation's kind.
LEMMA HandlerDoes ==
  ASSUME OrderInv, NEW r \in Requests, HandlerStep(r) \/ HandlerFails(r)
  PROVE  /\ pc[r] \notin Ended \cup {"unsent"} /\ pc'[r] # "unsent"
         /\ UNCHANGED <<type, deployed>>
         /\ \A q \in Requests \ {r} : pc'[q] = pc[q]
         /\ pc[r] \in StartedPcs => pc'[r] \in StartedPcs
         /\ \/ /\ UNCHANGED <<tasks, lastTask>>
               /\ type[r] \in {"update", "upgrade"} /\ pc'[r] \in {"secrets", "configs", "deploy"} =>
                    deployed \/ pc[r] \in {"secrets", "configs"}
            \/ /\ pc[r] = "deploy" /\ type[r] \in {"create", "update", "upgrade"}
               /\ pc'[r] \in StartedPcs /\ StartTask("deploy", BoshContextID(r), 0)
            \/ /\ deployed /\ type[r] = "recreate"
               /\ pc'[r] \in StartedPcs /\ StartTask("recreate", BoshContextID(r), 0)
            \/ /\ deployed /\ pc[r] = "errand" /\ type[r] \in DeleteTypes /\ PreErrands > 0
               /\ pc'[r] \in StartedPcs /\ StartTask("errand", r, 1)
            \/ /\ deployed /\ pc[r] = "delete" /\ type[r] \in DeleteTypes /\ PreErrands = 0
               /\ pc'[r] \in StartedPcs /\ StartTask("delete", NoRequest, 0)
<1> USE DEF directorVars, resources
<1>0. IInv /\ TasksInv /\ PathInv /\ TypeInv /\ HoldsLock
  BY DEF OrderInv, IInv
<1>1. /\ pc \in [Requests -> HandlerPcs] /\ Fits(type[r], pc[r])
  BY <1>0 DEF TypeInv, TypeOK, OperationsTypeOK, FitsType
<1>2. /\ pc[r] \notin Ended \cup {"unsent"} /\ pc'[r] # "unsent"
      /\ UNCHANGED <<type, deployed>>
      /\ \A q \in Requests \ {r} : pc'[q] = pc[q]
  BY <1>0, HandlerMoves
<1>3. pc[r] \in StartedPcs => pc'[r] \in StartedPcs
  <2>1. Quiet(r) \/ First(r)
    BY <1>0, HandlerTasks
  <2> QED BY <2>1 DEF Quiet, First
<1>4. ASSUME NEW next, Goto(r, next) PROVE pc'[r] = next
  BY <1>1, <1>4 DEF Goto
<1>5. ASSUME NEW how, Reply(r, how) PROVE pc'[r] = how
  BY <1>4, <1>5 DEF Reply
<1> DEFINE Late  == {"secrets", "configs", "deploy"}
           Still == /\ UNCHANGED <<tasks, lastTask>>
                    /\ type[r] \in {"update", "upgrade"} /\ pc'[r] \in Late =>
                         deployed \/ pc[r] \in {"secrets", "configs"}
<1>6. ASSUME NEW how, Reply(r, how), how \notin Late, UNCHANGED <<tasks, lastTask>> PROVE Still
  BY <1>5, <1>6
<1>7. ASSUME pc[r] \in Moves, pc[r] # "deploy", Proceed(r), type[r] \in {"update", "upgrade"},
             pc'[r] \in Late
      PROVE  pc[r] \in {"manifest", "secrets", "configs"}
  <2>1. pc'[r] = Calls(type[r])[pc[r]]
    BY <1>4, <1>7 DEF Proceed
  <2>2. CASE type[r] = "update"
    <3>1. Calls(type[r]) = UpdateCalls
      BY <2>2 DEF Calls, DeleteTypes
    <3>2. pc[r] \in {"lock", "busy", "manifest", "secrets", "configs"}
      BY <1>1, <1>7, <2>2 DEF Fits, Moves, DeleteTypes
    <3> QED BY <1>7, <2>1, <3>1, <3>2 DEF UpdateCalls
  <2>3. CASE type[r] = "upgrade"
    <3>1. Calls(type[r]) = UpgradeCalls
      BY <2>3 DEF Calls, DeleteTypes
    <3>2. pc[r] \in {"lock", "client", "busy", "manifest", "secrets", "configs"}
      BY <1>1, <1>7, <2>3 DEF Fits, Moves, DeleteTypes
    <3> QED BY <1>7, <2>1, <3>1, <3>2 DEF UpgradeCalls
  <2> QED BY <1>7, <2>2, <2>3
<1>8. CASE Acquire(r)
  <2>1. pc'[r] = Calls(type[r])["lock"] /\ type[r] \in OperationTypes
    BY <1>1, <1>4, <1>8 DEF Acquire, Fits
  <2>2. pc'[r] \notin Late
    BY <2>1, CallsFit DEF Moves, Fits, AfterCheck
  <2> QED BY <1>2, <1>3, <1>8, <2>2 DEF Acquire
<1>9. CASE GetServiceInstanceClientForUpdate(r)
  BY <1>2, <1>3, <1>4, <1>9 DEF GetServiceInstanceClientForUpdate
<1>10. CASE FindDeploymentToProvision(r)
  BY <1>2, <1>3, <1>6, <1>10 DEF FindDeploymentToProvision
<1>11. CASE CreateClient(r)
  BY <1>2, <1>3, <1>7, <1>11 DEF CreateClient, Moves
<1>12. CASE AssertNoOperationsInProgress(r)
  BY <1>2, <1>3, <1>6, <1>7, <1>12 DEF AssertNoOperationsInProgress, Moves
<1>13. CASE GetDeploymentManifest(r)
  BY <1>2, <1>3, <1>6, <1>7, <1>13 DEF GetDeploymentManifest, Moves
<1>14. CASE BulkSet(r)
  BY <1>2, <1>3, <1>7, <1>14 DEF BulkSet, Moves
<1>15. CASE UpdateConfigs(r)
  BY <1>2, <1>3, <1>7, <1>15 DEF UpdateConfigs, Moves
<1>16. CASE DeployManifest(r)
  <2>1. pc[r] = "deploy" /\ type[r] \in {"create", "update", "upgrade"}
    BY <1>1, <1>16 DEF DeployManifest, Fits
  <2>2. Calls(type[r])["deploy"] = "finish"
    BY <2>1 DEF Calls, ProvisionCalls, UpdateCalls, UpgradeCalls, DeleteTypes
  <2>3. pc'[r] = "finish"
    BY <1>4, <1>16, <2>1, <2>2 DEF DeployManifest, Proceed
  <2> QED BY <1>2, <1>3, <1>16, <2>1, <2>3 DEF DeployManifest, Deploy, StartedPcs
<1>17. CASE RecreateDeployment(r)
  <2>1. CASE Recreate(BoshContextID(r)) /\ Reply(r, "accepted")
    BY <1>2, <1>3, <1>5, <1>17, <2>1 DEF RecreateDeployment, Recreate, StartedPcs
  <2>2. CASE Reply(r, "failed") /\ UNCHANGED <<tasks, lastTask>>
    BY <1>2, <1>3, <1>6, <2>2
  <2> QED BY <1>17, <2>1, <2>2 DEF RecreateDeployment
<1>18. CASE FinishDeploy(r)
  BY <1>2, <1>3, <1>6, <1>18 DEF FinishDeploy
<1>19. CASE AssertDeploymentExists(r)
  <2>1. type[r] \notin {"update", "upgrade"}
    BY <1>19 DEF AssertDeploymentExists, DeleteTypes
  <2> QED BY <1>2, <1>3, <1>19, <2>1 DEF AssertDeploymentExists
<1>20. CASE DeleteConfigsForNotFoundInstance(r)
  BY <1>2, <1>3, <1>4, <1>20 DEF DeleteConfigsForNotFoundInstance
<1>21. CASE ClearSecretsForNotFoundInstance(r)
  BY <1>2, <1>3, <1>6, <1>21 DEF ClearSecretsForNotFoundInstance
<1>22. CASE DeprovisionAssertNoOperations(r)
  <2>1. type[r] \notin {"update", "upgrade"}
    BY <1>22 DEF DeprovisionAssertNoOperations, DeleteTypes
  <2> QED BY <1>2, <1>3, <1>22, <2>1 DEF DeprovisionAssertNoOperations
<1>23. CASE RunPreDeleteErrands(r)
  <2>1. pc[r] = "errand" /\ type[r] \in DeleteTypes /\ PreErrands > 0
    BY <1>0, <1>1, <1>23 DEF RunPreDeleteErrands, Fits, PathInv
  <2>2. CASE RunErrand(r, 1) /\ Reply(r, "accepted")
    BY <1>2, <1>3, <1>5, <2>1, <2>2 DEF RunErrand, StartedPcs
  <2>3. CASE Reply(r, "failed") /\ UNCHANGED <<tasks, lastTask>>
    BY <1>2, <1>3, <1>6, <2>3
  <2> QED BY <1>23, <2>2, <2>3 DEF RunPreDeleteErrands
<1>24. CASE DeleteInstance(r)
  <2>1. pc[r] = "delete" /\ type[r] \in DeleteTypes /\ PreErrands = 0
    BY <1>0, <1>1, <1>24 DEF DeleteInstance, Fits, PathInv
  <2>2. Calls(type[r])["delete"] = "dropClient"
    BY <2>1 DEF Calls, DeprovisionCalls, DeleteTypes
  <2>3. pc'[r] = "dropClient"
    BY <1>4, <1>24, <2>1, <2>2 DEF DeleteInstance, Proceed
  <2>4. \/ deployed /\ StartTask("delete", NoRequest, 0)
        \/ UNCHANGED <<tasks, lastTask>>
    BY <1>24 DEF DeleteInstance, DeleteDeployment
  <2> QED BY <1>2, <1>3, <2>1, <2>3, <2>4 DEF StartedPcs
<1>25. CASE DeleteClient(r)
  <2> DEFINE how == IF pc[r] = "dropClient" THEN "accepted" ELSE "failed"
  <2>1. Reply(r, how) /\ how \notin Late /\ UNCHANGED <<tasks, lastTask>>
    BY <1>25 DEF DeleteClient
  <2> QED BY <1>2, <1>3, <1>6, <2>1
<1>26. CASE HandlerFails(r)
  <2>1. \/ pc[r] = "delete" /\ Goto(r, "deleteFailed")
        \/ Reply(r, "accepted")
        \/ Reply(r, "failed")
    BY <1>26, Zenon DEF HandlerFails
  <2>2. UNCHANGED <<tasks, lastTask>>
    BY <1>26 DEF HandlerFails
  <2>3. pc'[r] \notin Late
    BY <1>4, <1>5, <2>1
  <2> QED BY <1>2, <1>3, <2>2, <2>3
<1> QED BY <1>8, <1>9, <1>10, <1>11, <1>12, <1>13, <1>14, <1>15, <1>16, <1>17, <1>18, <1>19, <1>20,
           <1>21, <1>22, <1>23, <1>24, <1>25, <1>26 DEF HandlerStep

\* Before there are tasks there is nothing to be seen of any.
LEMMA NoTasksYet ==
  ASSUME OrderInv, lastTask = 0
  PROVE  /\ Deploys = {} /\ Deletes = {} /\ Deletions = {}
         /\ \A r \in Requests : Own[r] = {}
<1>1. \A t \in TaskId : tasks[t] = Unused
  <2>1. \A t \in TaskId : t > 0
    BY DirectorAssumption DEF TaskId
  <2> QED BY <2>1 DEF OrderInv, IInv, TypeInv, TypeOK, OperationsTypeOK, DirectorTypeOK
<1>2. Deploys = {} /\ Deletes = {} /\ Deletions = {}
  BY <1>1 DEF Deploys, Deletes, Deletions, Unused, ActiveTasks, Active
<1>3. ASSUME NEW r \in Requests PROVE Own[r] = {}
  <2>1. Own[r] \subseteq TaskId /\ \A t \in Own[r] : t <= lastTask
    BY OwnTasks DEF OrderInv
  <2> QED BY <2>1, DirectorAssumption DEF TaskId
<1> QED BY <1>2, <1>3

\* What deletes, with errands or without, has a context id or has none.
LEMMA DeleteContexts ==
  ASSUME NEW r \in Requests, type[r] \in DeleteTypes
  PROVE  /\ r \in Contexts <=> PreErrands > 0
         /\ HasContext(r) <=> PreErrands > 0
<1>1. HasContext(r) <=> PreErrands > 0
  BY DEF HasContext, DeleteTypes
<1> QED BY <1>1 DEF Contexts

\* From its check until it has started its own task a handler sees no deploy, nor the delete of
\* a plan without errands (task.go:239).
LEMMA CheckedAlone ==
  ASSUME OrderInv, DeletesLast, NEW r \in Requests, pc[r] \in AfterCheck
  PROVE  Deploys = {} /\ (PreErrands = 0 => Deletes = {})
<1>1. \A t \in TaskId : ~(Active(t) /\ StartedUnderLock(t))
  BY DEF OrderInv, IInv, NothingRunning
<1>2. Deploys = {}
  BY <1>1 DEF Deploys, ActiveTasks, StartedUnderLock
<1>3. PreErrands = 0 => Deletes = {}
  <2>1. PreErrands = 0 => \A t \in Deletes : tasks[t].ctx = NoRequest
    BY DEF DeletesLast, Deletes, ActiveTasks, KindOf
  <2> QED BY <1>1, <2>1 DEF Deletes, ActiveTasks, StartedUnderLock
<1> QED BY <1>2, <1>3

\* A handler's step keeps all of it: it deploys where nothing is deleted, or will be.
LEMMA HandlerKeepsFinal ==
  ASSUME FinalInv, NoLateDeploys, NEW r \in Requests, HandlerStep(r) \/ HandlerFails(r),
         UNCHANGED <<poll, report>>
  PROVE  FinalInv'
<1>0. OrderInv /\ SentInv /\ StillDeployed /\ DeletesLast /\ NoDeployBeside /\ DeletedIsGone
      /\ IInv /\ TasksInv
  BY DEF FinalInv, OrderInv
<1>1. OrderInv' /\ (UNCHANGED taskViews \/ Starts(r))
  BY <1>0, HandlerKeepsOrder
<1>2. /\ pc[r] \notin Ended \cup {"unsent"} /\ pc'[r] # "unsent"
      /\ UNCHANGED <<type, deployed>>
      /\ \A q \in Requests \ {r} : pc'[q] = pc[q]
      /\ pc[r] \in StartedPcs => pc'[r] \in StartedPcs
  BY <1>0, HandlerDoes
<1>3. \/ /\ UNCHANGED <<tasks, lastTask>>
         /\ type[r] \in {"update", "upgrade"} /\ pc'[r] \in {"secrets", "configs", "deploy"} =>
              deployed \/ pc[r] \in {"secrets", "configs"}
      \/ /\ pc[r] = "deploy" /\ type[r] \in {"create", "update", "upgrade"}
         /\ pc'[r] \in StartedPcs /\ StartTask("deploy", BoshContextID(r), 0)
      \/ /\ deployed /\ type[r] = "recreate"
         /\ pc'[r] \in StartedPcs /\ StartTask("recreate", BoshContextID(r), 0)
      \/ /\ deployed /\ pc[r] = "errand" /\ type[r] \in DeleteTypes /\ PreErrands > 0
         /\ pc'[r] \in StartedPcs /\ StartTask("errand", r, 1)
      \/ /\ deployed /\ pc[r] = "delete" /\ type[r] \in DeleteTypes /\ PreErrands = 0
         /\ pc'[r] \in StartedPcs /\ StartTask("delete", NoRequest, 0)
  BY <1>0, HandlerDoes
<1>4. \A q \in Requests : report'[q] # "none" => pc'[q] = "accepted"
  BY <1>0, <1>2 DEF SentInv, Ended
<1>5. \A q \in Requests : HasContext(q)' = HasContext(q)
  BY <1>2 DEF HasContext
<1>6. Contexts' = Contexts
  BY <1>5 DEF Contexts
<1>7. \A p \in Pollers :
        /\ poll'[p].at = "delete" => type'[poll'[p].req] \in DeleteTypes
        /\ poll'[p].at = "errand" /\ type'[poll'[p].req] \in DeleteTypes => poll'[p].step <= PreErrands
  BY <1>0, <1>2 DEF DeletesLast
<1>8. CASE UNCHANGED <<tasks, lastTask>>
  <2>1. /\ KindOf' = KindOf /\ Deploys' = Deploys /\ Deletes' = Deletes /\ Deletions' = Deletions
    BY <1>8, SameViews
  <2>2. lastTask \in Nat
    BY <1>0 DEF IInv, TypeInv, TypeOK, OperationsTypeOK, DirectorTypeOK
  <2>3. Own' = Own /\ StepOf' = StepOf
    BY <1>1, <1>8, <2>2 DEF taskViews, Starts
  <2>4. SentInv'
    BY <1>0, <1>2, <1>4, <1>8 DEF SentInv
  <2>5. StillDeployed'
    <3>1. pc[r] = "deploy" /\ pc'[r] \in {"secrets", "configs", "deploy"} => deployed \/ type[r] = "create" \/ type[r] = "recreate"
      BY <1>0 DEF StillDeployed, IInv, TypeInv, FitsType, Fits
    <3>2. type[r] \in {"update", "upgrade"} /\ pc'[r] \in {"secrets", "configs", "deploy"} => deployed
      BY <1>0, <1>3, <3>1, <1>8, <2>2 DEF StillDeployed, StartTask
    <3> QED BY <1>0, <1>2, <3>2 DEF StillDeployed
  <2>6. DeletesLast'
    BY <1>0, <1>2, <1>6, <1>7, <1>8, <2>1, <2>3 DEF DeletesLast
  <2>7. NoDeployBeside'
    BY <1>0, <1>2, <1>6, <2>1, <2>3 DEF NoDeployBeside
  <2>8. DeletedIsGone'
    BY <1>0, <1>2, <2>1 DEF DeletedIsGone
  <2> QED BY <1>1, <2>4, <2>5, <2>6, <2>7, <2>8 DEF FinalInv
<1>9. ASSUME NEW kind \in {"deploy", "recreate", "delete", "errand"}, NEW c, NEW step,
             StartTask(kind, c, step), pc'[r] \in StartedPcs,
             type[r] # "create" => deployed, kind # "deploy" => deployed /\ type[r] # "create",
             kind = "delete" => c = NoRequest /\ PreErrands = 0,
             type[r] \in DeleteTypes /\ PreErrands > 0 => kind = "errand" /\ step = 1,
             type[r] \in DeleteTypes /\ PreErrands = 0 => kind = "delete",
             kind = "deploy" => /\ type[r] \notin DeleteTypes /\ Deletes = {} /\ Deletions = {}
                                /\ \A q \in Contexts : type[q] \in DeleteTypes => Own[q] = {},
             kind \in {"errand", "delete"} => Deploys = {}
      PROVE  FinalInv'
  <2>0. PICK n : n = lastTask + 1
    OBVIOUS
  <2>1. /\ n \in TaskId /\ lastTask' = n /\ n # 0
        /\ KindOf'[n] = kind /\ \A t \in TaskId \ {n} : KindOf'[t] = KindOf[t]
        /\ tasks'[n].ctx = c /\ tasks'[n].step = step
        /\ \A t \in TaskId \ {n} : tasks'[t] = tasks[t]
        /\ Deploys' = IF kind = "deploy" THEN Deploys \cup {n} ELSE Deploys
        /\ Deletes' = IF kind = "delete" THEN Deletes \cup {n} ELSE Deletes
        /\ Deletions' = Deletions
    BY <1>0, <1>9, <2>0, NewViews
  <2>2. Starts(r)
    <3>1. lastTask \in Nat
      BY <1>0 DEF IInv, TypeInv, TypeOK, OperationsTypeOK, DirectorTypeOK
    <3> QED BY <1>1, <2>0, <2>1, <3>1 DEF taskViews
  <2>3. /\ n \notin Own[r] /\ Own'[r] = Own[r] \cup {n}
        /\ \A q \in Requests \ {r} : Own'[q] = Own[q] /\ n \notin Own[q]
        /\ \A q \in Requests : Own[q] \subseteq TaskId
    BY <1>0, <2>0, <2>2, OneMore, OwnTasks
  <2>4. StepOf'[n] = step /\ \A t \in TaskId \ {n} : StepOf'[t] = StepOf[t]
    BY <2>1 DEF StepOf
  <2>5. SentInv'
    <3>1. ASSUME NEW q \in Requests, type'[q] = "create", pc'[q] \notin StartedPcs PROVE FALSE
      <4>1. q # r /\ pc[q] \notin StartedPcs /\ type[q] = "create"
        BY <1>2, <1>9, <3>1
      <4>2. type[r] # "create" /\ ~deployed
        BY <1>0, <4>1 DEF SentInv
      <4> QED BY <1>9, <4>2
    <3>2. ~\A q \in Requests : pc'[q] = "unsent"
      BY <1>2
    <3> QED BY <1>0, <1>2, <1>4, <3>1, <3>2 DEF SentInv
  <2>6. StillDeployed'
    BY <1>0, <1>2, <1>9 DEF StillDeployed, StartedPcs
  <2>7. DeletesLast'
    <3>1. \A t \in TaskId : KindOf'[t] = "delete" /\ PreErrands = 0 => tasks'[t].ctx = NoRequest
      BY <1>0, <1>9, <2>1 DEF DeletesLast
    <3>2. ASSUME NEW q \in Requests, type[q] \in DeleteTypes, NEW t \in Own'[q],
                 q \in Contexts => StepOf'[t] = PreErrands + 1
          PROVE  KindOf'[t] = "delete"
      <4>1. CASE t = n
        <5>1. q = r
          BY <2>3, <3>2, <4>1
        <5>2. PreErrands = 0
          BY <1>9, <2>4, <3>2, <4>1, <5>1, DeleteContexts, OperationsAssumption
        <5> QED BY <1>9, <2>1, <3>2, <4>1, <5>1, <5>2
      <4>2. CASE t # n
        BY <1>0, <2>1, <2>3, <2>4, <3>2, <4>2 DEF DeletesLast
      <4> QED BY <4>1, <4>2
    <3> QED BY <1>2, <1>6, <1>7, <3>1, <3>2 DEF DeletesLast
  <2>8. NoDeployBeside'
    <3>1. Deploys' # {} => Deletes' = {} /\ Deletions' = {}
      BY <1>0, <1>9, <2>1 DEF NoDeployBeside
    <3>2. ASSUME NEW q \in Contexts, type[q] \in DeleteTypes, Own'[q] # {} PROVE Deploys' = {}
      <4>1. q \in Requests
        BY <3>2 DEF Contexts
      <4>2. CASE q = r
        <5>1. kind \in {"errand", "delete"}
          BY <1>9, <3>2, <4>2, OperationsAssumption
        <5> QED BY <1>9, <2>1, <5>1
      <4>3. CASE q # r
        <5>1. Own[q] # {}
          BY <2>3, <3>2, <4>1, <4>3
        <5> QED BY <1>0, <1>9, <2>1, <3>2, <5>1 DEF NoDeployBeside
      <4> QED BY <4>2, <4>3
    <3> QED BY <1>2, <1>6, <3>1, <3>2 DEF NoDeployBeside
  <2>9. DeletedIsGone'
    BY <1>0, <1>2, <2>1 DEF DeletedIsGone
  <2> QED BY <1>1, <2>5, <2>6, <2>7, <2>8, <2>9 DEF FinalInv
<1>10. CASE /\ pc[r] = "deploy" /\ type[r] \in {"create", "update", "upgrade"}
            /\ pc'[r] \in StartedPcs /\ StartTask("deploy", BoshContextID(r), 0)
  <2>1. CASE type[r] = "create"
    <3>1. lastTask = 0
      BY <1>0, <1>10, <2>1 DEF SentInv, StartedPcs
    <3>2. Deletes = {} /\ Deletions = {} /\ \A q \in Contexts : Own[q] = {}
      BY <1>0, <3>1, NoTasksYet DEF Contexts
    <3> QED BY <1>9, <1>10, <2>1, <3>2 DEF DeleteTypes
  <2>2. CASE type[r] # "create"
    <3>1. type[r] \in {"update", "upgrade"} /\ deployed
      BY <1>0, <1>10, <2>2 DEF StillDeployed
    <3>2. PreErrands = 0
      BY <1>0, <3>1 DEF SentInv, NoLateDeploys
    <3>3. Deletes = {} /\ Deletions = {}
      BY <1>0, <1>10, <3>1, <3>2, CheckedAlone DEF AfterCheck, DeletedIsGone
    <3>4. \A q \in Contexts : type[q] \notin DeleteTypes
      BY <3>2, DeleteContexts DEF Contexts
    <3> QED BY <1>9, <1>10, <3>1, <3>3, <3>4 DEF DeleteTypes
  <2> QED BY <2>1, <2>2
<1>11. CASE /\ deployed /\ type[r] = "recreate"
            /\ pc'[r] \in StartedPcs /\ StartTask("recreate", BoshContextID(r), 0)
  BY <1>9, <1>11 DEF DeleteTypes
<1>12. CASE /\ deployed /\ pc[r] = "errand" /\ type[r] \in DeleteTypes /\ PreErrands > 0
            /\ pc'[r] \in StartedPcs /\ StartTask("errand", r, 1)
  <2>1. Deploys = {}
    BY <1>0, <1>12, CheckedAlone DEF AfterCheck
  <2> QED BY <1>9, <1>12, <2>1, OperationsAssumption DEF DeleteTypes
<1>13. CASE /\ deployed /\ pc[r] = "delete" /\ type[r] \in DeleteTypes /\ PreErrands = 0
            /\ pc'[r] \in StartedPcs /\ StartTask("delete", NoRequest, 0)
  <2>1. Deploys = {}
    BY <1>0, <1>13, CheckedAlone DEF AfterCheck
  <2> QED BY <1>9, <1>13, <2>1, OperationsAssumption DEF DeleteTypes
<1> QED BY <1>3, <1>8, <1>10, <1>11, <1>12, <1>13

\* What starts and ends no task keeps what is known of tasks.
LEMMA NoTaskKeepsFinal ==
  ASSUME FinalInv, OrderInv', UNCHANGED <<tasks, lastTask, deployed, type, opTask>>,
         \A q \in Requests : pc'[q] = pc[q] \/ (pc'[q] = "lost" /\ pc[q] \notin Ended \cup {"unsent"}),
         \A q \in Requests : report'[q] # report[q] => pc[q] = "accepted",
         \A q \in Requests : type[q] \in DeleteTypes /\ report'[q] = "succeeded" => Deletions # {},
         \A p \in Pollers :
           /\ poll'[p].at \in {"configs", "secrets"} => Deletions # {}
           /\ poll'[p].at = "delete" => type[poll'[p].req] \in DeleteTypes
           /\ poll'[p].at = "errand" /\ type[poll'[p].req] \in DeleteTypes => poll'[p].step <= PreErrands
  PROVE  FinalInv'
<1>0. SentInv /\ StillDeployed /\ DeletesLast /\ NoDeployBeside /\ DeletedIsGone
  BY DEF FinalInv
<1>1. KindOf' = KindOf /\ Deploys' = Deploys /\ Deletes' = Deletes /\ Deletions' = Deletions
  BY SameViews
<1>2. Own' = Own /\ StepOf' = StepOf /\ Contexts' = Contexts
  BY SameTasks DEF taskViews
<1>3. SentInv'
  <2>1. \A q \in Requests : report'[q] # "none" => pc'[q] = "accepted"
    BY <1>0 DEF SentInv, Ended
  <2>2. \A q \in Requests : /\ pc'[q] = "unsent" <=> pc[q] = "unsent"
                            /\ pc'[q] \notin StartedPcs => pc[q] \notin StartedPcs
    BY DEF StartedPcs
  <2> QED BY <1>0, <2>1, <2>2 DEF SentInv
<1>4. StillDeployed'
  BY <1>0 DEF StillDeployed
<1>5. DeletesLast'
  BY <1>0, <1>1, <1>2 DEF DeletesLast
<1>6. NoDeployBeside' /\ DeletedIsGone'
  BY <1>0, <1>1, <1>2 DEF NoDeployBeside, DeletedIsGone
<1> QED BY <1>3, <1>4, <1>5, <1>6 DEF FinalInv

\* What a client sends has no task yet.
LEMMA SendKeepsFinal ==
  ASSUME FinalInv, NEW r \in Requests, Send(r)
  PROVE  FinalInv'
<1>0. OrderInv /\ SentInv /\ StillDeployed /\ DeletesLast /\ NoDeployBeside /\ DeletedIsGone
      /\ IInv /\ TasksInv /\ PathInv
  BY DEF FinalInv, OrderInv
<1>1. OrderInv' /\ Sent(r)
  BY <1>0, SendKeepsOrder
<1>2. PICK ty \in Types : MaySend(ty) /\ type' = [type EXCEPT ![r] = ty]
                          /\ Goto(r, IF ty = "update" THEN "updateClient" ELSE "lock")
  BY DEF Send
<1>3. /\ pc[r] = "unsent" /\ pc'[r] \in {"updateClient", "lock"} /\ type'[r] = ty
      /\ \A q \in Requests \ {r} : pc'[q] = pc[q] /\ type'[q] = type[q]
      /\ UNCHANGED <<tasks, lastTask, deployed, poll, report>>
  BY <1>0, <1>2 DEF Send, Goto, directorVars, IInv, TypeInv, TypeOK, OperationsTypeOK
<1>4. KindOf' = KindOf /\ Deploys' = Deploys /\ Deletes' = Deletes /\ Deletions' = Deletions
  BY <1>3, SameViews
<1>5. /\ Own' = Own /\ Own[r] = {} /\ StepOf' = StepOf
      /\ \A q \in Requests \ {r} : q \in Contexts' <=> q \in Contexts
  <2>1. Own[r] = {}
    BY <1>0, <1>3, OwnTasks DEF StartedPcs
  <2>2. \A q \in Requests \ {r} : HasContext(q)' = HasContext(q)
    BY <1>3 DEF HasContext
  <2> QED BY <1>1, <1>3, <2>1, <2>2 DEF Sent, StepOf, Contexts
<1>6. SentInv'
  <2>1. ty = "create" => /\ ~deployed /\ lastTask = 0
                         /\ \A q \in Requests : type[q] = "none"
    BY <1>0, <1>2 DEF MaySend, SentInv, PathInv
  <2>2. \A q \in Requests : report'[q] # "none" => pc'[q] = "accepted"
    BY <1>0, <1>3 DEF SentInv
  <2>3. \A q, s \in Requests : type'[q] = "create" /\ type'[s] = "create" => q = s
    BY <1>0, <1>3, <2>1 DEF SentInv
  <2>4. \A q \in Requests : type'[q] = "create" /\ pc'[q] \notin StartedPcs => ~deployed /\ lastTask = 0
    BY <1>0, <1>3, <2>1 DEF SentInv
  <2> QED BY <1>0, <1>2, <1>3, <2>2, <2>3, <2>4 DEF SentInv
<1>7. StillDeployed'
  BY <1>0, <1>3 DEF StillDeployed
<1>8. DeletesLast'
  <2>1. \A p \in Pollers : poll[p].at # "idle" => poll[p].req # r
    BY <1>0, <1>3 DEF IInv, PollsFollow
  <2>2. \A p \in Pollers : poll[p].at \in {"errand", "delete"} => type'[poll[p].req] = type[poll[p].req]
    BY <1>0, <1>3, <2>1 DEF IInv, PollsFollow
  <2> QED BY <1>0, <1>3, <1>4, <1>5, <2>2 DEF DeletesLast
<1>9. NoDeployBeside'
  BY <1>0, <1>3, <1>4, <1>5 DEF NoDeployBeside, Contexts
<1>10. DeletedIsGone'
  <2>1. report[r] = "none"
    BY <1>0, <1>3 DEF SentInv
  <2> QED BY <1>0, <1>3, <1>4, <2>1 DEF DeletedIsGone
<1> QED BY <1>1, <1>6, <1>7, <1>8, <1>9, <1>10 DEF FinalInv

\* What follows once the last task of an operation is known.
LEMMA ConcludeKeepsFinal ==
  ASSUME FinalInv, OrderInv', NEW p \in Pollers, NEW r \in Requests, NEW t, NEW state,
         Conclude(p, r, t, state), pc[r] = "accepted",
         state \in {"complete", "incomplete", "failed"},
         state = "complete" /\ type[r] \in DeleteTypes => Deletions # {},
         UNCHANGED <<tasks, lastTask, deployed, type, opTask, pc>>
  PROVE  FinalInv'
<1>0. OrderInv /\ SentInv /\ DeletesLast /\ DeletedIsGone
  BY DEF FinalInv
<1>1. poll \in [Pollers -> Poll] /\ report \in [Requests -> Reports]
  BY <1>0 DEF OrderInv, IInv, TypeInv, TypeOK
<1>2. CASE cleanUpDue(r, state)
  <2>1. /\ poll'[p].at = "configs" /\ report' = report /\ Deletions # {}
        /\ \A q \in Pollers \ {p} : poll'[q] = poll[q]
    BY <1>1, <1>2 DEF Conclude, cleanUpDue
  <2> QED BY <1>0, <2>1, NoTaskKeepsFinal DEF DeletesLast, DeletedIsGone
<1>3. CASE ~cleanUpDue(r, state)
  <2>1. poll' = [poll EXCEPT ![p] = Idle] /\ Report(r, lastOperationState(state))
    BY <1>3 DEF Conclude
  <2>2. poll'[p].at = "idle" /\ \A q \in Pollers \ {p} : poll'[q] = poll[q]
    BY <1>1, <2>1 DEF Idle
  <2>3. lastOperationState(state) = "succeeded" => state = "complete"
    BY DEF lastOperationState
  <2>4. /\ \A q \in Requests : report'[q] # report[q] => q = r
        /\ report'[r] \in {report[r], lastOperationState(state)}
    BY <1>1, <2>1 DEF Report
  <2>5. type[r] \in DeleteTypes /\ report'[r] = "succeeded" => Deletions # {}
    BY <1>0, <1>3, <2>3, <2>4 DEF cleanUpDue, DeletedIsGone
  <2>6. \A q \in Requests : type[q] \in DeleteTypes /\ report'[q] = "succeeded" => Deletions # {}
    BY <1>0, <2>4, <2>5 DEF DeletedIsGone
  <2> QED BY <1>0, <2>2, <2>4, <2>6, NoTaskKeepsFinal DEF DeletesLast, DeletedIsGone
<1> QED BY <1>2, <1>3

\* A poll that arrives starts no task, and tells no more than there is to see.
LEMMA LastOperationKeepsFinal ==
  ASSUME FinalInv, ConcurrentPolls = FALSE, NEW p \in Pollers, NEW r \in Requests, LastOperation(p, r)
  PROVE  FinalInv'
<1>0. OrderInv /\ SentInv /\ DeletesLast /\ DeletedIsGone /\ IInv /\ TasksInv /\ ChainInv
  BY DEF FinalInv, OrderInv
<1>1. PICK next : next = LifeCycleRunnerGetTask(r)
  OBVIOUS
<1>2. /\ pc[r] = "accepted" /\ opTask[r] # 0
      /\ UNCHANGED <<tasks, lastTask, deployed, type, opTask, pc>>
      /\ poll \in [Pollers -> Poll]
  BY <1>0 DEF LastOperation, directorVars, operationVars, IInv, TypeInv, TypeOK
<1>3. OrderInv'
  BY <1>0, LastOperationKeepsOrder
<1>4. /\ next.move \in {"answer", "error", "errand", "delete"}
      /\ next.move = "delete" => type[r] \in DeleteTypes
      /\ next.move = "errand" /\ type[r] \in DeleteTypes => next.step <= PreErrands
  BY <1>0, <1>1, <1>2, RunnerAnswers, RunnerTypes DEF IInv
<1>5. CASE next.move = "answer"
  <2>1. Conclude(p, r, next.task, next.state)
    BY <1>1, <1>5 DEF LastOperation
  <2>2. /\ next.state \in {"complete", "incomplete", "failed"}
        /\ next.state = "complete" /\ type[r] \in DeleteTypes => Deletions # {}
    BY <1>0, <1>1, <1>2, <1>5, RunnerSees, CompleteIsDone
  <2> QED BY <1>2, <1>3, <2>1, <2>2, ConcludeKeepsFinal
<1>6. CASE next.move = "error"
  <2>1. UNCHANGED <<poll, report>>
    BY <1>1, <1>6 DEF LastOperation
  <2> QED BY <1>0, <1>2, <1>3, <2>1, NoTaskKeepsFinal DEF DeletesLast, DeletedIsGone
<1>7. CASE next.move \in {"errand", "delete"}
  <2>1. /\ poll' = [poll EXCEPT ![p] = [at |-> next.move, req |-> r, task |-> 0, step |-> next.step]]
        /\ report' = report
    BY <1>1, <1>7 DEF LastOperation
  <2>2. /\ poll'[p].at = next.move /\ poll'[p].req = r /\ poll'[p].step = next.step
        /\ \A q \in Pollers \ {p} : poll'[q] = poll[q]
    BY <1>2, <2>1
  <2> QED BY <1>0, <1>2, <1>3, <1>4, <1>7, <2>1, <2>2, NoTaskKeepsFinal DEF DeletesLast, DeletedIsGone
<1> QED BY <1>4, <1>5, <1>6, <1>7

\* The next step a poll starts: an errand before the last step of a delete, and then the delete.
LEMMA PollStartKeepsFinal ==
  ASSUME FinalInv, NEW p \in Pollers, NEW kind \in {"errand", "delete"}, poll[p].at = kind,
         NEW step \in Nat, step = StepDue(p), StartTask(kind, poll[p].req, step),
         poll' = [poll EXCEPT ![p].at = "look", ![p].task = lastTask + 1],
         UNCHANGED <<type, opTask, pc, deployed, report>>, IInv'
  PROVE  FinalInv'
<1>0. OrderInv /\ SentInv /\ StillDeployed /\ DeletesLast /\ NoDeployBeside /\ DeletedIsGone
      /\ IInv /\ TasksInv /\ PollInv
  BY DEF FinalInv, OrderInv
<1>1. PICK r \in Requests : r = poll[p].req /\ pc[r] = "accepted"
  BY <1>0 DEF IInv, PollsFollow
<1>2. OrderInv' /\ Starts(r)
  BY <1>0, <1>1, PollStarts
<1>3. r \in Contexts /\ Own[r] # {} /\ Contexts' = Contexts
  BY <1>0, <1>1, <1>2 DEF PollInv, Serves, Starts
<1>4. PICK n : n = lastTask + 1
  OBVIOUS
<1>5. /\ n \in TaskId /\ lastTask' = n /\ n # 0
      /\ KindOf'[n] = kind /\ \A t \in TaskId \ {n} : KindOf'[t] = KindOf[t]
      /\ tasks'[n].ctx = r /\ tasks'[n].step = step
      /\ \A t \in TaskId \ {n} : tasks'[t] = tasks[t]
      /\ Deploys' = Deploys
      /\ Deletes' = IF kind = "delete" THEN Deletes \cup {n} ELSE Deletes
      /\ Deletions' = Deletions
  BY <1>0, <1>1, <1>4, NewViews
<1>6. /\ n \notin Own[r] /\ Own'[r] = Own[r] \cup {n}
      /\ \A q \in Requests \ {r} : Own'[q] = Own[q] /\ n \notin Own[q]
      /\ \A q \in Requests : Own[q] \subseteq TaskId
  BY <1>0, <1>2, <1>4, OneMore, OwnTasks
<1>7. StepOf'[n] = step /\ \A t \in TaskId \ {n} : StepOf'[t] = StepOf[t]
  BY <1>5 DEF StepOf
<1>8. /\ kind = "delete" => type[r] \in DeleteTypes
      /\ kind = "errand" /\ type[r] \in DeleteTypes => step <= PreErrands
      /\ type[r] \in DeleteTypes => PreErrands > 0
  <2>1. kind = "errand" => step = poll[p].step
    BY DEF StepDue
  <2> QED BY <1>0, <1>1, <1>3, <2>1, DeleteContexts DEF DeletesLast
<1>9. poll'[p].at = "look" /\ \A q \in Pollers \ {p} : poll'[q] = poll[q]
  <2>1. poll \in [Pollers -> Poll]
    BY <1>0 DEF IInv, TypeInv, TypeOK
  <2> QED BY <2>1 DEF Poll
<1>10. SentInv'
  <2>1. ASSUME NEW q \in Requests, type[q] = "create", pc[q] \notin StartedPcs PROVE FALSE
    <3>1. lastTask = 0
      BY <1>0, <2>1 DEF SentInv
    <3> QED BY <1>0, <1>3, <3>1, NoTasksYet
  <2>2. pc[r] # "unsent"
    BY <1>1
  <2> QED BY <1>0, <2>1, <2>2 DEF SentInv
<1>11. StillDeployed'
  BY <1>0 DEF StillDeployed
<1>12. DeletesLast'
  <2>1. \A t \in TaskId : KindOf'[t] = "delete" /\ PreErrands = 0 => tasks'[t].ctx = NoRequest
    BY <1>0, <1>5, <1>8, OperationsAssumption DEF DeletesLast
  <2>2. ASSUME NEW q \in Requests, type[q] \in DeleteTypes, NEW t \in Own'[q],
               q \in Contexts => StepOf'[t] = PreErrands + 1
        PROVE  KindOf'[t] = "delete"
    <3>1. CASE t = n
      <4>1. q = r
        BY <1>6, <2>2, <3>1
      <4>2. step = PreErrands + 1
        BY <1>3, <1>7, <2>2, <3>1, <4>1
      <4>3. kind # "errand"
        BY <1>8, <2>2, <4>1, <4>2, OperationsAssumption
      <4> QED BY <1>5, <3>1, <4>3
    <3>2. CASE t # n
      BY <1>0, <1>5, <1>6, <1>7, <2>2, <3>2 DEF DeletesLast
    <3> QED BY <3>1, <3>2
  <2> QED BY <1>0, <1>3, <1>9, <2>1, <2>2 DEF DeletesLast
<1>13. NoDeployBeside'
  <2>1. Deploys' # {} => Deletes' = {} /\ Deletions' = {}
    BY <1>0, <1>3, <1>5, <1>8 DEF NoDeployBeside
  <2>2. \A q \in Contexts : type[q] \in DeleteTypes /\ Own'[q] # {} => Deploys' = {}
    BY <1>0, <1>3, <1>5, <1>6 DEF NoDeployBeside, Contexts
  <2> QED BY <1>3, <2>1, <2>2 DEF NoDeployBeside
<1>14. DeletedIsGone'
  BY <1>0, <1>5, <1>9 DEF DeletedIsGone
<1> QED BY <1>2, <1>10, <1>11, <1>12, <1>13, <1>14 DEF FinalInv

\* A poll that goes on keeps all of it (lifecycle_runner.go:123, 188, last_operation.go:149).
LEMMA PollKeepsFinal ==
  ASSUME FinalInv, NEW p \in Pollers, PollStep(p) \/ PollFails(p)
  PROVE  FinalInv'
<1> USE DEF directorVars, operationVars, resources
<1>0. OrderInv /\ SentInv /\ DeletesLast /\ DeletedIsGone /\ IInv /\ TasksInv /\ PollInv
  BY DEF FinalInv, OrderInv
<1>1. OrderInv' /\ IInv'
  BY <1>0, PollKeepsOrder, PollKeepsIInv DEF IInv
<1>2. poll[p].req \in Requests /\ pc[poll[p].req] = "accepted"
  BY <1>0, PollCalls DEF IInv
<1>3. PICK r \in Requests : r = poll[p].req /\ pc[r] = "accepted"
  BY <1>2
<1>4. /\ poll \in [Pollers -> Poll] /\ report \in [Requests -> Reports]
  BY <1>0 DEF IInv, TypeInv, TypeOK
<1> DEFINE Kept == UNCHANGED <<tasks, lastTask, deployed, type, opTask, pc>>
<1>5. ASSUME Kept, poll' = [poll EXCEPT ![p] = Idle],
             UNCHANGED report \/ Report(r, "failed") \/ (Report(r, "succeeded") /\ Deletions # {})
      PROVE  FinalInv'
  <2>1. poll'[p].at = "idle" /\ \A q \in Pollers \ {p} : poll'[q] = poll[q]
    BY <1>4, <1>5 DEF Idle
  <2>2. /\ \A q \in Requests : report'[q] # report[q] => q = r
        /\ report'[r] = "succeeded" => report[r] = "succeeded" \/ Deletions # {}
    BY <1>4, <1>5 DEF Report
  <2>3. \A q \in Requests : type[q] \in DeleteTypes /\ report'[q] = "succeeded" => Deletions # {}
    BY <1>0, <2>2 DEF DeletedIsGone
  <2> QED BY <1>0, <1>1, <1>3, <1>5, <2>1, <2>2, <2>3, NoTaskKeepsFinal DEF DeletesLast, DeletedIsGone
<1>6. CASE PollRunsErrand(p)
  <2>1. CASE /\ RunErrand(poll[p].req, poll[p].step)
             /\ poll' = [poll EXCEPT ![p].at = "look", ![p].task = lastTask + 1]
    <3>1. poll[p].at = "errand" /\ poll[p].step \in Nat /\ poll[p].step = StepDue(p)
      BY <1>4, <1>6 DEF PollRunsErrand, StepDue, Poll
    <3>2. PICK step \in Nat : step = poll[p].step
      BY <3>1
    <3>3. StartTask("errand", poll[p].req, step) /\ UNCHANGED <<type, opTask, pc, deployed, report>>
      BY <1>6, <2>1, <3>2 DEF PollRunsErrand, RunErrand
    <3> QED BY <1>1, <2>1, <3>1, <3>2, <3>3, PollStartKeepsFinal
  <2>2. CASE ~deployed /\ poll' = [poll EXCEPT ![p] = Idle] /\ UNCHANGED <<tasks, lastTask>>
    BY <1>5, <1>6, <2>2 DEF PollRunsErrand
  <2> QED BY <1>6, <2>1, <2>2 DEF PollRunsErrand
<1>7. CASE DeprovisionAfterAllErrand(p)
  <2>1. CASE deployed
    <3>1. poll[p].at = "delete" /\ PreErrands + 1 \in Nat /\ PreErrands + 1 = StepDue(p)
      BY <1>7, OperationsAssumption DEF DeprovisionAfterAllErrand, StepDue
    <3>2. PICK step \in Nat : step = PreErrands + 1
      BY <3>1
    <3>3. StartTask("delete", poll[p].req, step) /\ UNCHANGED <<type, opTask, pc, deployed, report>>
      BY <1>7, <2>1, <3>2 DEF DeprovisionAfterAllErrand, DeleteDeployment
    <3>4. poll' = [poll EXCEPT ![p].at = "look", ![p].task = lastTask + 1]
      BY <1>7, <2>1 DEF DeprovisionAfterAllErrand, DeleteTaskId
    <3> QED BY <1>1, <3>1, <3>2, <3>3, <3>4, PollStartKeepsFinal
  <2>2. CASE ~deployed
    <3>1. poll' = [poll EXCEPT ![p] = Idle] /\ Kept /\ UNCHANGED report
      BY <1>7, <2>2 DEF DeprovisionAfterAllErrand, DeleteDeployment
    <3> QED BY <1>5, <3>1
  <2> QED BY <2>1, <2>2
<1>8. CASE PollLooksAtNewTask(p)
  <2>1. poll[p].task \in ActiveTasks
    BY <1>0, <1>8 DEF PollLooksAtNewTask, PollInv, Serves
  <2>2. StateType(GetTask(poll[p].task)) = "incomplete"
    BY <2>1 DEF ActiveTasks, Active, GetTask, StateType
  <2>3. Conclude(p, r, poll[p].task, "incomplete") /\ Kept
    BY <1>3, <1>8, <2>2 DEF PollLooksAtNewTask
  <2> QED BY <1>1, <1>3, <2>3, ConcludeKeepsFinal
<1>9. CASE DeleteConfigs(p)
  <2>1. /\ poll'[p].at = "secrets" /\ \A q \in Pollers \ {p} : poll'[q] = poll[q]
        /\ report' = report /\ Kept
    BY <1>4, <1>9 DEF DeleteConfigs, Poll
  <2>2. Deletions # {}
    BY <1>0, <1>9 DEF DeleteConfigs, DeletedIsGone
  <2> QED BY <1>0, <1>1, <2>1, <2>2, NoTaskKeepsFinal DEF DeletesLast, DeletedIsGone
<1>10. CASE DeleteSecrets(p)
  BY <1>0, <1>3, <1>5, <1>10 DEF DeleteSecrets, DeletedIsGone
<1>11. CASE PollFails(p)
  BY <1>3, <1>5, <1>11 DEF PollFails
<1> QED BY <1>6, <1>7, <1>8, <1>9, <1>10, <1>11 DEF PollStep

\* The director deploys or deletes, never both.
LEMMA DirectorKeepsFinal ==
  ASSUME FinalInv, QuickTasks = FALSE, NoLateDeploys, NEW t \in TaskId, DirectorStep(t),
         UNCHANGED <<operationVars, poll, report>>
  PROVE  FinalInv'
<1>0. OrderInv /\ SentInv /\ StillDeployed /\ DeletesLast /\ NoDeployBeside /\ DeletedIsGone
  BY DEF FinalInv
<1>1. OrderInv'
  BY <1>0, DirectorKeepsOrder
<1>2. UNCHANGED <<type, pc, opTask, poll, report>>
  BY DEF operationVars
<1>3. /\ KindOf' = KindOf /\ lastTask' = lastTask
      /\ \A u \in TaskId : tasks'[u].ctx = tasks[u].ctx /\ tasks'[u].step = tasks[u].step
      /\ Deploys' \subseteq Deploys /\ Deletes' \subseteq Deletes
  BY <1>0, DirectorViews
<1>4. \/ /\ Deletions' = Deletions
         /\ deployed' = deployed \/ (deployed' = TRUE /\ Deploys # {})
      \/ t \in Deletes /\ Deletions' = Deletions \cup {t} /\ deployed' = FALSE
  BY <1>0, DirectorViews
<1>5. Own' = Own /\ StepOf' = StepOf /\ Contexts' = Contexts
  <2>1. UNCHANGED taskViews \/ \E u \in TaskId : Ends(u)
    BY <1>0, DirectorKeepsOrder
  <2> QED BY <2>1 DEF taskViews, Ends
<1>6. SentInv'
  <2>1. \A q \in Requests : type[q] = "create" /\ pc[q] \notin StartedPcs => deployed' = FALSE
    <3> SUFFICES ASSUME NEW q \in Requests, type[q] = "create", pc[q] \notin StartedPcs
                 PROVE  deployed' = FALSE
      OBVIOUS
    <3>1. ~deployed /\ lastTask = 0
      BY <1>0 DEF SentInv
    <3>2. Deploys = {} /\ deployed = FALSE
      BY <1>0, <3>1, NoTasksYet DEF OrderInv, IInv, TypeInv, TypeOK, OperationsTypeOK, DirectorTypeOK
    <3> QED BY <1>4, <3>2
  <2> QED BY <1>0, <1>2, <1>3, <2>1 DEF SentInv
<1>7. StillDeployed'
  <2> SUFFICES ASSUME NEW q \in Requests, type[q] \in {"update", "upgrade"},
                      pc[q] \in {"secrets", "configs", "deploy"}
               PROVE  deployed'
    BY <1>2 DEF StillDeployed
  <2>1. deployed
    BY <1>0 DEF StillDeployed
  <2>2. PreErrands = 0
    BY <1>0 DEF SentInv, NoLateDeploys
  <2>3. Deletes = {}
    BY <1>0, <2>2, CheckedAlone DEF AfterCheck
  <2> QED BY <1>4, <2>1, <2>3
<1>8. DeletesLast'
  BY <1>0, <1>2, <1>3, <1>5 DEF DeletesLast
<1>9. NoDeployBeside'
  <2>1. Deploys # {} => Deletions' = Deletions
    BY <1>0, <1>4 DEF NoDeployBeside
  <2> QED BY <1>0, <1>2, <1>3, <1>5, <2>1 DEF NoDeployBeside
<1>10. DeletedIsGone'
  <2>1. Deletions' # {} => ~deployed'
    BY <1>0, <1>4 DEF DeletedIsGone, NoDeployBeside
  <2>2. Deletions # {} => Deletions' # {}
    BY <1>4
  <2> QED BY <1>0, <1>2, <2>1, <2>2 DEF DeletedIsGone
<1> QED BY <1>1, <1>6, <1>7, <1>8, <1>9, <1>10 DEF FinalInv

\* Every step keeps all of it.
LEMMA StepKeepsFinal ==
  ASSUME ConcurrentPolls = FALSE, QuickTasks = FALSE, NoLateDeploys, FinalInv, [Next]_vars
  PROVE  FinalInv'
<1> USE DEF directorVars, operationVars, resources
<1>0. OrderInv /\ OrderInv' /\ DeletesLast /\ DeletedIsGone
  BY StepKeepsOrder DEF FinalInv
<1>1. ASSUME UNCHANGED <<tasks, lastTask, deployed, type, pc, opTask, poll, report>> PROVE FinalInv'
  BY <1>0, <1>1, NoTaskKeepsFinal DEF DeletesLast, DeletedIsGone
<1>2. CASE UNCHANGED vars \/ Quiescent
  BY <1>1, <1>2 DEF vars, Quiescent
<1>3. ASSUME NEW r \in Requests, Send(r) PROVE FinalInv'
  BY <1>3, SendKeepsFinal
<1>4. ASSUME NEW r \in Requests, HandlerStep(r) \/ HandlerFails(r), UNCHANGED <<poll, report>>
      PROVE  FinalInv'
  BY <1>4, HandlerKeepsFinal
<1>5. ASSUME NEW r \in Requests, Abandon(r) PROVE FinalInv'
  BY <1>1, <1>5 DEF Abandon
<1>6. ASSUME NEW p \in Pollers, NEW r \in Requests, LastOperation(p, r) PROVE FinalInv'
  BY <1>6, LastOperationKeepsFinal
<1>7. ASSUME NEW p \in Pollers, PollStep(p) \/ PollFails(p) PROVE FinalInv'
  BY <1>7, PollKeepsFinal
<1>8. ASSUME NEW t \in TaskId, DirectorStep(t), UNCHANGED <<operationVars, poll, report>> PROVE FinalInv'
  BY <1>8, DirectorKeepsFinal
<1>9. CASE RestartBroker
  <2>1. /\ UNCHANGED <<tasks, lastTask, deployed, type, opTask, report>>
        /\ \A q \in Requests : pc'[q] = pc[q] \/ (pc'[q] = "lost" /\ pc[q] \notin Ended \cup {"unsent"})
        /\ \A p \in Pollers : poll'[p].at = "idle"
    BY <1>9 DEF RestartBroker, InFlight, Idle
  <2> QED BY <1>0, <2>1, NoTaskKeepsFinal DEF DeletedIsGone
<1> QED BY <1>2, <1>3, <1>4, <1>5, <1>6, <1>7, <1>8, <1>9 DEF Next

\* In the beginning nothing is sent and nothing deleted.
LEMMA InitFinal == Init => FinalInv
<1> SUFFICES ASSUME Init PROVE FinalInv
  OBVIOUS
<1>1. OrderInv
  BY InitOrder
<1>2. /\ lastTask = 0 /\ \A r \in Requests : pc[r] = "unsent" /\ type[r] = "none" /\ report[r] = "none"
      /\ \A p \in Pollers : poll[p].at = "idle"
  BY DEF Init, OperationsInit, DirectorInit, Idle
<1>3. Deploys = {} /\ Deletes = {} /\ Deletions = {} /\ \A r \in Requests : Own[r] = {}
  BY <1>1, <1>2, NoTasksYet
<1>4. SentInv /\ StillDeployed
  BY <1>2 DEF SentInv, StillDeployed
<1>5. DeletesLast
  <2>1. \A t \in TaskId : KindOf[t] = "none"
    BY DEF Init, OperationsInit, DirectorInit, KindOf, Unused
  <2> QED BY <1>2, <2>1 DEF DeletesLast, DeleteTypes
<1>6. NoDeployBeside /\ DeletedIsGone
  BY <1>2, <1>3 DEF NoDeployBeside, DeletedIsGone
<1> QED BY <1>1, <1>4, <1>5, <1>6 DEF FinalInv

\* FinalInvHolds: deploys and deletes of an instance never wait or run side by side, and none of
\* the one follows the other (task.go:239, deprovision.go:136).
THEOREM FinalInvHolds ==
  ASSUME ConcurrentPolls = FALSE, QuickTasks = FALSE, NoLateDeploys
  PROVE  Spec => []FinalInv
<1>1. Init => FinalInv
  BY InitFinal
<1>2. FinalInv /\ [Next]_vars => FinalInv'
  BY StepKeepsFinal
<1> QED BY <1>1, <1>2, PTL DEF Spec

\* DeletionsAreFinal: a deletion that is reported as succeeded (last_operation.go:81) has deleted the
\* deployment, and nothing brings it back: no request that waited for the lock or comes later, no
\* client that gave up, no failing call and no restart.
THEOREM DeletionsAreFinal ==
  ASSUME ConcurrentPolls = FALSE, QuickTasks = FALSE, NoLateDeploys
  PROVE  Spec => []DeletionIsFinal
<1>1. FinalInv => DeletionIsFinal
  BY DEF FinalInv, DeletedIsGone, DeletionIsFinal
<1> QED BY <1>1, FinalInvHolds, PTL
-----------------------------------------------------------------------------
(* What a deployment needs is kept *)

\* A create is never cut off: its client waits for it, its calls return and the broker goes on.
CreatesEnd == "create" \notin Types \/ FaultKinds = {}

\* Where nothing goes wrong an operation that is over runs nothing, and a create is over before a
\* delete is sent.
Unbroken ==
  FaultKinds = {} =>
    /\ abandoned = {} /\ \A r \in Requests : pc[r] \notin {"lost", "deleteFailed"}
    /\ \A r \in Requests : Over(r) => Own[r] \cap ActiveTasks = {}
    /\ \A q, r \in Requests : type[q] = "create" /\ type[r] \in DeleteTypes => Over(q)

\* Polls go on for operations that are not reported to have ended.
PollsOpen == \A p \in Pollers : poll[p].at # "idle" => report[poll[p].req] \notin Terminal

\* What a delete cleans up after belongs to no deployment, there or on its way.
CleanedUp ==
  \A r \in Requests : pc[r] \in {"goneConfigs", "goneSecrets", "gone"} =>
    type[r] \in DeleteTypes /\ ~deployed /\ Deploys = {}

\* Only a create deploys what does not exist.
CreatesDeploy ==
  \A t \in Deploys : deployed \/ \E q \in Requests : type[q] = "create" /\ t \in Own[q]

\* A deployment, there or on its way, has what it needs; who is about to deploy has provided it.
Deployers == {"create", "update", "upgrade"}
Provided ==
  /\ deployed \/ Deploys # {} => configs /\ secrets
  /\ \A r \in Requests : type[r] \in Deployers =>
       /\ pc[r] = "configs" => secrets
       /\ pc[r] = "deploy" => configs /\ secrets

\* The inductive invariant of what deployments need.
KeepInv == FinalInv /\ Unbroken /\ PollsOpen /\ CleanedUp /\ CreatesDeploy /\ Provided
-----------------------------------------------------------------------------
\* What a handler does to configs and secrets, and how it comes to clean up or to fail.
LEMMA HandlerProvides ==
  ASSUME OrderInv, NEW r \in Requests, HandlerStep(r) \/ HandlerFails(r)
  PROVE  /\ configs' = configs \/ configs' = TRUE \/ (configs' = FALSE /\ pc[r] = "goneConfigs")
         /\ secrets' = secrets \/ secrets' = TRUE \/ (secrets' = FALSE /\ pc[r] = "goneSecrets")
         /\ type[r] \in Deployers =>
              /\ pc'[r] = "configs" => secrets' = TRUE
              /\ pc'[r] = "deploy" => configs' = TRUE /\ pc[r] = "configs" /\ secrets' = secrets
         /\ pc'[r] = "goneConfigs" => ~deployed /\ type[r] \in DeleteTypes
         /\ pc'[r] = "goneSecrets" => pc[r] = "goneConfigs"
         /\ pc'[r] = "gone" => pc[r] = "goneSecrets"
         /\ abandoned' = abandoned
         /\ FaultKinds = {} =>
              /\ pc'[r] \notin {"lost", "deleteFailed"}
              /\ pc'[r] \in {"failed", "gone"} /\ pc[r] # "deleteFailed" =>
                   pc[r] \notin StartedPcs /\ UNCHANGED <<tasks, lastTask>>
<1> USE DEF directorVars, resources, StartedPcs, Deployers
<1>0. IInv /\ TypeInv
  BY DEF OrderInv, IInv
<1>1. /\ pc \in [Requests -> HandlerPcs] /\ Fits(type[r], pc[r])
      /\ configs \in BOOLEAN /\ secrets \in BOOLEAN
  BY <1>0 DEF TypeInv, TypeOK, OperationsTypeOK, FitsType
<1>2. ASSUME NEW next, Goto(r, next) PROVE pc'[r] = next
  BY <1>1, <1>2 DEF Goto
<1>3. ASSUME NEW how, Reply(r, how) PROVE pc'[r] = how
  BY <1>2, <1>3 DEF Reply
<1> DEFINE Odd == {"goneConfigs", "goneSecrets", "gone", "lost", "deleteFailed", "failed"}
<1>4. ASSUME pc[r] \in Moves, Proceed(r)
      PROVE  /\ pc'[r] = Calls(type[r])[pc[r]] /\ type[r] \in OperationTypes
  BY <1>1, <1>2, <1>4 DEF Proceed, Fits, Moves
<1>5. ASSUME NEW ty \in OperationTypes, NEW at \in Moves, Fits(ty, at),
             ~(at = "deploy" /\ ty = "recreate")
      PROVE  /\ Calls(ty)[at] \notin Odd
             /\ Calls(ty)[at] = "configs" => at = "secrets"
             /\ Calls(ty)[at] = "deploy" /\ ty \in Deployers => at = "configs"
  <2> USE DEF Moves, Fits, OperationTypes, DeleteTypes
  <2>1. CASE ty = "create"
    <3>1. Calls(ty) = ProvisionCalls
      BY <2>1 DEF Calls
    <3> QED BY <1>5, <2>1, <3>1 DEF ProvisionCalls
  <2>2. CASE ty = "update"
    <3>1. Calls(ty) = UpdateCalls
      BY <2>2 DEF Calls
    <3> QED BY <1>5, <2>2, <3>1 DEF UpdateCalls
  <2>3. CASE ty = "upgrade"
    <3>1. Calls(ty) = UpgradeCalls
      BY <2>3 DEF Calls
    <3> QED BY <1>5, <2>3, <3>1 DEF UpgradeCalls
  <2>4. CASE ty = "recreate"
    <3>1. Calls(ty) = RecreateCalls
      BY <2>4 DEF Calls
    <3> QED BY <1>5, <2>4, <3>1 DEF RecreateCalls
  <2>5. CASE ty \in DeleteTypes
    <3>1. Calls(ty) = DeprovisionCalls
      BY <2>5 DEF Calls
    <3> QED BY <1>5, <2>5, <3>1 DEF DeprovisionCalls
  <2> QED BY <2>1, <2>2, <2>3, <2>4, <2>5
<1>6. ASSUME pc[r] \in Moves, Proceed(r), ~(pc[r] = "deploy" /\ type[r] = "recreate")
      PROVE  /\ pc'[r] \notin Odd
             /\ pc'[r] = "configs" => pc[r] = "secrets"
             /\ pc'[r] = "deploy" /\ type[r] \in Deployers => pc[r] = "configs"
  <2>1. pc'[r] = Calls(type[r])[pc[r]] /\ type[r] \in OperationTypes
    BY <1>4, <1>6
  <2> QED BY <1>1, <1>5, <1>6, <2>1
<1> HIDE DEF Odd
<1>7. CASE Acquire(r)
  <2>1. pc'[r] = Calls(type[r])["lock"] /\ type[r] \in OperationTypes /\ Fits(type[r], "lock")
    BY <1>1, <1>2, <1>7 DEF Acquire, Fits
  <2>2. pc'[r] \notin Odd /\ pc'[r] # "configs" /\ (type[r] \in Deployers => pc'[r] # "deploy")
    BY <1>5, <2>1 DEF Moves
  <2> QED BY <1>7, <2>2 DEF Acquire, Odd
<1>8. CASE GetServiceInstanceClientForUpdate(r)
  BY <1>2, <1>8 DEF GetServiceInstanceClientForUpdate
<1>9. CASE FindDeploymentToProvision(r)
  BY <1>3, <1>6, <1>9 DEF FindDeploymentToProvision, Moves, Odd
<1>10. CASE CreateClient(r)
  BY <1>6, <1>10 DEF CreateClient, Moves, Odd
<1>11. CASE AssertNoOperationsInProgress(r)
  BY <1>3, <1>6, <1>11 DEF AssertNoOperationsInProgress, Moves, Odd
<1>12. CASE GetDeploymentManifest(r)
  BY <1>3, <1>6, <1>12 DEF GetDeploymentManifest, Moves, Odd
<1>13. CASE BulkSet(r)
  BY <1>6, <1>13 DEF BulkSet, Moves, Odd
<1>14. CASE UpdateConfigs(r)
  BY <1>6, <1>14 DEF UpdateConfigs, Moves, Odd
<1>15. CASE DeployManifest(r)
  BY <1>6, <1>15 DEF DeployManifest, Moves, Odd
<1>16. CASE RecreateDeployment(r)
  <2>1. type[r] \notin Deployers /\ UNCHANGED <<configs, secrets, abandoned>> /\ pc[r] = "deploy"
    BY <1>16 DEF RecreateDeployment
  <2>2. CASE Reply(r, "accepted")
    BY <1>3, <2>1, <2>2
  <2>3. CASE Reply(r, "failed") /\ UNCHANGED <<tasks, lastTask>>
    BY <1>3, <2>1, <2>3
  <2> QED BY <1>16, <2>2, <2>3 DEF RecreateDeployment
<1>17. CASE FinishDeploy(r)
  BY <1>3, <1>17 DEF FinishDeploy
<1>18. CASE AssertDeploymentExists(r)
  BY <1>2, <1>6, <1>18 DEF AssertDeploymentExists, Moves, Odd
<1>19. CASE DeleteConfigsForNotFoundInstance(r)
  BY <1>2, <1>19 DEF DeleteConfigsForNotFoundInstance
<1>20. CASE ClearSecretsForNotFoundInstance(r)
  BY <1>3, <1>20 DEF ClearSecretsForNotFoundInstance
<1>21. CASE DeprovisionAssertNoOperations(r)
  BY <1>3, <1>6, <1>21 DEF DeprovisionAssertNoOperations, Moves, Odd
<1>22. CASE RunPreDeleteErrands(r)
  <2>1. UNCHANGED <<configs, secrets, abandoned>> /\ pc[r] = "errand"
    BY <1>22 DEF RunPreDeleteErrands
  <2>2. CASE Reply(r, "accepted")
    BY <1>3, <2>1, <2>2
  <2>3. CASE Reply(r, "failed") /\ UNCHANGED <<tasks, lastTask>>
    BY <1>3, <2>1, <2>3
  <2> QED BY <1>22, <2>2, <2>3 DEF RunPreDeleteErrands
<1>23. CASE DeleteInstance(r)
  BY <1>6, <1>23 DEF DeleteInstance, Moves, Odd
<1>24. CASE DeleteClient(r)
  <2> DEFINE how == IF pc[r] = "dropClient" THEN "accepted" ELSE "failed"
  <2>1. Reply(r, how) /\ UNCHANGED <<configs, secrets, abandoned>>
        /\ pc[r] \in {"dropClient", "deleteFailed"}
    BY <1>24 DEF DeleteClient
  <2>2. pc'[r] = how
    BY <1>3, <2>1
  <2> QED BY <2>1, <2>2
<1>25. CASE HandlerFails(r)
  <2>1. \/ Goto(r, "deleteFailed")
        \/ Reply(r, "accepted")
        \/ Reply(r, "failed")
    BY <1>25, Zenon DEF HandlerFails
  <2>2. /\ FaultKinds # {} /\ UNCHANGED <<secrets, abandoned>>
        /\ configs' \in {configs, TRUE}
    BY <1>25 DEF HandlerFails, Fault
  <2>3. pc'[r] \in {"deleteFailed", "accepted", "failed"}
    BY <1>2, <1>3, <2>1
  <2> QED BY <2>2, <2>3
<1> QED BY <1>7, <1>8, <1>9, <1>10, <1>11, <1>12, <1>13, <1>14, <1>15, <1>16, <1>17, <1>18, <1>19,
           <1>20, <1>21, <1>22, <1>23, <1>24, <1>25 DEF HandlerStep

\* What a handler's step does to the tasks that run: nothing, or it adds its own.
LEMMA HandlerAdds ==
  ASSUME OrderInv, NEW r \in Requests, HandlerStep(r) \/ HandlerFails(r), UNCHANGED <<poll, report>>
  PROVE  \/ UNCHANGED <<Own, ActiveTasks, Deploys>>
         \/ /\ pc'[r] \in StartedPcs /\ lastTask' # lastTask
            /\ \E n \in TaskId :
                 /\ Own'[r] = Own[r] \cup {n} /\ ActiveTasks' = ActiveTasks \cup {n}
                 /\ \A q \in Requests \ {r} : Own'[q] = Own[q] /\ n \notin Own[q]
                 /\ \/ Deploys' = Deploys
                    \/ /\ Deploys' = Deploys \cup {n}
                       /\ pc[r] = "deploy" /\ type[r] \in Deployers
<1>0. IInv /\ TasksInv
  BY DEF OrderInv
<1>1. UNCHANGED taskViews \/ Starts(r)
  BY HandlerKeepsOrder
<1>2. lastTask \in Nat
  BY <1>0 DEF IInv, TypeInv, TypeOK, OperationsTypeOK, DirectorTypeOK
<1>3. CASE UNCHANGED <<tasks, lastTask>>
  <2>1. Own' = Own /\ ActiveTasks' = ActiveTasks
    BY <1>1, <1>2, <1>3 DEF taskViews, Starts
  <2> QED BY <1>3, <2>1, SameViews
<1>4. ASSUME NEW kind \in {"deploy", "recreate", "delete", "errand"}, NEW c, NEW step,
             StartTask(kind, c, step), pc'[r] \in StartedPcs,
             kind = "deploy" => pc[r] = "deploy" /\ type[r] \in Deployers
      PROVE  /\ pc'[r] \in StartedPcs /\ lastTask' # lastTask
             /\ \E n \in TaskId :
                  /\ Own'[r] = Own[r] \cup {n} /\ ActiveTasks' = ActiveTasks \cup {n}
                  /\ \A q \in Requests \ {r} : Own'[q] = Own[q] /\ n \notin Own[q]
                  /\ \/ Deploys' = Deploys
                     \/ /\ Deploys' = Deploys \cup {n}
                        /\ pc[r] = "deploy" /\ type[r] \in Deployers
  <2>0. PICK n : n = lastTask + 1
    OBVIOUS
  <2>1. /\ n \in TaskId /\ lastTask' = n
        /\ Deploys' = IF kind = "deploy" THEN Deploys \cup {n} ELSE Deploys
    BY <1>4, <2>0, NewViews
  <2>2. Starts(r) /\ lastTask' # lastTask
    BY <1>1, <1>2, <2>0, <2>1 DEF taskViews
  <2>3. /\ Own'[r] = Own[r] \cup {n}
        /\ \A q \in Requests \ {r} : Own'[q] = Own[q] /\ n \notin Own[q]
    BY <1>0, <2>0, <2>2, OneMore
  <2>4. ActiveTasks' = ActiveTasks \cup {n}
    BY <2>0, <2>2 DEF Starts
  <2> QED BY <1>4, <2>1, <2>2, <2>3, <2>4
<1>5. \/ UNCHANGED <<tasks, lastTask>>
      \/ /\ pc[r] = "deploy" /\ type[r] \in Deployers
         /\ pc'[r] \in StartedPcs /\ StartTask("deploy", BoshContextID(r), 0)
      \/ pc'[r] \in StartedPcs /\ StartTask("recreate", BoshContextID(r), 0)
      \/ pc'[r] \in StartedPcs /\ StartTask("errand", r, 1)
      \/ pc'[r] \in StartedPcs /\ StartTask("delete", NoRequest, 0)
  BY HandlerDoes DEF Deployers
<1> QED BY <1>3, <1>4, <1>5

\* What a handler finds missing is not on its way: a create is over before a delete is sent, and
\* its deploy with it (deprovision.go:55).
LEMMA NothingOnItsWay ==
  ASSUME KeepInv, CreatesEnd, NEW r \in Requests, type[r] \in DeleteTypes, ~deployed
  PROVE  Deploys = {}
<1> SUFFICES ASSUME Deploys # {} PROVE FALSE
  OBVIOUS
<1>1. PICK t \in Deploys : TRUE
  OBVIOUS
<1>2. PICK q \in Requests : type[q] = "create" /\ t \in Own[q]
  BY <1>1 DEF KeepInv, CreatesDeploy
<1>3. FaultKinds = {}
  BY <1>2 DEF KeepInv, FinalInv, SentInv, CreatesEnd
<1>4. Own[q] \cap ActiveTasks = {}
  BY <1>2, <1>3 DEF KeepInv, Unbroken
<1> QED BY <1>1, <1>2, <1>4 DEF Deploys

\* Nor does anything deploy after it was found missing.
LEMMA GoneDeploysNothing ==
  ASSUME KeepInv, CreatesEnd, NEW q \in Requests, NEW r \in Requests, pc[r] = "deploy", type[r] \in Deployers
  PROVE  pc[q] \notin {"goneConfigs", "goneSecrets", "gone"}
<1> SUFFICES ASSUME pc[q] \in {"goneConfigs", "goneSecrets", "gone"} PROVE FALSE
  OBVIOUS
<1>1. q # r /\ type[q] \in DeleteTypes /\ ~deployed
  BY DEF KeepInv, CleanedUp
<1>2. CASE type[r] = "create"
  <2>1. FaultKinds = {}
    BY <1>2 DEF KeepInv, FinalInv, SentInv, CreatesEnd
  <2> QED BY <1>1, <1>2, <2>1 DEF KeepInv, Unbroken, Over
<1>3. CASE type[r] # "create"
  BY <1>1, <1>3 DEF KeepInv, FinalInv, StillDeployed, Deployers
<1> QED BY <1>2, <1>3

\* A handler's step keeps all of it (deprovision.go:51, deployer.go:64).
LEMMA HandlerKeeps ==
  ASSUME KeepInv, NoLateDeploys, CreatesEnd, NEW r \in Requests, HandlerStep(r) \/ HandlerFails(r),
         UNCHANGED <<poll, report>>
  PROVE  KeepInv'
<1>0. FinalInv /\ Unbroken /\ PollsOpen /\ CleanedUp /\ CreatesDeploy /\ Provided
      /\ OrderInv /\ IInv /\ TasksInv /\ SentInv /\ StillDeployed /\ HoldsLock
  BY DEF KeepInv, FinalInv, OrderInv, IInv
<1>1. FinalInv'
  BY <1>0, HandlerKeepsFinal
<1>2. /\ pc[r] \notin Ended \cup {"unsent"} /\ pc'[r] # "unsent"
      /\ UNCHANGED <<type, deployed>>
      /\ \A q \in Requests \ {r} : pc'[q] = pc[q]
  BY <1>0, HandlerDoes
<1>3. /\ configs' = configs \/ configs' = TRUE \/ (configs' = FALSE /\ pc[r] = "goneConfigs")
      /\ secrets' = secrets \/ secrets' = TRUE \/ (secrets' = FALSE /\ pc[r] = "goneSecrets")
      /\ type[r] \in Deployers =>
           /\ pc'[r] = "configs" => secrets' = TRUE
           /\ pc'[r] = "deploy" => configs' = TRUE /\ pc[r] = "configs" /\ secrets' = secrets
      /\ pc'[r] = "goneConfigs" => ~deployed /\ type[r] \in DeleteTypes
      /\ pc'[r] = "goneSecrets" => pc[r] = "goneConfigs"
      /\ pc'[r] = "gone" => pc[r] = "goneSecrets"
      /\ abandoned' = abandoned
      /\ FaultKinds = {} =>
           /\ pc'[r] \notin {"lost", "deleteFailed"}
           /\ pc'[r] \in {"failed", "gone"} /\ pc[r] # "deleteFailed" =>
                pc[r] \notin StartedPcs /\ UNCHANGED <<tasks, lastTask>>
  BY <1>0, HandlerProvides
<1>4. \/ UNCHANGED <<Own, ActiveTasks, Deploys>>
      \/ /\ pc'[r] \in StartedPcs /\ lastTask' # lastTask
         /\ \E n \in TaskId :
              /\ Own'[r] = Own[r] \cup {n} /\ ActiveTasks' = ActiveTasks \cup {n}
              /\ \A q \in Requests \ {r} : Own'[q] = Own[q] /\ n \notin Own[q]
              /\ \/ Deploys' = Deploys
                 \/ /\ Deploys' = Deploys \cup {n}
                    /\ pc[r] = "deploy" /\ type[r] \in Deployers
  BY <1>0, HandlerAdds
<1>5. /\ Deploys' = Deploys \/ (pc[r] = "deploy" /\ type[r] \in Deployers /\ pc'[r] \in StartedPcs)
      /\ \A t \in Deploys' \ Deploys : t \in Own'[r]
      /\ \A q \in Requests : Own[q] \subseteq Own'[q]
      /\ \A q \in Requests \ {r} : Own[q] \cap ActiveTasks = {} => Own'[q] \cap ActiveTasks' = {}
  BY <1>4
<1>6. report[r] = "none"
  BY <1>0, <1>2 DEF SentInv, Ended
<1>7. Unbroken'
  <2> SUFFICES ASSUME FaultKinds = {}
               PROVE  /\ abandoned' = {} /\ \A q \in Requests : pc'[q] \notin {"lost", "deleteFailed"}
                      /\ \A q \in Requests : Over(q)' => Own'[q] \cap ActiveTasks' = {}
                      /\ \A q, s \in Requests : type'[q] = "create" /\ type'[s] \in DeleteTypes => Over(q)'
    BY DEF Unbroken
  <2>1. abandoned' = {} /\ abandoned = {} /\ \A q \in Requests : pc'[q] \notin {"lost", "deleteFailed"}
    BY <1>0, <1>2, <1>3 DEF Unbroken
  <2>2. \A q \in Requests \ {r} : Over(q)' <=> Over(q)
    BY <1>2, <1>3 DEF Over
  <2>3. ASSUME Over(r)' PROVE Own'[r] \cap ActiveTasks' = {}
    <3>1. pc'[r] \in {"failed", "gone"}
      BY <1>2, <1>6, <2>1, <2>3 DEF Over, Terminal
    <3>2. pc[r] \notin StartedPcs /\ UNCHANGED <<tasks, lastTask>>
      BY <1>0, <1>3, <3>1 DEF Unbroken
    <3>3. Own[r] = {} /\ Own' = Own
      BY <1>0, <1>4, <3>2, OwnTasks
    <3> QED BY <3>3
  <2>4. ~Over(r)
    BY <1>2, <2>1 DEF Over, Ended
  <2> QED BY <1>0, <1>2, <1>5, <2>1, <2>2, <2>3, <2>4 DEF Unbroken
<1>8. PollsOpen'
  BY <1>0 DEF PollsOpen
<1>9. CleanedUp'
  <2> SUFFICES ASSUME NEW q \in Requests, pc'[q] \in {"goneConfigs", "goneSecrets", "gone"}
               PROVE  type[q] \in DeleteTypes /\ ~deployed /\ Deploys' = {}
    BY <1>2 DEF CleanedUp
  <2>1. CASE q = r
    <3>1. type[r] \in DeleteTypes /\ ~deployed
      BY <1>0, <1>3, <2>1 DEF CleanedUp
    <3>2. Deploys = {}
      BY <3>1, NothingOnItsWay
    <3>3. Deploys' = Deploys
      BY <1>5, <2>1 DEF StartedPcs
    <3> QED BY <2>1, <3>1, <3>2, <3>3
  <2>2. CASE q # r
    <3>1. pc[q] \in {"goneConfigs", "goneSecrets", "gone"}
      BY <1>2, <2>2
    <3>2. Deploys' = Deploys
      BY <1>5, <3>1, GoneDeploysNothing
    <3> QED BY <1>0, <3>1, <3>2 DEF CleanedUp
  <2> QED BY <2>1, <2>2
<1>10. CreatesDeploy'
  <2> SUFFICES ASSUME NEW t \in Deploys', ~deployed
               PROVE  \E q \in Requests : type[q] = "create" /\ t \in Own'[q]
    BY <1>2 DEF CreatesDeploy
  <2>1. CASE t \in Deploys
    BY <1>0, <1>5, <2>1 DEF CreatesDeploy
  <2>2. CASE t \notin Deploys
    <3>1. pc[r] = "deploy" /\ type[r] \in Deployers /\ t \in Own'[r]
      BY <1>5, <2>2
    <3>2. type[r] = "create"
      BY <1>0, <3>1 DEF StillDeployed, Deployers
    <3> QED BY <3>1, <3>2
  <2> QED BY <2>1, <2>2
<1>11. Provided'
  <2>1. ASSUME deployed \/ Deploys' # {} PROVE configs' /\ secrets'
    <3>1. CASE deployed \/ Deploys # {}
      BY <1>0, <1>3, <3>1 DEF Provided, CleanedUp
    <3>2. CASE ~(deployed \/ Deploys # {})
      <4>1. pc[r] = "deploy" /\ type[r] \in Deployers
        BY <1>5, <2>1, <3>2
      <4> QED BY <1>0, <1>3, <4>1 DEF Provided
    <3> QED BY <3>1, <3>2
  <2>2. ASSUME NEW q \in Requests, type[q] \in Deployers
        PROVE  /\ pc'[q] = "configs" => secrets'
               /\ pc'[q] = "deploy" => configs' /\ secrets'
    <3>1. CASE q = r
      BY <1>0, <1>3, <2>2, <3>1 DEF Provided
    <3>2. CASE q # r /\ pc[q] \in {"configs", "deploy"}
      <4>1. pc[r] \notin {"goneConfigs", "goneSecrets"}
        BY <1>0, <3>2 DEF HoldsLock, CallPcs
      <4> QED BY <1>0, <1>2, <1>3, <2>2, <3>2, <4>1 DEF Provided
    <3>3. CASE q # r /\ pc[q] \notin {"configs", "deploy"}
      BY <1>2, <3>3
    <3> QED BY <3>1, <3>2, <3>3
  <2> QED BY <1>2, <2>1, <2>2 DEF Provided
<1> QED BY <1>1, <1>7, <1>8, <1>9, <1>10, <1>11 DEF KeepInv

\* A step that starts and ends no task, and tells of an end only what has ended.
LEMMA NoTaskKeeps ==
  ASSUME KeepInv, FinalInv', PollsOpen', Provided',
         UNCHANGED <<tasks, lastTask, deployed, type, opTask>>,
         \A q \in Requests : pc'[q] = pc[q] \/ (pc'[q] = "lost" /\ pc[q] \notin Ended \cup {"unsent"}),
         FaultKinds = {} =>
           /\ abandoned' = abandoned /\ \A q \in Requests : pc'[q] = pc[q]
           /\ \A q \in Requests : /\ report[q] \in Terminal => report'[q] \in Terminal
                                  /\ report[q] \notin Terminal /\ report'[q] \in Terminal =>
                                       Own[q] \cap ActiveTasks = {}
  PROVE  KeepInv'
<1>0. Unbroken /\ CleanedUp /\ CreatesDeploy
  BY DEF KeepInv
<1>1. Own' = Own /\ ActiveTasks' = ActiveTasks /\ Deploys' = Deploys
  BY SameViews, SameTasks DEF taskViews
<1>2. Unbroken'
  <2> SUFFICES ASSUME FaultKinds = {}
               PROVE  /\ abandoned' = {} /\ \A q \in Requests : pc'[q] \notin {"lost", "deleteFailed"}
                      /\ \A q \in Requests : Over(q)' => Own'[q] \cap ActiveTasks' = {}
                      /\ \A q, s \in Requests : type'[q] = "create" /\ type'[s] \in DeleteTypes => Over(q)'
    BY DEF Unbroken
  <2>1. \A q \in Requests : Over(q)' => Over(q) \/ Own[q] \cap ActiveTasks = {}
    BY DEF Over
  <2>2. \A q \in Requests : Over(q) => Over(q)'
    BY DEF Over
  <2> QED BY <1>0, <1>1, <2>1, <2>2 DEF Unbroken
<1>3. CleanedUp'
  BY <1>0, <1>1 DEF CleanedUp
<1>4. CreatesDeploy'
  BY <1>0, <1>1 DEF CreatesDeploy
<1> QED BY <1>2, <1>3, <1>4 DEF KeepInv

\* What a client sends waits for the lock, and Cloud Foundry waits with a delete for the create.
LEMMA SendKeeps ==
  ASSUME KeepInv, NEW r \in Requests, Send(r)
  PROVE  KeepInv'
<1>0. FinalInv /\ Unbroken /\ PollsOpen /\ CleanedUp /\ CreatesDeploy /\ Provided
      /\ OrderInv /\ IInv /\ TasksInv /\ PathInv
  BY DEF KeepInv, FinalInv, OrderInv
<1>1. FinalInv' /\ Sent(r)
  BY <1>0, SendKeepsFinal, SendKeepsOrder
<1>2. PICK ty \in Types : MaySend(ty) /\ type' = [type EXCEPT ![r] = ty]
                          /\ Goto(r, IF ty = "update" THEN "updateClient" ELSE "lock")
  BY DEF Send
<1>3. /\ pc[r] = "unsent" /\ pc'[r] \in {"updateClient", "lock"} /\ type'[r] = ty
      /\ \A q \in Requests \ {r} : pc'[q] = pc[q] /\ type'[q] = type[q]
      /\ UNCHANGED <<tasks, lastTask, deployed, configs, secrets, abandoned, poll, report>>
      /\ type[r] = "none"
  BY <1>0, <1>2 DEF Send, Goto, directorVars, resources, IInv, TypeInv, TypeOK, OperationsTypeOK, PathInv
<1>4. Deploys' = Deploys /\ ActiveTasks' = ActiveTasks
  BY <1>3, SameViews
<1>5. Own' = Own /\ Own[r] = {}
  BY <1>0, <1>1, <1>3, OwnTasks DEF Sent, StartedPcs
<1>6. Unbroken'
  <2> SUFFICES ASSUME FaultKinds = {}
               PROVE  /\ abandoned' = {} /\ \A q \in Requests : pc'[q] \notin {"lost", "deleteFailed"}
                      /\ \A q \in Requests : Over(q)' => Own'[q] \cap ActiveTasks' = {}
                      /\ \A q, s \in Requests : type'[q] = "create" /\ type'[s] \in DeleteTypes => Over(q)'
    BY DEF Unbroken
  <2>1. \A q \in Requests \ {r} : Over(q)' <=> Over(q)
    BY <1>3 DEF Over
  <2>2. ASSUME NEW q \in Requests, NEW s \in Requests, type'[q] = "create", type'[s] \in DeleteTypes
        PROVE  Over(q)'
    <3>1. CASE q = r
      <4>1. \A u \in Requests : type[u] = "none"
        BY <1>0, <1>2, <1>3, <2>2, <3>1 DEF MaySend, PathInv
      <4> QED BY <1>3, <2>2, <3>1, <4>1 DEF DeleteTypes
    <3>2. CASE q # r /\ s = r
      <4>1. Over(q)
        BY <1>2, <1>3, <2>2, <3>2 DEF MaySend, PlatformTypes, DeleteTypes
      <4> QED BY <2>1, <3>2, <4>1
    <3>3. CASE q # r /\ s # r
      BY <1>0, <1>3, <2>1, <2>2, <3>3 DEF Unbroken
    <3> QED BY <3>1, <3>2, <3>3
  <2> QED BY <1>0, <1>3, <1>4, <1>5, <2>1, <2>2 DEF Unbroken
<1>7. PollsOpen' /\ CleanedUp'
  BY <1>0, <1>3, <1>4 DEF PollsOpen, CleanedUp
<1>8. CreatesDeploy'
  BY <1>0, <1>3, <1>4, <1>5 DEF CreatesDeploy
<1>9. Provided'
  BY <1>0, <1>3, <1>4 DEF Provided
<1> QED BY <1>1, <1>6, <1>7, <1>8, <1>9 DEF KeepInv

\* An answer that ends an operation is given when none of its tasks runs.
LEMMA ConcludeKeeps ==
  ASSUME KeepInv, FinalInv', NEW p \in Pollers, NEW r \in Requests, NEW t, NEW state,
         Conclude(p, r, t, state), \A q \in Pollers \ {p} : poll[q].req # r, report[r] \notin Terminal,
         state \in {"complete", "incomplete", "failed"},
         state \in {"complete", "failed"} => Own[r] \cap ActiveTasks = {},
         UNCHANGED <<directorVars, operationVars>>
  PROVE  KeepInv'
<1> USE DEF directorVars, operationVars, resources
<1>0. /\ PollsOpen /\ Provided /\ poll \in [Pollers -> Poll] /\ report \in [Requests -> Reports]
      /\ \A q \in Pollers : poll[q].at # "idle" => poll[q].req \in Requests
  BY DEF PollsFollow, KeepInv, FinalInv, OrderInv, IInv, TypeInv, TypeOK
<1>1. Provided'
  <2>1. Deploys' = Deploys
    BY SameViews
  <2> QED BY <1>0, <2>1 DEF Provided
<1>2. CASE cleanUpDue(r, state)
  <2>1. /\ poll'[p].req = r /\ report' = report /\ \A q \in Pollers \ {p} : poll'[q] = poll[q]
    BY <1>0, <1>2 DEF Conclude
  <2>2. PollsOpen'
    BY <1>0, <2>1 DEF PollsOpen
  <2> QED BY <1>1, <2>1, <2>2, NoTaskKeeps
<1>3. CASE ~cleanUpDue(r, state)
  <2>1. poll' = [poll EXCEPT ![p] = Idle] /\ Report(r, lastOperationState(state))
    BY <1>3 DEF Conclude
  <2>2. /\ poll'[p].at = "idle" /\ \A q \in Pollers \ {p} : poll'[q] = poll[q]
        /\ \A q \in Requests \ {r} : report'[q] = report[q]
        /\ report'[r] = lastOperationState(state)
    BY <1>0, <2>1 DEF Idle, Report
  <2>3. PollsOpen'
    BY <1>0, <2>2 DEF PollsOpen
  <2>4. report'[r] \in Terminal => state \in {"complete", "failed"}
    BY <2>2 DEF lastOperationState, Terminal
  <2>5. \A q \in Requests : /\ report[q] \in Terminal => report'[q] \in Terminal
                            /\ report[q] \notin Terminal /\ report'[q] \in Terminal =>
                                 Own[q] \cap ActiveTasks = {}
    BY <2>2, <2>4
  <2> QED BY <1>1, <2>3, <2>5, NoTaskKeeps
<1> QED BY <1>2, <1>3

\* A poll that arrives finds the operation not yet ended.
LEMMA LastOperationKeeps ==
  ASSUME KeepInv, ConcurrentPolls = FALSE, NEW p \in Pollers, NEW r \in Requests, LastOperation(p, r)
  PROVE  KeepInv'
<1> USE DEF directorVars, operationVars, resources
<1>0. FinalInv /\ PollsOpen /\ Provided /\ OrderInv /\ DeletesLast
      /\ IInv /\ TasksInv /\ ChainInv /\ poll \in [Pollers -> Poll]
  BY DEF KeepInv, FinalInv, OrderInv, IInv, TypeInv, TypeOK
<1>1. PICK next : next = LifeCycleRunnerGetTask(r)
  OBVIOUS
<1>2. /\ pc[r] = "accepted" /\ opTask[r] # 0 /\ report[r] \notin Terminal
      /\ \A q \in Pollers : poll[q].req # r
      /\ UNCHANGED <<directorVars, operationVars>>
  BY DEF LastOperation
<1>3. FinalInv'
  BY <1>0, LastOperationKeepsFinal
<1>4. Provided'
  <2>1. Deploys' = Deploys
    BY <1>2, SameViews
  <2> QED BY <1>0, <1>2, <2>1 DEF Provided
<1>5. CASE next.move = "answer"
  <2>1. Conclude(p, r, next.task, next.state)
    BY <1>1, <1>5 DEF LastOperation
  <2>2. /\ next.state \in {"complete", "incomplete", "failed"}
        /\ next.state \in {"complete", "failed"} => Own[r] \cap ActiveTasks = {}
    BY <1>0, <1>1, <1>2, <1>5, RunnerSees, CompleteIsDone
  <2> QED BY <1>2, <1>3, <2>1, <2>2, ConcludeKeeps
<1>6. CASE next.move # "answer"
  <2>1. /\ report' = report
        /\ \/ poll' = poll
           \/ poll' = [poll EXCEPT ![p] = [at |-> next.move, req |-> r, task |-> 0, step |-> next.step]]
    BY <1>1, <1>6 DEF LastOperation
  <2>2. PollsOpen'
    BY <1>0, <1>2, <2>1 DEF PollsOpen
  <2> QED BY <1>2, <1>3, <1>4, <2>1, <2>2, NoTaskKeeps
<1> QED BY <1>5, <1>6

\* The step a poll starts belongs to an operation that goes on, and deploys nothing.
LEMMA PollStartKeeps ==
  ASSUME KeepInv, FinalInv', NEW p \in Pollers, NEW kind \in {"errand", "delete"}, poll[p].at = kind,
         NEW step \in Nat, step = StepDue(p), StartTask(kind, poll[p].req, step),
         poll' = [poll EXCEPT ![p].at = "look", ![p].task = lastTask + 1],
         UNCHANGED <<deployed, operationVars, report>>
  PROVE  KeepInv'
<1> USE DEF operationVars, resources
<1>0. FinalInv /\ Unbroken /\ PollsOpen /\ CleanedUp /\ CreatesDeploy /\ Provided
      /\ OrderInv /\ IInv /\ TasksInv /\ poll \in [Pollers -> Poll] /\ IInv'
  BY DEF KeepInv, FinalInv, OrderInv, IInv, TypeInv, TypeOK
<1>1. PICK r \in Requests : r = poll[p].req /\ pc[r] = "accepted"
  BY <1>0 DEF IInv, PollsFollow
<1>2. Starts(r)
  BY <1>0, <1>1, PollStarts
<1>3. PICK n : n = lastTask + 1
  OBVIOUS
<1>4. /\ Own'[r] = Own[r] \cup {n} /\ ActiveTasks' = ActiveTasks \cup {n}
      /\ \A q \in Requests \ {r} : Own'[q] = Own[q] /\ n \notin Own[q]
  BY <1>0, <1>2, <1>3, OneMore DEF Starts
<1>5. Deploys' = Deploys
  BY <1>0, <1>1, <1>3, NewViews
<1>6. \A q \in Requests : Over(q)' <=> Over(q)
  BY DEF Over
<1>7. report[r] \notin Terminal
  BY <1>0, <1>1 DEF PollsOpen
<1>8. Unbroken'
  <2>1. abandoned = {} => ~Over(r)
    BY <1>1, <1>7 DEF Over
  <2> QED BY <1>0, <1>4, <1>6, <2>1 DEF Unbroken
<1>9. PollsOpen'
  <2>1. poll'[p].req = r /\ \A q \in Pollers \ {p} : poll'[q] = poll[q]
    BY <1>0, <1>1 DEF Poll
  <2> QED BY <1>0, <1>7, <2>1 DEF PollsOpen
<1>10. CleanedUp' /\ Provided'
  BY <1>0, <1>5 DEF CleanedUp, Provided
<1>11. CreatesDeploy'
  BY <1>0, <1>4, <1>5 DEF CreatesDeploy
<1> QED BY <1>8, <1>9, <1>10, <1>11 DEF KeepInv

\* A poll that goes on keeps all of it: it cleans up what a delete task that is done has left behind
\* (last_operation.go:149).
LEMMA PollKeeps ==
  ASSUME KeepInv, NEW p \in Pollers, PollStep(p) \/ PollFails(p)
  PROVE  KeepInv'
<1> USE DEF directorVars, operationVars, resources
<1>0. /\ FinalInv /\ PollsOpen /\ Provided /\ NoDeployBeside /\ DeletedIsGone /\ SentInv /\ StillDeployed
      /\ OrderInv /\ IInv /\ TasksInv /\ PollInv /\ PollsApart
      /\ poll \in [Pollers -> Poll] /\ report \in [Requests -> Reports]
      /\ \A q \in Pollers : poll[q].at # "idle" => poll[q].req \in Requests
  BY DEF KeepInv, FinalInv, OrderInv, IInv, TypeInv, TypeOK, PollsFollow
<1>1. FinalInv' /\ OrderInv' /\ IInv'
  BY <1>0, PollKeepsFinal DEF FinalInv, OrderInv
<1>2. PICK r \in Requests : r = poll[p].req /\ poll[p].at # "idle"
  BY <1>0, PollCalls DEF IInv
<1>3. report[r] \notin Terminal /\ \A q \in Pollers \ {p} : poll[q].req # r
  BY <1>0, <1>2 DEF PollsOpen, PollsApart
<1>4. ASSUME Deletions # {}
      PROVE  /\ ~deployed /\ Deploys = {}
             /\ \A q \in Requests : type[q] \in Deployers => pc[q] \notin {"configs", "deploy"}
  <2>1. ~deployed /\ Deploys = {} /\ lastTask # 0
    BY <1>0, <1>4, NoTasksYet DEF NoDeployBeside, DeletedIsGone
  <2> QED BY <1>0, <2>1 DEF SentInv, StillDeployed, Deployers, StartedPcs
<1>5. ASSUME UNCHANGED tasks, UNCHANGED <<deployed, type, pc, configs, secrets>> PROVE Provided'
  <2>1. Deploys' = Deploys
    BY <1>5, SameViews
  <2> QED BY <1>0, <1>5, <2>1 DEF Provided
<1>6. ASSUME UNCHANGED tasks, UNCHANGED <<deployed, type, pc>>, Deletions # {} PROVE Provided'
  <2>1. Deploys' = Deploys
    BY <1>6, SameViews
  <2> QED BY <1>4, <1>6, <2>1 DEF Provided
<1> DEFINE Kept == UNCHANGED <<tasks, lastTask, deployed, type, opTask, pc, abandoned>>
<1>7. ASSUME Kept, Provided', poll' = [poll EXCEPT ![p] = Idle], NEW s, UNCHANGED report \/ Report(r, s),
             FaultKinds = {} /\ report' # report /\ s \in Terminal => Own[r] \cap ActiveTasks = {}
      PROVE  KeepInv'
  <2>1. poll'[p].at = "idle" /\ \A q \in Pollers \ {p} : poll'[q] = poll[q]
    BY <1>0, <1>7 DEF Idle
  <2>2. /\ \A q \in Requests \ {r} : report'[q] = report[q]
        /\ report'[r] = report[r] \/ (report'[r] = s /\ report' # report)
    BY <1>0, <1>3, <1>7 DEF Report
  <2>3. PollsOpen'
    BY <1>0, <1>3, <2>1, <2>2 DEF PollsOpen
  <2>4. FaultKinds = {} => \A q \in Requests : /\ report[q] \in Terminal => report'[q] \in Terminal
                                               /\ report[q] \notin Terminal /\ report'[q] \in Terminal =>
                                                    Own[q] \cap ActiveTasks = {}
    BY <1>3, <1>7, <2>2
  <2> QED BY <1>1, <1>7, <2>3, <2>4, NoTaskKeeps
<1>8. CASE PollRunsErrand(p)
  <2>1. CASE /\ RunErrand(poll[p].req, poll[p].step)
             /\ poll' = [poll EXCEPT ![p].at = "look", ![p].task = lastTask + 1]
    <3>1. poll[p].at = "errand" /\ poll[p].step \in Nat /\ poll[p].step = StepDue(p)
      BY <1>0, <1>8 DEF PollRunsErrand, StepDue, Poll
    <3>2. PICK step \in Nat : step = poll[p].step
      BY <3>1
    <3>3. StartTask("errand", poll[p].req, step) /\ UNCHANGED <<deployed, operationVars, report>>
      BY <1>8, <2>1, <3>2 DEF PollRunsErrand, RunErrand
    <3> QED BY <1>1, <2>1, <3>1, <3>2, <3>3, PollStartKeeps
  <2>2. CASE ~deployed /\ poll' = [poll EXCEPT ![p] = Idle] /\ UNCHANGED <<tasks, lastTask>>
    <3>1. Kept /\ UNCHANGED <<configs, secrets, report>>
      BY <1>8, <2>2 DEF PollRunsErrand
    <3> QED BY <1>5, <1>7, <2>2, <3>1
  <2> QED BY <1>8, <2>1, <2>2 DEF PollRunsErrand
<1>9. CASE DeprovisionAfterAllErrand(p)
  <2>1. CASE deployed
    <3>1. poll[p].at = "delete" /\ PreErrands + 1 \in Nat /\ PreErrands + 1 = StepDue(p)
      BY <1>9, OperationsAssumption DEF DeprovisionAfterAllErrand, StepDue
    <3>2. PICK step \in Nat : step = PreErrands + 1
      BY <3>1
    <3>3. StartTask("delete", poll[p].req, step) /\ UNCHANGED <<deployed, operationVars, report>>
      BY <1>9, <2>1, <3>2 DEF DeprovisionAfterAllErrand, DeleteDeployment
    <3>4. poll' = [poll EXCEPT ![p].at = "look", ![p].task = lastTask + 1]
      BY <1>9, <2>1 DEF DeprovisionAfterAllErrand, DeleteTaskId
    <3> QED BY <1>1, <3>1, <3>2, <3>3, <3>4, PollStartKeeps
  <2>2. CASE ~deployed
    <3>1. poll' = [poll EXCEPT ![p] = Idle] /\ Kept /\ UNCHANGED <<configs, secrets, report>>
      BY <1>9, <2>2 DEF DeprovisionAfterAllErrand, DeleteDeployment
    <3> QED BY <1>5, <1>7, <3>1
  <2> QED BY <2>1, <2>2
<1>10. CASE PollLooksAtNewTask(p)
  <2>1. poll[p].task \in ActiveTasks
    BY <1>0, <1>10 DEF PollLooksAtNewTask, PollInv, Serves
  <2>2. StateType(GetTask(poll[p].task)) = "incomplete"
    BY <2>1 DEF ActiveTasks, Active, GetTask, StateType
  <2>3. Conclude(p, r, poll[p].task, "incomplete") /\ UNCHANGED <<directorVars, operationVars>>
    BY <1>2, <1>10, <2>2 DEF PollLooksAtNewTask
  <2> QED BY <1>1, <1>3, <2>3, ConcludeKeeps
<1>11. CASE DeleteConfigs(p)
  <2>1. /\ poll'[p].req = r /\ \A q \in Pollers \ {p} : poll'[q] = poll[q]
        /\ report' = report /\ Kept
    BY <1>0, <1>2, <1>11 DEF DeleteConfigs, Poll
  <2>2. Provided'
    BY <1>0, <1>6, <1>11, <2>1 DEF DeleteConfigs, DeletedIsGone
  <2>3. PollsOpen'
    BY <1>0, <1>3, <2>1 DEF PollsOpen
  <2> QED BY <1>1, <2>1, <2>2, <2>3, NoTaskKeeps
<1>12. CASE DeleteSecrets(p)
  <2>1. poll' = [poll EXCEPT ![p] = Idle] /\ Report(r, "succeeded") /\ Kept
    BY <1>2, <1>12 DEF DeleteSecrets
  <2>2. Provided'
    BY <1>0, <1>6, <1>12, <2>1 DEF DeleteSecrets, DeletedIsGone
  <2>3. Own[r] \subseteq PassedTasks
    BY <1>0, <1>2, <1>12 DEF DeleteSecrets, PollInv, Serves
  <2>4. \A u \in TaskId : ~(u \in PassedTasks /\ u \in ActiveTasks)
    BY <1>0, TaskStands DEF PassedTasks, ActiveTasks
  <2>5. Own[r] \cap ActiveTasks = {}
    BY <2>3, <2>4 DEF ActiveTasks
  <2> QED BY <1>7, <2>1, <2>2, <2>5
<1>13. CASE PollFails(p)
  <2>1. /\ poll' = [poll EXCEPT ![p] = Idle] /\ Kept /\ UNCHANGED <<configs, secrets>>
        /\ UNCHANGED report \/ Report(r, "failed")
        /\ FaultKinds # {}
    BY <1>2, <1>13 DEF PollFails, Fault
  <2> QED BY <1>5, <1>7, <2>1
<1> QED BY <1>8, <1>9, <1>10, <1>11, <1>12, <1>13 DEF PollStep

\* The director's tasks keep all of it: what is deployed was on its way.
LEMMA DirectorKeeps ==
  ASSUME KeepInv, QuickTasks = FALSE, NoLateDeploys, NEW t \in TaskId, DirectorStep(t),
         UNCHANGED <<operationVars, poll, report>>
  PROVE  KeepInv'
<1> USE DEF operationVars, resources
<1>0. FinalInv /\ Unbroken /\ PollsOpen /\ CleanedUp /\ CreatesDeploy /\ Provided
      /\ OrderInv /\ NoDeployBeside
  BY DEF KeepInv, FinalInv
<1>1. FinalInv'
  BY <1>0, DirectorKeepsFinal
<1>2. /\ ActiveTasks' \subseteq ActiveTasks /\ Deploys' \subseteq Deploys
      /\ \/ deployed' = deployed
         \/ deployed' = TRUE /\ Deploys # {}
         \/ deployed' = FALSE /\ Deploys = {}
  BY <1>0, DirectorViews DEF NoDeployBeside
<1>3. Own' = Own
  <2>1. UNCHANGED taskViews \/ \E u \in TaskId : Ends(u)
    BY <1>0, DirectorKeepsOrder
  <2> QED BY <2>1 DEF taskViews, Ends
<1>4. Unbroken'
  <2>1. \A q \in Requests : Over(q)' <=> Over(q)
    BY DEF Over
  <2> QED BY <1>0, <1>2, <1>3, <2>1 DEF Unbroken
<1>5. PollsOpen' /\ CleanedUp'
  BY <1>0, <1>2 DEF PollsOpen, CleanedUp
<1>6. CreatesDeploy'
  BY <1>0, <1>2, <1>3 DEF CreatesDeploy
<1>7. Provided'
  BY <1>0, <1>2 DEF Provided
<1> QED BY <1>1, <1>4, <1>5, <1>6, <1>7 DEF KeepInv

\* Every step keeps all of it.
LEMMA StepKeeps ==
  ASSUME ConcurrentPolls = FALSE, QuickTasks = FALSE, NoLateDeploys, CreatesEnd, KeepInv, [Next]_vars
  PROVE  KeepInv'
<1> USE DEF directorVars, operationVars, resources
<1>0. FinalInv /\ FinalInv' /\ PollsOpen /\ Provided
  BY StepKeepsFinal DEF KeepInv
<1>1. ASSUME UNCHANGED <<tasks, lastTask, deployed, type, opTask, configs, secrets>>,
             \A q \in Requests : pc'[q] = pc[q] \/ (pc'[q] = "lost" /\ pc[q] \notin Ended \cup {"unsent"}),
             FaultKinds = {} => abandoned' = abandoned /\ \A q \in Requests : pc'[q] = pc[q],
             \A p \in Pollers : poll'[p] = poll[p] \/ poll'[p].at = "idle", UNCHANGED report
      PROVE  KeepInv'
  <2>1. PollsOpen'
    BY <1>0, <1>1 DEF PollsOpen
  <2>2. Provided'
    <3>1. Deploys' = Deploys
      BY <1>1, SameViews
    <3> QED BY <1>0, <1>1, <3>1 DEF Provided
  <2> QED BY <1>0, <1>1, <2>1, <2>2, NoTaskKeeps
<1>2. CASE UNCHANGED vars \/ Quiescent
  BY <1>1, <1>2 DEF vars, Quiescent
<1>3. ASSUME NEW r \in Requests, Send(r) PROVE KeepInv'
  BY <1>3, SendKeeps
<1>4. ASSUME NEW r \in Requests, HandlerStep(r) \/ HandlerFails(r), UNCHANGED <<poll, report>>
      PROVE  KeepInv'
  BY <1>4, HandlerKeeps
<1>5. ASSUME NEW r \in Requests, Abandon(r) PROVE KeepInv'
  BY <1>1, <1>5 DEF Abandon, Fault
<1>6. ASSUME NEW p \in Pollers, NEW r \in Requests, LastOperation(p, r) PROVE KeepInv'
  BY <1>6, LastOperationKeeps
<1>7. ASSUME NEW p \in Pollers, PollStep(p) \/ PollFails(p) PROVE KeepInv'
  BY <1>7, PollKeeps
<1>8. ASSUME NEW t \in TaskId, DirectorStep(t), UNCHANGED <<operationVars, poll, report>> PROVE KeepInv'
  BY <1>8, DirectorKeeps
<1>9. CASE RestartBroker
  <2>1. /\ UNCHANGED <<tasks, lastTask, deployed, type, opTask, configs, secrets, report>>
        /\ \A q \in Requests : pc'[q] = pc[q] \/ (pc'[q] = "lost" /\ pc[q] \notin Ended \cup {"unsent"})
        /\ \A p \in Pollers : poll'[p].at = "idle"
        /\ FaultKinds # {}
    BY <1>9 DEF RestartBroker, InFlight, Idle, Fault
  <2> QED BY <1>1, <2>1
<1> QED BY <1>2, <1>3, <1>4, <1>5, <1>6, <1>7, <1>8, <1>9 DEF Next

\* In the beginning a deployment has all it needs.
LEMMA InitKeeps == Init => KeepInv
<1> SUFFICES ASSUME Init PROVE KeepInv
  OBVIOUS
<1>1. FinalInv
  BY InitFinal
<1>2. /\ lastTask = 0 /\ abandoned = {} /\ configs = deployed /\ secrets = deployed
      /\ \A r \in Requests : pc[r] = "unsent" /\ type[r] = "none" /\ report[r] = "none"
      /\ \A p \in Pollers : poll[p].at = "idle"
  BY DEF Init, OperationsInit, DirectorInit, Idle
<1>3. Deploys = {} /\ \A r \in Requests : Own[r] = {}
  BY <1>1, <1>2, NoTasksYet DEF FinalInv
<1>4. Unbroken
  BY <1>2, <1>3 DEF Unbroken
<1>5. PollsOpen /\ CleanedUp /\ CreatesDeploy /\ Provided
  BY <1>2, <1>3 DEF PollsOpen, CleanedUp, CreatesDeploy, Provided, Deployers
<1> QED BY <1>1, <1>4, <1>5 DEF KeepInv

\* KeepInvHolds: what a delete cleans up after belongs to no deployment, there or on its way
\* (deprovision.go:51, last_operation.go:149).
THEOREM KeepInvHolds ==
  ASSUME ConcurrentPolls = FALSE, QuickTasks = FALSE, NoLateDeploys, CreatesEnd
  PROVE  Spec => []KeepInv
<1>1. Init => KeepInv
  BY InitKeeps
<1>2. KeepInv /\ [Next]_vars => KeepInv'
  BY StepKeeps
<1> QED BY <1>1, <1>2, PTL DEF Spec

\* ResourcesKept: the deployment has its BOSH configs and its secrets as long as it exists, whatever
\* handlers and polls delete them meanwhile for instances that are gone (deprovision.go:51,
\* last_operation.go:149).
THEOREM ResourcesKept ==
  ASSUME ConcurrentPolls = FALSE, QuickTasks = FALSE, NoLateDeploys, CreatesEnd
  PROVE  Spec => []DeploymentKeepsItsResources
<1>1. KeepInv => DeploymentKeepsItsResources
  BY DEF KeepInv, Provided, DeploymentKeepsItsResources
<1> QED BY <1>1, KeepInvHolds, PTL

\* GoneStaysGone: an instance whose delete was answered as not found is not there, and no deploy that
\* brings it back is on its way (deprovision.go:55).
THEOREM GoneStaysGone ==
  ASSUME ConcurrentPolls = FALSE, QuickTasks = FALSE, NoLateDeploys, CreatesEnd
  PROVE  Spec => []GoneIsFinal
<1>1. KeepInv => GoneIsFinal
  BY DEF KeepInv, CleanedUp, GoneIsFinal
<1> QED BY <1>1, KeepInvHolds, PTL
=============================================================================
