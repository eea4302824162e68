-------------------------- MODULE InstanceIterator --------------------------
(***************************************************************************)
(* upgrade-all and recreate-all: the iterator that brings every service    *)
(* instance through one operation, a few canaries first, at most           *)
(* MaxInFlight at a time, busy instances again in later attempts.  The     *)
(* broker or Cloud Foundry answers each trigger and each check as it likes.*)
(***************************************************************************)
EXTENDS Naturals, Integers, FiniteSets

CONSTANTS NumInstances,    \* number of service instances
          CanaryCounts,    \* values of the canaries setting
          Selections,      \* TRUE: with canary_selection_params, FALSE: without
          MaxInFlight,     \* max_in_flight
          AttemptLimit,    \* attempt_limit
          Strategy         \* who is asked for the operation: the broker (BOSH) or CF

ASSUME IteratorAssumption ==
  /\ NumInstances \in Nat
  /\ CanaryCounts \subseteq Nat
  /\ Selections \subseteq BOOLEAN
  /\ MaxInFlight \in Nat \ {0}
  /\ AttemptLimit \in Nat \ {0}
  /\ Strategy \in {"BOSH", "CF"}

VARIABLES states,           \* status of each instance
          canary,           \* the instances that could be a canary
          processCanaries,  \* the canary phase is on
          canaryLimit,      \* number of canaries required, 0: all of them
          pos,              \* the last instance NextPending returned
          attempt,          \* number of the current attempt of this phase
          needed,           \* operations triggerOperation may still get accepted
          toCheck,          \* instances pollRunningTasks has yet to check
          failures,         \* instances in the list of failures
          pc,               \* next step
          result            \* what Iterate returned

iteratorVars == <<states, canary, processCanaries, canaryLimit, pos, attempt, needed, toCheck,
                  failures, pc, result>>
settings == <<canary, canaryLimit>>
-----------------------------------------------------------------------------
Instances       == 1..NumInstances
\* A last operation of Cloud Foundry in a state cf_triggerer.go does not know leaves the empty
\* state, here "unknown": the instance counts as done, but not as succeeded or failed.
UnknownToCF     == IF Strategy = "CF" THEN {"unknown"} ELSE {}
OperationStates == {"accepted", "succeeded", "skipped", "failed", "busy", "instance-not-found",
                    "not-started", "orphan-deployment"} \cup UnknownToCF

\* What the management API answers to a trigger, by status code.
ExtractOperationFrom == {"accepted", "instance-not-found", "orphan-deployment", "busy", "skipped",
                         "error"}
\* What Cloud Foundry answers, by the last operation it returns.  An instance
\* that is gone is noticed before the trigger.
CFTriggerResults == {"accepted", "skipped", "failed", "instance-not-found", "error"}
TriggerResults   == IF Strategy = "BOSH" THEN ExtractOperationFrom ELSE CFTriggerResults \cup UnknownToCF
CheckResults     == {"accepted", "succeeded", "failed", "error"} \cup UnknownToCF

isFinalState_CountsBusy(state) == state \notin {"not-started", "accepted"}
isFinalState(state) == state \notin {"busy", "not-started", "accepted"}

\* In the canary phase the instances that cannot be canaries do not count.
GetInstancesInStates(ss) ==
  {i \in Instances : states[i] \in ss /\ (processCanaries => i \in canary)}

HasInstancesToProcess  == GetInstancesInStates({"not-started", "accepted"}) # {}
HasInstancesProcessing == GetInstancesInStates({"accepted"}) # {}
HasFailures            == GetInstancesInStates({"failed"}) # {}
BusyInstances          == GetInstancesInStates({"busy"})

\* pos counts from 0 in the code: instance pos + 1 is the first one left.
Pending == {i \in GetInstancesInStates({"not-started"}) : i > pos}

OutstandingCanaryCount_OffByOne ==
  LET triggered == {i \in canary : states[i] # "not-started"}
  IN  IF canaryLimit > 0 THEN canaryLimit - Cardinality(triggered) - 1
                         ELSE Cardinality(canary \ triggered)
OutstandingCanaryCount ==
  LET triggered == {i \in canary : states[i] # "not-started"}
  IN  IF canaryLimit > 0 THEN canaryLimit - Cardinality(triggered)
                         ELSE Cardinality(canary \ triggered)

canariesCompleted ==
  LET completed == {i \in canary : isFinalState(states[i])}
  IN  /\ canaryLimit = 0 => completed = canary
      /\ Cardinality(completed) >= canaryLimit

allCompleted == \A i \in Instances : isFinalState(states[i])

CurrentPhaseIsComplete_IgnoresPhase == allCompleted
CurrentPhaseIsComplete == IF processCanaries THEN canariesCompleted ELSE allCompleted

operationsToTriggerCount_IgnoresRunning ==
  IF processCanaries /\ MaxInFlight > OutstandingCanaryCount THEN OutstandingCanaryCount
                                                             ELSE MaxInFlight
operationsToTriggerCount ==
  LET free == MaxInFlight - Cardinality(GetInstancesInStates({"accepted"}))
  IN  IF processCanaries /\ free > OutstandingCanaryCount THEN OutstandingCanaryCount ELSE free

SetState(i, s) == states' = [states EXCEPT ![i] = s]
-----------------------------------------------------------------------------
\* A phase ends: IterateInstancesWithAttempts returns, with an error or without.
ReturnError ==
  /\ pc' = "done" /\ result' = "error"
  /\ UNCHANGED <<processCanaries, pos, attempt>>

ReturnNil ==
  IF processCanaries
  THEN /\ pc' = "attempt" /\ processCanaries' = FALSE
       /\ pos' = 0 /\ attempt' = 0
       /\ UNCHANGED result
  ELSE /\ pc' = "done" /\ result' = "ok"
       /\ UNCHANGED <<processCanaries, pos, attempt>>

formatError == IF failures # {} THEN ReturnError ELSE ReturnNil

checkStillBusyInstances_AlwaysNil == ReturnNil
checkStillBusyInstances ==
  IF BusyInstances # {} /\ ~(processCanaries /\ canariesCompleted) THEN ReturnError ELSE ReturnNil

\* The list of instances and, with selection parameters, a second list of those
\* that match: it may hold an instance the first one did not.
registerInstancesAndCanaries ==
  /\ pc = "register"
  /\ \/ pc' = "done" /\ result' = "error" /\ UNCHANGED <<settings, processCanaries>>
     \/ \E selected \in BOOLEAN, chosen \in SUBSET Instances :
          /\ selected \in Selections
          /\ IF selected THEN chosen = {} => Instances = {}
                         ELSE chosen = IF canaryLimit > 0 THEN Instances ELSE {}
          /\ canary' = chosen
          /\ canaryLimit' = IF selected /\ Cardinality(chosen) < canaryLimit
                            THEN Cardinality(chosen) ELSE canaryLimit
          /\ processCanaries' = (chosen # {})
          /\ pc' = "attempt"
          /\ UNCHANGED result
  /\ UNCHANGED <<states, pos, attempt, needed, toCheck, failures>>

RewindAndResetBusyInstances_ResetsAll ==
  /\ pc = "attempt" /\ attempt < AttemptLimit
  /\ attempt' = attempt + 1
  /\ pos' = 0
  /\ states' = [i \in Instances |-> IF states[i] = "succeeded" THEN "succeeded" ELSE "not-started"]
  /\ pc' = "loop"
  /\ UNCHANGED <<settings, processCanaries, needed, toCheck, failures, result>>

RewindAndResetBusyInstances_OffByOne ==
  /\ pc = "attempt" /\ attempt <= AttemptLimit
  /\ attempt' = attempt + 1
  /\ pos' = 0
  /\ states' = [i \in Instances |-> IF states[i] = "busy" THEN "not-started" ELSE states[i]]
  /\ pc' = "loop"
  /\ UNCHANGED <<settings, processCanaries, needed, toCheck, failures, result>>

RewindAndResetBusyInstances ==
  /\ pc = "attempt" /\ attempt < AttemptLimit
  /\ attempt' = attempt + 1
  /\ pos' = 0
  /\ states' = [i \in Instances |-> IF states[i] = "busy" THEN "not-started" ELSE states[i]]
  /\ pc' = "loop"
  /\ UNCHANGED <<settings, processCanaries, needed, toCheck, failures, result>>

OutOfAttempts ==
  /\ pc = "attempt" /\ attempt = AttemptLimit
  /\ checkStillBusyInstances
  /\ UNCHANGED <<states, settings, needed, toCheck, failures>>

StartRound ==
  /\ pc = "loop" /\ HasInstancesToProcess
  /\ needed' = operationsToTriggerCount
  /\ pc' = "trigger"
  /\ UNCHANGED <<states, settings, processCanaries, pos, attempt, toCheck, failures, result>>

\* Nothing left to do in this attempt.
AttemptOver ==
  /\ pc = "loop" /\ ~HasInstancesToProcess
  /\ IF HasFailures THEN formatError
     ELSE IF CurrentPhaseIsComplete THEN checkStillBusyInstances
     ELSE pc' = "attempt" /\ UNCHANGED <<processCanaries, pos, attempt, result>>
  /\ UNCHANGED <<states, settings, needed, toCheck, failures>>

\* The next pending instance.  An error ends the round of triggers, any other
\* answer but "accepted" lets the next instance have its turn.
triggerOperation ==
  /\ pc = "trigger" /\ needed > 0
  /\ \E i \in Pending, answer \in TriggerResults :
       /\ \A j \in Pending : i <= j
       /\ pos' = i
       /\ SetState(i, IF answer = "error" THEN "failed" ELSE answer)
       /\ failures' = IF answer = "error" THEN failures \cup {i} ELSE failures
       /\ needed' = CASE answer = "error"    -> 0
                      [] answer = "accepted" -> needed - 1
                      [] OTHER               -> needed
  /\ UNCHANGED <<settings, processCanaries, attempt, toCheck, pc, result>>

\* No more triggers: needed may be negative, pos stays where the search ended.
StartPolling ==
  /\ pc = "trigger" /\ (needed <= 0 \/ Pending = {})
  /\ pos' = IF needed > 0 THEN NumInstances ELSE pos
  /\ toCheck' = GetInstancesInStates({"accepted"})
  /\ pc' = "poll"
  /\ UNCHANGED <<states, settings, processCanaries, attempt, needed, failures, result>>

pollRunningTasks_OnlyErrors(i) ==
  /\ pc = "poll" /\ i \in toCheck /\ \A j \in toCheck : i <= j
  /\ \E answer \in CheckResults :
       /\ SetState(i, IF answer = "error" THEN "failed" ELSE answer)
       /\ failures' = IF answer = "error" THEN failures \cup {i} ELSE failures
  /\ toCheck' = toCheck \ {i}
  /\ UNCHANGED <<settings, processCanaries, pos, attempt, needed, pc, result>>

pollRunningTasks(i) ==
  /\ pc = "poll" /\ i \in toCheck /\ \A j \in toCheck : i <= j
  /\ \E answer \in CheckResults :
       /\ SetState(i, IF answer = "error" THEN "failed" ELSE answer)
       /\ failures' = IF answer \in {"error", "failed"} THEN failures \cup {i} ELSE failures
  /\ toCheck' = toCheck \ {i}
  /\ UNCHANGED <<settings, processCanaries, pos, attempt, needed, pc, result>>

\* After the checks: sleep and go on while something runs, end the canary phase
\* as soon as it is complete.
RoundOver ==
  /\ pc = "poll" /\ toCheck = {}
  /\ IF ~HasInstancesProcessing /\ processCanaries /\ CurrentPhaseIsComplete
     THEN formatError
     ELSE pc' = "loop" /\ UNCHANGED <<processCanaries, pos, attempt, result>>
  /\ UNCHANGED <<states, settings, needed, toCheck, failures>>

Returned == pc = "done" /\ UNCHANGED iteratorVars

Init ==
  /\ states = [i \in Instances |-> "not-started"]
  /\ canary = {} /\ processCanaries = FALSE
  /\ canaryLimit \in CanaryCounts
  /\ pos = 0 /\ attempt = 0 /\ needed = 0 /\ toCheck = {} /\ failures = {}
  /\ pc = "register" /\ result = "none"

Next ==
  \/ registerInstancesAndCanaries
  \/ RewindAndResetBusyInstances
  \/ OutOfAttempts
  \/ StartRound
  \/ AttemptOver
  \/ triggerOperation
  \/ StartPolling
  \/ \E i \in Instances : pollRunningTasks(i)
  \/ RoundOver
  \/ Returned

Spec == Init /\ [][Next]_iteratorVars

(***************************************************************************)
(* The iterator is one thread and keeps running; an operation that was     *)
(* accepted ends at last, so a check that is repeated finds it ended.      *)
(***************************************************************************)
Fairness ==
  /\ WF_iteratorVars(Next)
  /\ \A i \in Instances : SF_iteratorVars(pollRunningTasks(i) /\ states'[i] # "accepted")

FairSpec == Spec /\ Fairness
-----------------------------------------------------------------------------
\* TypeOK: every variable stays in its domain.
TypeOK ==
  /\ states \in [Instances -> OperationStates]
  /\ canary \subseteq Instances /\ processCanaries \in BOOLEAN
  /\ canaryLimit \in Nat /\ pos \in 0..NumInstances
  /\ attempt \in 0..AttemptLimit /\ needed \in Int
  /\ toCheck \subseteq Instances /\ failures \subseteq Instances
  /\ pc \in {"register", "attempt", "loop", "trigger", "poll", "done"}
  /\ result \in {"none", "ok", "error"}

\* States of an instance that was dealt with, and of one that is over.
Processed == {"succeeded", "skipped", "instance-not-found", "orphan-deployment"}
Settled   == Processed \cup {"failed", "unknown"}

\* AtMostMaxInFlight: however triggers, checks, phases and attempts follow one
\* another, at most MaxInFlight operations run (iterator.go:220).
AtMostMaxInFlight == Cardinality({i \in Instances : states[i] = "accepted"}) <= MaxInFlight

\* ProcessedOnce: an instance whose operation was accepted or is over is never
\* triggered again; only a busy one is (iterator_state.go:92, 118).
ProcessedOnce ==
  [][\A i \in Instances :
       /\ states[i] \in Settled => states'[i] = states[i]
       /\ states[i] = "accepted" => states'[i] \in {"accepted", "succeeded", "failed", "unknown"}]_iteratorVars

\* CanariesPassFirst: the other instances only get their turn when no canary
\* has failed or is still running and as many canaries as required are done, or
\* all there are (iterator_test.go:716 "stops upgrading if a canary instance
\* fails to upgrade").
CanariesPassFirst ==
  [][processCanaries /\ ~processCanaries' =>
       /\ \A i \in Instances \ canary : states[i] = "not-started"
       /\ \A i \in canary : states[i] \notin {"failed", "accepted"}
       /\ LET done == {i \in canary : states[i] \in Processed}
          IN  done = canary \/ (canaryLimit > 0 /\ Cardinality(done) >= canaryLimit)]_iteratorVars

\* SucceededMeansProcessed: Iterate only returns without an error when every
\* instance was processed and none failed (iterator_test.go:381 "returns an
\* error when any operation returns a failure").
SucceededMeansProcessed ==
  result = "ok" => \A i \in Instances : states[i] \in Processed

\* FailuresReported: the summary names exactly the instances that failed
\* (iterator.go:304).
FailuresReported == result # "none" => failures = {i \in Instances : states[i] = "failed"}

\* RetriesOnlyBusy: another attempt, after the attempt interval, is only made
\* when an instance was busy in the one before (iterator_test.go:305).
RetriesOnlyBusy ==
  [][attempt' > attempt /\ attempt > 0 => BusyInstances # {}]_iteratorVars

\* Terminates: with no more than one canary Iterate returns when every accepted
\* operation ends (iterator.go:143).
Terminates == canaryLimit <= 1 ~> result # "none"

\* TerminatesWithCanaries: so it does with more canaries, some of them busy
\* (iterator_test.go:750 "picks another canary instance if one is busy").
TerminatesWithCanaries == <>(result # "none")
=============================================================================
