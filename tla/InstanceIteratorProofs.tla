----------------------- MODULE InstanceIteratorProofs -----------------------
(***************************************************************************)
(* Theorems about the iterator: type correctness, how many operations run, *)
(* that none is repeated, that canaries come first, and what its answer    *)
(* means; for any number of instances, canaries and attempts.              *)
(***************************************************************************)
EXTENDS InstanceIterator, FiniteSetTheorems, TLAPS

Accepted == {i \in Instances : states[i] = "accepted"}
Failed   == {i \in Instances : states[i] = "failed"}
Phase    == IF processCanaries THEN canary ELSE Instances

\* Before the instances are registered nothing has happened.
Unregistered ==
  pc = "register" => /\ ~processCanaries /\ result = "none" /\ attempt = 0
                     /\ \A i \in Instances : states[i] = "not-started"

\* In the canary phase no other instance is touched, so counting the canaries counts all.
OnlyCanaries == processCanaries => \A i \in Instances \ canary : states[i] = "not-started"

\* What may still be triggered in a round fits into what is free.
InFlight ==
  /\ Cardinality(Accepted) <= MaxInFlight
  /\ pc = "trigger" => needed <= MaxInFlight - Cardinality(Accepted)

\* What is checked is running.
Checking == toCheck \subseteq Accepted /\ (pc # "poll" => toCheck = {})

\* Between two attempts of a phase its instances are over or busy, and none failed.
BetweenAttempts ==
  pc = "attempt" /\ attempt > 0 =>
    \A i \in Phase : states[i] \notin {"not-started", "accepted", "failed"}

\* With the broker's answers the list of failures is what the states say.
Listing == Strategy = "BOSH" => failures = Failed

\* Success is returned when all are processed, and Iterate is over then.
Returning ==
  /\ result # "none" => pc = "done"
  /\ Strategy = "BOSH" => SucceededMeansProcessed

IInv == TypeOK /\ Unregistered /\ OnlyCanaries /\ InFlight /\ Checking /\ BetweenAttempts /\ Listing /\ Returning
-----------------------------------------------------------------------------
LEMMA Finite ==
  ASSUME NEW S \in SUBSET Instances
  PROVE  IsFiniteSet(S) /\ Cardinality(S) \in Nat
  <1>1. IsFiniteSet(Instances)
    BY FS_Interval, IteratorAssumption DEF Instances
  <1> QED BY <1>1, FS_Subset, FS_CardinalityType

\* Counts of sets of instances: fewer, one more.
LEMMA Fewer ==
  ASSUME NEW S \in SUBSET Instances, NEW T \in SUBSET S
  PROVE  Cardinality(T) <= Cardinality(S)
  BY Finite, FS_Subset
LEMMA OneMore ==
  ASSUME NEW S \in SUBSET Instances, NEW i \in Instances
  PROVE  Cardinality(S \cup {i}) <= Cardinality(S) + 1
  BY Finite, FS_AddElement, FS_CardinalityType

\* One instance gets another state.
LEMMA OneState ==
  ASSUME TypeOK, NEW i \in Instances, NEW s \in OperationStates, SetState(i, s)
  PROVE  /\ states' \in [Instances -> OperationStates] /\ states'[i] = s
         /\ \A j \in Instances \ {i} : states'[j] = states[j]
  BY DEF TypeOK, SetState

LEMMA Answers ==
  /\ TriggerResults \ {"error"} \subseteq OperationStates \ {"not-started", "succeeded"}
  /\ Strategy = "BOSH" => "failed" \notin TriggerResults
  BY DEF TriggerResults, ExtractOperationFrom, CFTriggerResults, OperationStates, UnknownToCF

\* In either phase the operations that count as running are all there are.
LEMMA Running ==
  ASSUME OnlyCanaries
  PROVE  GetInstancesInStates({"accepted"}) = Accepted
  BY DEF OnlyCanaries, GetInstancesInStates, Accepted
LEMMA InPhase ==
  ASSUME TypeOK, NEW ss
  PROVE  GetInstancesInStates(ss) = {i \in Phase : states[i] \in ss}
  BY DEF TypeOK, GetInstancesInStates, Phase

\* The number of operations to trigger never exceeds what is free.
LEMMA ToTrigger ==
  ASSUME TypeOK, OnlyCanaries
  PROVE  /\ operationsToTriggerCount \in Int
         /\ operationsToTriggerCount <= MaxInFlight - Cardinality(Accepted)
  <1>1. Cardinality(Accepted) \in Nat /\ GetInstancesInStates({"accepted"}) = Accepted
    BY Finite, Running DEF Accepted
  <1>2. OutstandingCanaryCount \in Int
    <2> DEFINE t == {i \in canary : states[i] # "not-started"}
    <2>1. Cardinality(t) \in Nat /\ Cardinality(canary \ t) \in Nat /\ canaryLimit \in Nat
      BY Finite DEF TypeOK
    <2> HIDE DEF t
    <2>2. OutstandingCanaryCount = IF canaryLimit > 0 THEN canaryLimit - Cardinality(t) ELSE Cardinality(canary \ t)
      BY DEF OutstandingCanaryCount, t
    <2> QED BY <2>1, <2>2
  <1> QED BY <1>1, <1>2, IteratorAssumption DEF operationsToTriggerCount
-----------------------------------------------------------------------------
\* Turns: what the end of a phase or of the whole keeps, given that what it claims is true.
LEMMA EndOfPhase ==
  ASSUME IInv, pc \notin {"register", "done"}, toCheck = {}, UNCHANGED <<states, settings, needed, toCheck, failures>>,
         \/ ReturnError
         \/ ReturnNil /\ (~processCanaries /\ Strategy = "BOSH" => \A i \in Instances : states[i] \in Processed)
  PROVE  IInv'
  <1> USE DEF IInv
  <1>1. Accepted' = Accepted /\ Failed' = Failed
    BY DEF Accepted, Failed
  <1>2. TypeOK'
    <2>1. 0 \in 0..NumInstances /\ 0 \in 0..AttemptLimit
      BY IteratorAssumption
    <2>2. pos' \in 0..NumInstances /\ attempt' \in 0..AttemptLimit /\ processCanaries' \in BOOLEAN
      BY <2>1 DEF TypeOK, ReturnError, ReturnNil
    <2>3. pc' \in {"attempt", "done"} /\ result' \in {"none", "ok", "error"}
      BY DEF TypeOK, ReturnError, ReturnNil
    <2> QED BY <2>2, <2>3 DEF TypeOK, settings
  <1>3. pc' \in {"done", "attempt"} /\ (pc' = "attempt" => attempt' = 0 /\ result' = result)
        /\ (processCanaries' => processCanaries) /\ (pc' = "done" \/ ~processCanaries')
    BY DEF ReturnError, ReturnNil
  <1>4. Unregistered' /\ OnlyCanaries' /\ Checking' /\ BetweenAttempts'
    BY <1>1, <1>3 DEF Unregistered, OnlyCanaries, Checking, BetweenAttempts, settings
  <1>5. InFlight' /\ Listing'
    BY <1>1, <1>3 DEF InFlight, Listing
  <1>6. Returning'
    BY DEF Returning, ReturnError, ReturnNil, SucceededMeansProcessed
  <1> QED BY <1>2, <1>4, <1>5, <1>6

\* With no instance of the phase pending, running, failed or busy all of them are processed,
\* if the broker answers.
LEMMA NoneLeft ==
  ASSUME Strategy = "BOSH", TypeOK, \A i \in Phase : states[i] \notin {"not-started", "accepted", "failed", "busy"}
  PROVE  \A i \in Phase : states[i] \in Processed
  BY DEF TypeOK, Phase, OperationStates, UnknownToCF, Processed
-----------------------------------------------------------------------------
\* One lemma per action.  Registering: the canaries are instances, nothing has begun.
LEMMA Registers == IInv /\ registerInstancesAndCanaries => IInv'
  <1> SUFFICES ASSUME IInv, registerInstancesAndCanaries PROVE IInv'
    OBVIOUS
  <1> USE DEF IInv
  <1>1. pc = "register" /\ UNCHANGED <<states, pos, attempt, needed, toCheck, failures>>
    BY DEF registerInstancesAndCanaries
  <1>2. \A i \in Instances : states[i] = "not-started"
    BY <1>1 DEF Unregistered
  <1>3. Accepted' = Accepted /\ Failed' = Failed
    BY <1>1 DEF Accepted, Failed
  <1>4. CASE pc' = "done" /\ result' = "error" /\ UNCHANGED <<settings, processCanaries>>
    <2>1. TypeOK'
      BY <1>1, <1>4 DEF TypeOK, settings
    <2>2. OnlyCanaries' /\ Unregistered' /\ InFlight' /\ Checking' /\ BetweenAttempts' /\ Listing' /\ Returning'
      BY <1>1, <1>3, <1>4 DEF OnlyCanaries, Unregistered, InFlight, Checking, BetweenAttempts, Listing,
         Returning, SucceededMeansProcessed, settings
    <2> QED BY <2>1, <2>2
  <1>5. ASSUME NEW chosen \in SUBSET Instances, canary' = chosen, processCanaries' = (chosen # {}),
               pc' = "attempt", UNCHANGED result, canaryLimit' \in {Cardinality(chosen), canaryLimit}
        PROVE  IInv'
    <2>1. TypeOK'
      <3>1. canaryLimit' \in Nat
        BY <1>5, Finite DEF TypeOK
      <3> QED BY <1>1, <1>5, <3>1 DEF TypeOK
    <2>2. OnlyCanaries' /\ Unregistered' /\ InFlight' /\ Checking' /\ Listing' /\ Returning'
      BY <1>1, <1>2, <1>3, <1>5 DEF OnlyCanaries, Unregistered, InFlight, Checking, Listing, Returning,
         SucceededMeansProcessed
    <2>3. attempt = 0
      BY <1>1 DEF Unregistered
    <2> QED BY <1>1, <1>5, <2>1, <2>2, <2>3 DEF BetweenAttempts
  <1> QED BY <1>4, <1>5 DEF registerInstancesAndCanaries, settings
\* Another attempt: busy instances are pending again, nothing else changes.
LEMMA Rewinds == IInv /\ RewindAndResetBusyInstances => IInv'
  <1> SUFFICES ASSUME IInv, RewindAndResetBusyInstances PROVE IInv'
    OBVIOUS
  <1> USE DEF IInv
  <1>1. /\ pc = "attempt" /\ pc' = "loop" /\ attempt < AttemptLimit /\ attempt' = attempt + 1 /\ pos' = 0
        /\ states' = [i \in Instances |-> IF states[i] = "busy" THEN "not-started" ELSE states[i]]
        /\ UNCHANGED <<settings, processCanaries, needed, toCheck, failures, result>>
    BY DEF RewindAndResetBusyInstances
  <1>2. Accepted' = Accepted /\ Failed' = Failed
    BY <1>1 DEF Accepted, Failed
  <1>3. TypeOK'
    <2>1. attempt' \in 0..AttemptLimit /\ pos' \in 0..NumInstances
      BY <1>1, IteratorAssumption DEF TypeOK
    <2>2. states' \in [Instances -> OperationStates]
      BY <1>1 DEF TypeOK, OperationStates
    <2> QED BY <1>1, <2>1, <2>2 DEF TypeOK, settings
  <1>4. OnlyCanaries'
    BY <1>1 DEF OnlyCanaries, settings
  <1>5. result = "none"
    BY <1>1 DEF Returning, TypeOK
  <1> QED BY <1>1, <1>2, <1>3, <1>4, <1>5 DEF Unregistered, InFlight, Checking, BetweenAttempts, Listing,
             Returning, SucceededMeansProcessed

\* An attempt leaves nothing pending or running and no failure in its phase: what is not
\* busy then is processed.
LEMMA EndsWhenProcessed ==
  ASSUME IInv, pc \notin {"register", "done"}, toCheck = {},
         UNCHANGED <<states, settings, needed, toCheck, failures>>, checkStillBusyInstances,
         \A i \in Phase : states[i] \notin {"not-started", "accepted", "failed"}
  PROVE  IInv'
  <1>1. CASE ReturnError
    BY <1>1, EndOfPhase
  <1>2. CASE ReturnNil /\ (BusyInstances = {} \/ processCanaries)
    <2>1. ASSUME ~processCanaries, Strategy = "BOSH" PROVE \A i \in Instances : states[i] \in Processed
      <3>1. \A i \in Phase : states[i] # "busy"
        BY <1>2, <2>1, InPhase DEF BusyInstances, IInv
      <3> QED BY <2>1, <3>1, NoneLeft DEF IInv, Phase
    <2> QED BY <1>2, <2>1, EndOfPhase
  <1> QED BY <1>1, <1>2 DEF checkStillBusyInstances

LEMMA RunsOut == IInv /\ OutOfAttempts => IInv'
  <1> SUFFICES ASSUME IInv, OutOfAttempts PROVE IInv'
    OBVIOUS
  <1>1. pc = "attempt" /\ attempt > 0
    BY IteratorAssumption DEF OutOfAttempts
  <1>2. toCheck = {} /\ \A i \in Phase : states[i] \notin {"not-started", "accepted", "failed"}
    BY <1>1 DEF IInv, Checking, BetweenAttempts
  <1> QED BY <1>1, <1>2, EndsWhenProcessed DEF OutOfAttempts

LEMMA Starts == IInv /\ StartRound => IInv'
  <1> SUFFICES ASSUME IInv, StartRound PROVE IInv'
    OBVIOUS
  <1> USE DEF IInv
  <1>1. /\ pc = "loop" /\ pc' = "trigger" /\ needed' = operationsToTriggerCount
        /\ UNCHANGED <<states, settings, processCanaries, pos, attempt, toCheck, failures, result>>
    BY DEF StartRound
  <1>2. Accepted' = Accepted /\ Failed' = Failed
    BY <1>1 DEF Accepted, Failed
  <1>3. needed' \in Int /\ needed' <= MaxInFlight - Cardinality(Accepted)
    BY <1>1, ToTrigger
  <1>4. TypeOK' /\ InFlight'
    BY <1>1, <1>2, <1>3 DEF TypeOK, InFlight, settings
  <1> QED BY <1>1, <1>2, <1>4 DEF Unregistered, OnlyCanaries, Checking, BetweenAttempts, Listing,
             Returning, SucceededMeansProcessed, settings

\* Nothing left in this attempt: a failure ends Iterate, otherwise the phase is over or goes on.
LEMMA Over == IInv /\ AttemptOver => IInv'
  <1> SUFFICES ASSUME IInv, AttemptOver PROVE IInv'
    OBVIOUS
  <1>1. /\ pc = "loop" /\ UNCHANGED <<states, settings, needed, toCheck, failures>>
        /\ \A i \in Phase : states[i] \notin {"not-started", "accepted"}
    BY InPhase DEF AttemptOver, HasInstancesToProcess, IInv
  <1>2. toCheck = {}
    BY <1>1 DEF IInv, Checking
  <1>3. CASE HasFailures /\ formatError
    <2>1. ASSUME Strategy = "BOSH" PROVE failures # {}
      <3>1. Failed # {}
        BY <1>3, InPhase DEF HasFailures, Failed, Phase, IInv, TypeOK
      <3> QED BY <2>1, <3>1 DEF IInv, Listing
    <2> QED BY <1>1, <1>2, <1>3, <2>1, EndOfPhase DEF formatError
  <1>4. CASE ~HasFailures
    <2>1. \A i \in Phase : states[i] # "failed"
      BY <1>4, InPhase DEF HasFailures, IInv
    <2>2. CASE checkStillBusyInstances
      BY <1>1, <1>2, <2>1, <2>2, EndsWhenProcessed
    <2>3. CASE pc' = "attempt" /\ UNCHANGED <<processCanaries, pos, attempt, result>>
      <3>1. Accepted' = Accepted /\ Failed' = Failed /\ Phase' = Phase
        BY <1>1, <2>3 DEF Accepted, Failed, Phase, settings
      <3>2. TypeOK' /\ OnlyCanaries'
        BY <1>1, <2>3 DEF IInv, TypeOK, OnlyCanaries, settings
      <3> QED BY <1>1, <1>2, <2>1, <2>3, <3>1, <3>2 DEF IInv, Unregistered, InFlight, Checking, BetweenAttempts,
                 Listing, Returning, SucceededMeansProcessed, TypeOK
    <2> QED BY <1>4, <2>2, <2>3 DEF AttemptOver
  <1> QED BY <1>3, <1>4 DEF AttemptOver

\* One more runs only if the count allows it; the instance had its first turn.
LEMMA Triggers == IInv /\ triggerOperation => IInv'
  <1> SUFFICES ASSUME IInv, triggerOperation PROVE IInv'
    OBVIOUS
  <1> USE DEF IInv
  <1>1. /\ pc = "trigger" /\ needed > 0
        /\ UNCHANGED <<settings, processCanaries, attempt, toCheck, pc, result>>
    BY DEF triggerOperation
  <1>2. PICK i \in Pending, answer \in TriggerResults :
          /\ pos' = i
          /\ SetState(i, IF answer = "error" THEN "failed" ELSE answer)
          /\ failures' = IF answer = "error" THEN failures \cup {i} ELSE failures
          /\ needed' = CASE answer = "error"    -> 0
                         [] answer = "accepted" -> needed - 1
                         [] OTHER               -> needed
    BY DEF triggerOperation
  <1> DEFINE s == IF answer = "error" THEN "failed" ELSE answer
  <1>3. s \in OperationStates /\ (s = "accepted" <=> answer = "accepted")
        /\ (Strategy = "BOSH" => (s = "failed" <=> answer = "error"))
    BY Answers DEF OperationStates
  <1>4. i \in Instances /\ states[i] = "not-started" /\ i \in Phase
    BY InPhase DEF Pending, Phase, TypeOK
  <1>5. SetState(i, s)
    BY <1>2
  <1> HIDE DEF s
  <1>6. states' \in [Instances -> OperationStates] /\ states'[i] = s
        /\ \A j \in Instances \ {i} : states'[j] = states[j]
    BY <1>3, <1>4, <1>5, OneState
  <1>7. TypeOK'
    <2>1. pos' \in 0..NumInstances
      BY <1>2, <1>4 DEF Instances
    <2>2. needed' \in Int /\ failures' \subseteq Instances
      BY <1>2, <1>4 DEF TypeOK
    <2> QED BY <1>1, <1>6, <2>1, <2>2 DEF TypeOK, settings
  <1>8. OnlyCanaries'
    BY <1>1, <1>4, <1>6 DEF OnlyCanaries, Phase, settings, TypeOK
  <1>9. InFlight'
    <2>1. Cardinality(Accepted) \in Nat /\ Cardinality(Accepted') \in Nat
      BY Finite DEF Accepted
    <2>2. CASE answer = "accepted"
      <3>1. Accepted' = Accepted \cup {i}
        BY <1>3, <1>4, <1>6, <2>2 DEF Accepted
      <3>2. Cardinality(Accepted') <= Cardinality(Accepted) + 1
        BY <1>4, <3>1, OneMore DEF Accepted
      <3> QED BY <1>1, <1>2, <2>1, <2>2, <3>2, IteratorAssumption DEF InFlight, TypeOK
    <2>3. CASE answer # "accepted"
      <3>1. Accepted' = Accepted
        BY <1>3, <1>4, <1>6, <2>3 DEF Accepted
      <3>2. needed' <= needed /\ needed' \in Int
        BY <1>1, <1>2, <2>3 DEF TypeOK
      <3> QED BY <1>1, <2>1, <3>1, <3>2, IteratorAssumption DEF InFlight, TypeOK
    <2> QED BY <2>2, <2>3
  <1>10. Listing'
    BY <1>2, <1>3, <1>4, <1>6 DEF Listing, Failed
  <1>11. Checking' /\ result = "none"
    BY <1>1 DEF Checking, Returning, TypeOK, Accepted
  <1> QED BY <1>1, <1>7, <1>8, <1>9, <1>10, <1>11 DEF Unregistered, BetweenAttempts, Returning, SucceededMeansProcessed

LEMMA StopsTriggering == IInv /\ StartPolling => IInv'
  <1> SUFFICES ASSUME IInv, StartPolling PROVE IInv'
    OBVIOUS
  <1> USE DEF IInv
  <1>1. /\ pc = "trigger" /\ pc' = "poll" /\ toCheck' = GetInstancesInStates({"accepted"})
        /\ UNCHANGED <<states, settings, processCanaries, attempt, needed, failures, result>>
        /\ pos' \in {NumInstances, pos}
    BY DEF StartPolling
  <1>2. toCheck' = Accepted /\ Accepted' = Accepted /\ Failed' = Failed /\ Accepted \subseteq Instances
    BY <1>1, Running DEF Accepted, Failed
  <1>3. TypeOK'
    <2>1. NumInstances \in 0..NumInstances
      BY IteratorAssumption
    <2>2. pos' \in 0..NumInstances
      BY <1>1, <2>1 DEF TypeOK
    <2> QED BY <1>1, <1>2, <2>2 DEF TypeOK, settings
  <1>4. OnlyCanaries' /\ Checking'
    BY <1>1, <1>2 DEF OnlyCanaries, Checking, settings
  <1> QED BY <1>1, <1>2, <1>3, <1>4 DEF Unregistered, InFlight, BetweenAttempts, Listing, Returning,
             SucceededMeansProcessed, TypeOK

LEMMA Polls == ASSUME NEW i \in Instances PROVE IInv /\ pollRunningTasks(i) => IInv'
  <1> SUFFICES ASSUME IInv, pollRunningTasks(i) PROVE IInv'
    OBVIOUS
  <1> USE DEF IInv
  <1>1. /\ pc = "poll" /\ i \in toCheck /\ toCheck' = toCheck \ {i}
        /\ UNCHANGED <<settings, processCanaries, pos, attempt, needed, pc, result>>
    BY DEF pollRunningTasks
  <1>2. PICK answer \in CheckResults :
          /\ SetState(i, IF answer = "error" THEN "failed" ELSE answer)
          /\ failures' = IF answer \in {"error", "failed"} THEN failures \cup {i} ELSE failures
    BY DEF pollRunningTasks
  <1> DEFINE s == IF answer = "error" THEN "failed" ELSE answer
  <1>3. s \in OperationStates /\ (s = "failed" <=> answer \in {"error", "failed"})
    BY DEF CheckResults, OperationStates, UnknownToCF
  <1>4. states[i] = "accepted"
    BY <1>1 DEF Checking, Accepted
  <1>5. SetState(i, s)
    BY <1>2
  <1> HIDE DEF s
  <1>6. states' \in [Instances -> OperationStates] /\ states'[i] = s
        /\ \A j \in Instances \ {i} : states'[j] = states[j]
    BY <1>3, <1>5, OneState
  <1>7. TypeOK'
    <2>1. failures' \subseteq Instances
      BY <1>2 DEF TypeOK
    <2> QED BY <1>1, <1>6, <2>1 DEF TypeOK, settings
  <1>8. OnlyCanaries'
    BY <1>1, <1>4, <1>6 DEF OnlyCanaries, settings
  <1>9. Accepted' \subseteq Accepted /\ Accepted \ {i} \subseteq Accepted'
    BY <1>4, <1>6 DEF Accepted
  <1>10. InFlight'
    <2>1. Cardinality(Accepted) \in Nat /\ Cardinality(Accepted') \in Nat
      BY Finite DEF Accepted
    <2>2. Cardinality(Accepted') <= Cardinality(Accepted)
      BY <1>9, Fewer DEF Accepted
    <2> QED BY <1>1, <2>1, <2>2, IteratorAssumption DEF InFlight
  <1>11. Listing'
    BY <1>2, <1>3, <1>4, <1>6 DEF Listing, Failed
  <1>12. Checking' /\ result = "none"
    BY <1>1, <1>9 DEF Checking, Returning, TypeOK
  <1> QED BY <1>1, <1>7, <1>8, <1>10, <1>11, <1>12 DEF Unregistered, BetweenAttempts, Returning, SucceededMeansProcessed

LEMMA RoundEnds == IInv /\ RoundOver => IInv'
  <1> SUFFICES ASSUME IInv, RoundOver PROVE IInv'
    OBVIOUS
  <1>1. pc = "poll" /\ toCheck = {} /\ UNCHANGED <<states, settings, needed, toCheck, failures>>
    BY DEF RoundOver
  <1>2. CASE processCanaries /\ formatError
    BY <1>1, <1>2, EndOfPhase DEF formatError
  <1>3. CASE pc' = "loop" /\ UNCHANGED <<processCanaries, pos, attempt, result>>
    <2>1. Accepted' = Accepted /\ Failed' = Failed
      BY <1>1 DEF Accepted, Failed
    <2>2. TypeOK' /\ OnlyCanaries'
      BY <1>1, <1>3 DEF IInv, TypeOK, OnlyCanaries, settings
    <2> QED BY <1>1, <1>3, <2>1, <2>2 DEF IInv, Unregistered, InFlight, Checking, BetweenAttempts,
               Listing, Returning, SucceededMeansProcessed, TypeOK
  <1> QED BY <1>2, <1>3 DEF RoundOver
-----------------------------------------------------------------------------
\* Inductive: the initial states satisfy IInv and every step keeps it.
LEMMA IInvInit == Init => IInv
  <1> SUFFICES ASSUME Init PROVE IInv
    OBVIOUS
  <1>1. Accepted = {} /\ Failed = {}
    BY DEF Init, Accepted, Failed
  <1>2. Cardinality(Accepted) = 0
    BY <1>1, FS_EmptySet
  <1>3. TypeOK
    <2>1. 0 \in 0..NumInstances /\ 0 \in 0..AttemptLimit /\ 0 \in Int /\ canaryLimit \in Nat
      BY IteratorAssumption DEF Init
    <2>2. states \in [Instances -> OperationStates]
      BY DEF Init, OperationStates
    <2> QED BY <2>1, <2>2 DEF Init, TypeOK
  <1>4. InFlight
    BY <1>2, IteratorAssumption DEF Init, InFlight
  <1> QED BY <1>1, <1>3, <1>4 DEF Init, IInv, Unregistered, OnlyCanaries, Checking, BetweenAttempts, Listing,
             Returning, SucceededMeansProcessed

LEMMA IInvNext == IInv /\ [Next]_iteratorVars => IInv'
  <1> SUFFICES ASSUME IInv, [Next]_iteratorVars PROVE IInv'
    OBVIOUS
  <1>1. CASE UNCHANGED iteratorVars
    BY <1>1 DEF iteratorVars, IInv, TypeOK, Unregistered, OnlyCanaries, InFlight, Accepted, Checking,
       BetweenAttempts, Phase, Listing, Failed, Returning, SucceededMeansProcessed
  <1> QED BY <1>1, Registers, Rewinds, RunsOut, Starts, Over, Triggers, StopsTriggering, Polls, RoundEnds
             DEF Next, Returned-----------------------------------------------------------------------------
\* What a step does to the states: only pending instances are triggered, only busy ones become
\* pending again, only running ones are checked.
LEMMA OnceEach ==
  ASSUME IInv, [Next]_iteratorVars, NEW i \in Instances
  PROVE  /\ states[i] \in Settled => states'[i] = states[i]
         /\ states[i] = "accepted" => states'[i] \in {"accepted", "succeeded", "failed", "unknown"}
  <1> DEFINE Goal == /\ states[i] \in Settled => states'[i] = states[i]
                     /\ states[i] = "accepted" => states'[i] \in {"accepted", "succeeded", "failed", "unknown"}
  <1>0. states \in [Instances -> OperationStates]
    BY DEF IInv, TypeOK
  <1>1. ASSUME UNCHANGED states PROVE Goal
    BY <1>1
  <1>2. CASE RewindAndResetBusyInstances
    <2>1. states'[i] = IF states[i] = "busy" THEN "not-started" ELSE states[i]
      BY <1>0, <1>2 DEF RewindAndResetBusyInstances
    <2> QED BY <2>1 DEF Settled, Processed
  <1>3. CASE triggerOperation
    <2>1. PICK j \in Pending : \E s : SetState(j, s)
      BY <1>3 DEF triggerOperation
    <2>2. states[j] = "not-started"
      BY <2>1, InPhase DEF Pending, IInv
    <2> QED BY <1>0, <2>1, <2>2 DEF SetState, Settled, Processed
  <1>4. ASSUME NEW j \in Instances, pollRunningTasks(j) PROVE Goal
    <2>1. PICK answer \in CheckResults : SetState(j, IF answer = "error" THEN "failed" ELSE answer)
      BY <1>4 DEF pollRunningTasks
    <2> DEFINE s == IF answer = "error" THEN "failed" ELSE answer
    <2>2. states[j] = "accepted"
      BY <1>4 DEF pollRunningTasks, IInv, Checking, Accepted
    <2>3. s \in {"accepted", "succeeded", "failed", "unknown"} /\ SetState(j, s)
      BY <2>1 DEF CheckResults, UnknownToCF
    <2> HIDE DEF s
    <2>4. states'[i] = IF i = j THEN s ELSE states[i]
      BY <1>0, <2>3 DEF SetState
    <2> QED BY <2>2, <2>3, <2>4 DEF Settled, Processed
  <1> HIDE DEF Goal
  <1>5. Goal
    BY <1>1, <1>2, <1>3, <1>4 DEF Next, Goal, iteratorVars, registerInstancesAndCanaries, OutOfAttempts, StartRound,
       AttemptOver, StartPolling, RoundOver, Returned
  <1> QED BY <1>5 DEF Goal

\* What the end of the canary phase says of the canaries.
PhasePassed ==
  /\ \A i \in Instances \ canary : states[i] = "not-started"
  /\ \A i \in canary : states[i] \notin {"failed", "accepted"}
  /\ LET done == {i \in canary : states[i] \in Processed}
     IN  done = canary \/ (canaryLimit > 0 /\ Cardinality(done) >= canaryLimit)

LEMMA AllPassed ==
  ASSUME Strategy = "BOSH", IInv, processCanaries,
         \A i \in canary : states[i] \notin {"not-started", "accepted", "failed", "busy"}
  PROVE  PhasePassed
  <1>1. \A i \in canary : states[i] \in Processed
    BY NoneLeft DEF IInv, Phase
  <1> QED BY <1>1 DEF PhasePassed, IInv, OnlyCanaries
LEMMA EnoughPassed ==
  ASSUME Strategy = "BOSH", IInv, processCanaries, canariesCompleted, \A i \in canary : states[i] \notin {"accepted", "failed"}
  PROVE  PhasePassed
  <1> DEFINE completed == {i \in canary : isFinalState(states[i])}
             done == {i \in canary : states[i] \in Processed}
  <1>1. \A i \in canary : states[i] \in OperationStates
    BY DEF IInv, TypeOK
  <1>2. completed = done
    BY <1>1 DEF OperationStates, UnknownToCF, isFinalState, Processed
  <1>3. /\ canaryLimit = 0 => completed = canary
        /\ Cardinality(completed) >= canaryLimit
    BY DEF canariesCompleted
  <1>4. canaryLimit \in Nat
    BY DEF IInv, TypeOK
  <1> HIDE DEF completed, done
  <1>5. done = canary \/ (canaryLimit > 0 /\ Cardinality(done) >= canaryLimit)
    BY <1>2, <1>3, <1>4
  <1> QED BY <1>5 DEF PhasePassed, IInv, OnlyCanaries, done

\* An attempt without failures ends the phase only when no canary is busy or enough are done.
LEMMA PassedAttempt ==
  ASSUME Strategy = "BOSH", IInv, processCanaries, ~processCanaries', checkStillBusyInstances,
         \A i \in canary : states[i] \notin {"not-started", "accepted", "failed"}
  PROVE  PhasePassed
  <1>1. BusyInstances = {} \/ canariesCompleted
    BY DEF checkStillBusyInstances, ReturnError
  <1>2. CASE BusyInstances = {}
    <2>1. \A i \in canary : states[i] # "busy"
      BY <1>2, InPhase DEF BusyInstances, Phase, IInv
    <2> QED BY <2>1, AllPassed
  <1> QED BY <1>1, <1>2, EnoughPassed

LEMMA CanariesStep ==
  ASSUME Strategy = "BOSH", IInv, [Next]_iteratorVars, processCanaries, ~processCanaries'
  PROVE  PhasePassed
  <1>0. Phase = canary
    BY DEF Phase
  <1>1. CASE OutOfAttempts
    <2>1. pc = "attempt" /\ attempt > 0
      BY <1>1, IteratorAssumption DEF OutOfAttempts
    <2> QED BY <1>0, <1>1, <2>1, PassedAttempt DEF OutOfAttempts, IInv, BetweenAttempts
  <1>f. ASSUME \E i \in canary : states[i] = "failed", formatError PROVE FALSE
    <2>1. Failed # {}
      BY <1>f DEF Failed, IInv, TypeOK
    <2>2. failures # {}
      BY <2>1 DEF IInv, Listing
    <2> QED BY <1>f, <2>2 DEF formatError, ReturnError
  <1>2. CASE AttemptOver
    <2>1. \A i \in canary : states[i] \notin {"not-started", "accepted"}
      BY <1>0, <1>2, InPhase DEF AttemptOver, HasInstancesToProcess, IInv
    <2>2. ~HasFailures
      <3> SUFFICES ASSUME HasFailures PROVE FALSE
        OBVIOUS
      <3>1. \E i \in canary : states[i] = "failed"
        BY <1>0, InPhase DEF HasFailures, IInv
      <3>2. formatError
        BY <1>2 DEF AttemptOver
      <3> QED BY <1>f, <3>1, <3>2
    <2>3. \A i \in canary : states[i] # "failed"
      BY <1>0, <2>2, InPhase DEF HasFailures, IInv
    <2>4. checkStillBusyInstances
      BY <1>2, <2>2 DEF AttemptOver
    <2> QED BY <2>1, <2>3, <2>4, PassedAttempt
  <1>3. CASE RoundOver
    <2>1. formatError /\ ~HasInstancesProcessing /\ canariesCompleted
      BY <1>3 DEF RoundOver, CurrentPhaseIsComplete
    <2>2. \A i \in canary : states[i] \notin {"accepted", "failed"}
      BY <1>0, <1>f, <2>1, InPhase DEF HasInstancesProcessing, IInv
    <2> QED BY <2>1, <2>2, EnoughPassed
  <1>4. CASE registerInstancesAndCanaries
    BY <1>4 DEF registerInstancesAndCanaries, IInv, Unregistered
  <1> QED BY <1>1, <1>2, <1>3, <1>4 DEF Next, iteratorVars, RewindAndResetBusyInstances, StartRound,
             triggerOperation, StartPolling, pollRunningTasks, Returned
-----------------------------------------------------------------------------
\* IInvHolds: the inductive invariant is an invariant.
THEOREM IInvHolds == Spec => []IInv
  BY IInvInit, IInvNext, PTL DEF Spec

\* TypeCorrect: every variable stays in its domain.
THEOREM TypeCorrect == Spec => []TypeOK
  <1>1. IInv => TypeOK
    BY DEF IInv
  <1> QED BY <1>1, IInvHolds, PTL

\* InFlightBounded: however triggers, checks, phases and attempts follow one another, at
\* most max_in_flight operations run (iterator.go:220).
THEOREM InFlightBounded == Spec => []AtMostMaxInFlight
  <1>1. IInv => AtMostMaxInFlight
    BY DEF IInv, InFlight, Accepted, AtMostMaxInFlight
  <1> QED BY <1>1, IInvHolds, PTL

\* NoneTwice: an instance whose operation was accepted or is over is never triggered
\* again (iterator_state.go:92, 118).
THEOREM NoneTwice == Spec => ProcessedOnce
  <1>1. IInv /\ [Next]_iteratorVars =>
          [\A i \in Instances :
             /\ states[i] \in Settled => states'[i] = states[i]
             /\ states[i] = "accepted" => states'[i] \in {"accepted", "succeeded", "failed", "unknown"}]_iteratorVars
    BY OnceEach
  <1> QED BY <1>1, IInvHolds, PTL DEF Spec, ProcessedOnce

\* FailuresListed: with the broker's answers the summary names exactly the instances that
\* failed (iterator.go:304).
THEOREM FailuresListed ==
  ASSUME Strategy = "BOSH" PROVE Spec => []FailuresReported
  <1>1. IInv => FailuresReported
    BY DEF IInv, Listing, Failed, FailuresReported
  <1> QED BY <1>1, IInvHolds, PTL

\* SuccessIsReal: with the broker's answers Iterate only returns without an error when every
\* instance was processed and none failed (iterator.go:267).
THEOREM SuccessIsReal ==
  ASSUME Strategy = "BOSH" PROVE Spec => []SucceededMeansProcessed
  <1>1. IInv => SucceededMeansProcessed
    BY DEF IInv, Returning
  <1> QED BY <1>1, IInvHolds, PTL

\* CanariesGoFirst: the other instances only get their turn when no canary has failed or is still
\* running and as many as required are done, or all there are (iterator.go:157).
THEOREM CanariesGoFirst ==
  ASSUME Strategy = "BOSH" PROVE Spec => CanariesPassFirst
  <1>1. IInv /\ [Next]_iteratorVars =>
          [processCanaries /\ ~processCanaries' =>
             /\ \A i \in Instances \ canary : states[i] = "not-started"
             /\ \A i \in canary : states[i] \notin {"failed", "accepted"}
             /\ LET done == {i \in canary : states[i] \in Processed}
                IN  done = canary \/ (canaryLimit > 0 /\ Cardinality(done) >= canaryLimit)]_iteratorVars
    BY CanariesStep DEF PhasePassed
  <1> QED BY <1>1, IInvHolds, PTL DEF Spec, CanariesPassFirst
-----------------------------------------------------------------------------
\* CanariesExist: without selection parameters no more canaries are asked for than there are
\* instances; otherwise the attempts are repeated for nothing (iterator_state.go:211).
CanariesExist == FALSE \in Selections => \A c \in CanaryCounts : c <= NumInstances

\* As many canaries as required can be had, and what is left for another attempt is busy.
EnoughCanaries ==
  /\ pc = "register" => canaryLimit \in CanaryCounts
  /\ processCanaries => canaryLimit <= Cardinality(canary)
BusyIsLeft == pc = "attempt" /\ attempt > 0 => BusyInstances # {}
BusyInv    == IInv /\ EnoughCanaries /\ BusyIsLeft

\* Registering: the canaries required are among the instances or among those selected.
LEMMA EnoughRegistered ==
  CanariesExist /\ BusyInv /\ registerInstancesAndCanaries => EnoughCanaries' /\ BusyIsLeft'
  <1> SUFFICES ASSUME CanariesExist, BusyInv, registerInstancesAndCanaries
               PROVE  EnoughCanaries' /\ BusyIsLeft'
    OBVIOUS
  <1>1. pc = "register" /\ canaryLimit \in CanaryCounts /\ ~processCanaries /\ attempt = 0 /\ attempt' = attempt
    BY DEF BusyInv, IInv, EnoughCanaries, Unregistered, registerInstancesAndCanaries
  <1>2. CASE pc' = "done" /\ UNCHANGED <<settings, processCanaries>>
    BY <1>1, <1>2 DEF EnoughCanaries, BusyIsLeft, settings
  <1>3. ASSUME NEW selected \in Selections, NEW chosen \in SUBSET Instances,
               selected \in BOOLEAN,
               IF selected THEN chosen = {} => Instances = {}
                           ELSE chosen = IF canaryLimit > 0 THEN Instances ELSE {},
               canary' = chosen,
               canaryLimit' = IF selected /\ Cardinality(chosen) < canaryLimit
                              THEN Cardinality(chosen) ELSE canaryLimit,
               processCanaries' = (chosen # {}), pc' = "attempt"
        PROVE  EnoughCanaries' /\ BusyIsLeft'
    <2>1. Cardinality(chosen) \in Nat /\ canaryLimit \in Nat
      BY <1>1, Finite, IteratorAssumption
    <2>2. CASE selected
      BY <1>1, <1>3, <2>1, <2>2 DEF EnoughCanaries, BusyIsLeft
    <2>3. CASE ~selected
      <3>1. FALSE \in Selections
        BY <1>3, <2>3
      <3>2. canaryLimit <= NumInstances
        BY <1>1, <3>1 DEF CanariesExist
      <3>3. processCanaries' => chosen = Instances
        BY <1>3, <2>3
      <3>4. Cardinality(Instances) = NumInstances
        BY FS_Interval, IteratorAssumption DEF Instances
      <3>5. canaryLimit' = canaryLimit
        BY <1>3, <2>3
      <3> QED BY <1>1, <1>3, <3>2, <3>3, <3>4, <3>5 DEF EnoughCanaries, BusyIsLeft
    <2> QED BY <1>3, <2>2, <2>3
  <1> QED BY <1>2, <1>3 DEF registerInstancesAndCanaries

\* A phase that is not complete although nothing of it is pending, running or failed has a
\* busy instance: all of them processed would complete it.
LEMMA IncompleteIsBusy ==
  ASSUME BusyInv, ~HasInstancesToProcess, ~HasFailures, ~CurrentPhaseIsComplete
  PROVE  BusyInstances # {}
  <1> SUFFICES ASSUME BusyInstances = {} PROVE FALSE
    OBVIOUS
  <1>1. TypeOK /\ EnoughCanaries
    BY DEF BusyInv, IInv
  <1>2. \A i \in Phase : states[i] \notin {"not-started", "accepted", "failed", "busy"}
    BY <1>1, InPhase DEF HasInstancesToProcess, HasFailures, BusyInstances
  <1>3. \A i \in Phase : isFinalState(states[i])
    BY <1>2 DEF isFinalState
  <1>4. CASE processCanaries
    <2>1. {i \in canary : isFinalState(states[i])} = canary
      BY <1>3, <1>4 DEF Phase
    <2>2. canaryLimit <= Cardinality(canary) /\ canaryLimit \in Nat /\ Cardinality(canary) \in Nat
      BY <1>1, <1>4, Finite DEF EnoughCanaries, TypeOK
    <2> QED BY <1>4, <2>1, <2>2 DEF CurrentPhaseIsComplete, canariesCompleted
  <1>5. CASE ~processCanaries
    BY <1>3, <1>5 DEF CurrentPhaseIsComplete, allCompleted, Phase
  <1> QED BY <1>4, <1>5

\* The end of a phase starts the next one with its first attempt.
LEMMA PhaseEnds ==
  ASSUME BusyInv, pc # "register", UNCHANGED settings, ReturnError \/ ReturnNil
  PROVE  EnoughCanaries' /\ BusyIsLeft'
  BY DEF BusyInv, EnoughCanaries, BusyIsLeft, ReturnError, ReturnNil, settings

LEMMA BusyInit == Init => BusyInv
  <1> SUFFICES ASSUME Init PROVE BusyInv
    OBVIOUS
  <1>1. IInv
    BY IInvInit
  <1> QED BY <1>1 DEF Init, BusyInv, EnoughCanaries, BusyIsLeft

\* Only the end of an attempt leads to another one of the same phase (iterator.go:173).
LEMMA BusyNext == CanariesExist /\ BusyInv /\ [Next]_iteratorVars => BusyInv'
  <1> SUFFICES ASSUME CanariesExist, BusyInv, [Next]_iteratorVars
               PROVE  EnoughCanaries' /\ BusyIsLeft'
    BY IInvNext DEF BusyInv
  <1>1. CASE registerInstancesAndCanaries
    BY <1>1, EnoughRegistered
  <1>2. CASE RewindAndResetBusyInstances \/ StartRound
    BY <1>2 DEF RewindAndResetBusyInstances, StartRound, BusyInv, EnoughCanaries, BusyIsLeft, settings
  <1>3. CASE OutOfAttempts
    <2>1. pc # "register" /\ UNCHANGED settings /\ (ReturnError \/ ReturnNil)
      BY <1>3 DEF OutOfAttempts, checkStillBusyInstances
    <2> QED BY <2>1, PhaseEnds
  <1>4. CASE AttemptOver
    <2>1. pc = "loop" /\ ~HasInstancesToProcess /\ UNCHANGED settings /\ states' = states
      BY <1>4 DEF AttemptOver
    <2>2. CASE ReturnError \/ ReturnNil
      BY <2>1, <2>2, PhaseEnds
    <2>3. CASE /\ ~HasFailures /\ ~CurrentPhaseIsComplete
               /\ pc' = "attempt" /\ UNCHANGED <<processCanaries, pos, attempt, result>>
      <3>1. BusyInstances # {}
        BY <2>1, <2>3, IncompleteIsBusy
      <3>2. BusyInstances' = BusyInstances
        BY <2>1, <2>3 DEF BusyInstances, GetInstancesInStates, settings
      <3> QED BY <2>1, <2>3, <3>1, <3>2 DEF BusyInv, EnoughCanaries, BusyIsLeft, settings
    <2> QED BY <1>4, <2>2, <2>3 DEF AttemptOver, formatError, checkStillBusyInstances
  <1>5. CASE triggerOperation \/ StartPolling \/ \E i \in Instances : pollRunningTasks(i)
    <2>1. pc' # "attempt" /\ pc # "register" /\ UNCHANGED <<settings, processCanaries>> /\ pc' # "register"
      BY <1>5 DEF triggerOperation, StartPolling, pollRunningTasks
    <2> QED BY <2>1 DEF BusyInv, EnoughCanaries, BusyIsLeft, settings
  <1>6. CASE RoundOver
    <2>1. pc = "poll" /\ UNCHANGED settings
      BY <1>6 DEF RoundOver
    <2>2. CASE ReturnError \/ ReturnNil
      BY <2>1, <2>2, PhaseEnds
    <2>3. CASE pc' = "loop" /\ UNCHANGED <<processCanaries, pos, attempt, result>>
      BY <2>1, <2>3 DEF BusyInv, EnoughCanaries, BusyIsLeft, settings
    <2> QED BY <1>6, <2>2, <2>3 DEF RoundOver, formatError
  <1>7. CASE UNCHANGED iteratorVars
    BY <1>7 DEF iteratorVars, BusyInv, EnoughCanaries, BusyIsLeft, BusyInstances, GetInstancesInStates
  <1> QED BY <1>1, <1>2, <1>3, <1>4, <1>5, <1>6, <1>7 DEF Next, Returned

\* BusyInvHolds: with canaries that exist an attempt that did not end its phase left a busy
\* instance behind (iterator.go:162).
THEOREM BusyInvHolds ==
  ASSUME CanariesExist PROVE Spec => []BusyInv
  BY BusyInit, BusyNext, PTL DEF Spec

\* RetriesAreForBusy: with canaries that exist another attempt, after the attempt interval, is
\* only made when an instance was busy in the one before (iterator.go:143).
THEOREM RetriesAreForBusy ==
  ASSUME CanariesExist PROVE Spec => RetriesOnlyBusy
  <1>1. BusyInv /\ [Next]_iteratorVars => [attempt' > attempt /\ attempt > 0 => BusyInstances # {}]_iteratorVars
    <2> SUFFICES ASSUME BusyInv, Next, attempt' > attempt, attempt > 0 PROVE BusyInstances # {}
      OBVIOUS
    <2>1. attempt \in Nat /\ BusyIsLeft
      BY IteratorAssumption DEF BusyInv, IInv, TypeOK
    <2>2. attempt' \in {attempt, 0} \/ pc = "attempt"
      BY DEF Next, registerInstancesAndCanaries, OutOfAttempts, StartRound, AttemptOver, triggerOperation,
             StartPolling, pollRunningTasks, RoundOver, Returned, iteratorVars, RewindAndResetBusyInstances,
             formatError, checkStillBusyInstances, ReturnError, ReturnNil
    <2> QED BY <2>1, <2>2 DEF BusyIsLeft
  <1> QED BY <1>1, BusyInvHolds, PTL DEF Spec, RetriesOnlyBusy
=============================================================================
