----------------------------- MODULE ServerProofs -----------------------------
(***************************************************************************)
(* Theorems about bindings and the process: type correctness, what is      *)
(* bound is usable, what is gone has left nothing, a graceful stop cuts no *)
(* request; for any bindings and goroutines.                               *)
(***************************************************************************)
EXTENDS Server, TLAPS

Steps == BindSteps \cup UnbindSteps
Work  == [at : Steps, binding : Bindings, heard : BOOLEAN]

Clean(a, s)  == a = "none" /\ s = "none"
Usable(a, s) == a # "none" /\ (a = "made" => s # "none")

\* What an undisturbed binding looks like in the service and in CredHub, by Cloud Foundry's
\* record of it: nothing is left of what is not there, and of an orphan the service knows
\* as long as CredHub does, so that an unbind gets to both.
Rests(r, a, s) ==
  /\ r \in {"new", "gone"} => Clean(a, s)
  /\ r = "bound" => Usable(a, s)
  /\ r = "orphaned" => (a = "none" => s = "none")

\* And by the place its handler has come to.
Fits(step, r, a, s) ==
  /\ step \in {"bind", "bindGather", "create"} => Clean(a, s)
  /\ step = "store" => a = "made"
  /\ step = "permit" => a = "made" /\ s # "none"
  /\ step \in {"unbind", "unbindGather", "delete"} =>
       /\ r = "unbinding" => Usable(a, s)
       /\ r = "mitigating" => (a = "none" => s = "none")
  /\ step = "forget" => a = "none"

\* A request that is waited for is on Cloud Foundry's record, and is the only one of its
\* binding; one that is not waited for has disturbed it.
Requests ==
  /\ \A g \in Running : handler[g].heard =>
       /\ handler[g].at \in BindSteps => record[Of(g)] = "binding"
       /\ handler[g].at \in UnbindSteps => record[Of(g)] \in {"unbinding", "mitigating"}
  /\ \A g, h \in Running : Of(g) = Of(h) /\ handler[g].heard /\ handler[h].heard => g = h
  /\ \A g \in Running : ~handler[g].heard => Of(g) \in disturbed

\* Without a deployment there is no binding that the code could still take care of.
Traces ==
  /\ \A b \in Bindings \ disturbed :
       /\ Rests(record[b], adapter[b], stored[b])
       /\ ~deployed => record[b] \in {"new", "gone"}
  /\ \A g \in Running : Of(g) \notin disturbed =>
       Fits(handler[g].at, record[Of(g)], adapter[Of(g)], stored[Of(g)])

\* The inductive invariant of the requests, and of the process around them.
BInv == BindingsTypeOK /\ LockedInside /\ Requests /\ Traces
PInv == /\ stopper = "off" <=> main \in {"off", "checks", "host"}
        /\ stopper = "stopped" => late \/ Running = {}
IInv == TypeOK /\ Requests /\ Traces /\ PInv
-----------------------------------------------------------------------------
LEMMA RunningWorks ==
  ASSUME BindingsTypeOK, NEW g \in Running
  PROVE  g \in Goroutines /\ handler[g] \in Work /\ Of(g) \in Bindings /\ handler[g].at \in Steps
         /\ record[Of(g)] \in Records /\ handler[g].heard \in BOOLEAN /\ handler[g].at # "idle"
  BY DEF Running, BindingsTypeOK, Work, Steps, Idle, Of, BindSteps, UnbindSteps

LEMMA At ==
  ASSUME NEW r \in Work, NEW s \in Steps
  PROVE  /\ [r EXCEPT !.at = s] \in Work /\ [r EXCEPT !.at = s].at = s
         /\ [r EXCEPT !.at = s].binding = r.binding /\ [r EXCEPT !.at = s].heard = r.heard
  BY DEF Work
LEMMA Unheard ==
  ASSUME NEW r \in Work
  PROVE  /\ [r EXCEPT !.heard = FALSE] \in Work /\ [r EXCEPT !.heard = FALSE].at = r.at
         /\ [r EXCEPT !.heard = FALSE].binding = r.binding /\ ~[r EXCEPT !.heard = FALSE].heard
  BY DEF Work

LEMMA IdleIsNoWork == Idle.at = "idle" /\ "idle" \notin Steps /\ "idle" \notin Locked
  BY DEF Idle, Steps, BindSteps, UnbindSteps, Locked

\* A handler that goes on to its next call keeps types and lock.
LEMMA GoesOn ==
  ASSUME BindingsTypeOK, LockedInside, NEW g \in Running, NEW s \in Steps, GoesTo(g, s),
         s \in Locked => bindLock \in {None, g}
  PROVE  /\ handler' \in [Goroutines -> {Idle} \cup Work] /\ bindLock' \in Goroutines \cup {None}
         /\ LockedInside' /\ Running' = Running
         /\ \A h \in Goroutines \ {g} : handler'[h] = handler[h]
         /\ handler'[g].at = s /\ handler'[g].binding = Of(g) /\ handler'[g].heard = handler[g].heard
  <1> DEFINE r == [handler[g] EXCEPT !.at = s]
  <1>1. g \in Goroutines /\ handler[g] \in Work /\ handler[g].at # "idle"
    BY RunningWorks
  <1>2. r \in Work /\ r.at = s /\ r.binding = Of(g) /\ r.heard = handler[g].heard
    BY <1>1, At DEF Of
  <1>3. handler \in [Goroutines -> {Idle} \cup Work]
    BY DEF BindingsTypeOK, Work, Steps
  <1>4. handler' = [handler EXCEPT ![g] = r]
    BY DEF GoesTo
  <1>5. handler'[g] = r /\ \A h \in Goroutines \ {g} : handler'[h] = handler[h]
    BY <1>1, <1>3, <1>4
  <1> HIDE DEF r
  <1>6. handler' \in [Goroutines -> {Idle} \cup Work]
    BY <1>1, <1>2, <1>3, <1>4
  <1>7. Running' = Running
    BY <1>1, <1>2, <1>5, IdleIsNoWork DEF Running
  <1>8. bindLock' \in Goroutines \cup {None}
    BY <1>1 DEF GoesTo, BindingsTypeOK
  <1>9. LockedInside'
    BY <1>1, <1>2, <1>5, BindingsAssumption DEF LockedInside, GoesTo
  <1> QED BY <1>2, <1>5, <1>6, <1>7, <1>8, <1>9

\* So does one that answers.
LEMMA Ended ==
  ASSUME BindingsTypeOK, LockedInside, NEW g \in Running, NEW a, Answers(g, a)
  PROVE  /\ handler' \in [Goroutines -> {Idle} \cup Work] /\ bindLock' \in Goroutines \cup {None}
         /\ LockedInside' /\ Running' = Running \ {g}
         /\ \A h \in Goroutines \ {g} : handler'[h] = handler[h]
         /\ record' \in [Bindings -> Records]
         /\ \A b \in Bindings \ {Of(g)} : record'[b] = record[b]
         /\ record'[Of(g)] = IF handler[g].heard THEN Heard(record[Of(g)], a) ELSE record[Of(g)]
  <1>1. g \in Goroutines /\ Of(g) \in Bindings
    BY RunningWorks
  <1>2. handler \in [Goroutines -> {Idle} \cup Work] /\ record \in [Bindings -> Records]
    BY DEF BindingsTypeOK, Work, Steps
  <1>3. handler' = [handler EXCEPT ![g] = Idle]
    BY DEF Answers
  <1>4. handler'[g] = Idle /\ \A h \in Goroutines \ {g} : handler'[h] = handler[h]
    BY <1>1, <1>2, <1>3
  <1>5. handler' \in [Goroutines -> {Idle} \cup Work] /\ Running' = Running \ {g}
    BY <1>2, <1>3, <1>4, IdleIsNoWork DEF Running
  <1>6. bindLock' \in Goroutines \cup {None}
    BY DEF Answers, BindingsTypeOK
  <1>7. LockedInside'
    BY <1>1, <1>4, BindingsAssumption, IdleIsNoWork DEF LockedInside, Answers
  <1>8. Heard(record[Of(g)], a) \in Records
    BY DEF Heard, Records
  <1>9. record' \in [Bindings -> Records] /\ \A b \in Bindings \ {Of(g)} : record'[b] = record[b]
    BY <1>1, <1>2, <1>8 DEF Answers
  <1>10. record'[Of(g)] = IF handler[g].heard THEN Heard(record[Of(g)], a) ELSE record[Of(g)]
    BY <1>1, <1>2 DEF Answers
  <1> QED BY <1>4, <1>5, <1>6, <1>7, <1>9, <1>10
-----------------------------------------------------------------------------
\* What a call may change besides: the service and CredHub, for its own binding.
Touches(b) ==
  /\ deployed' = deployed /\ adapter' \in [Bindings -> {"none", "bare", "made"}]
  /\ stored' \in [Bindings -> {"none", "stored", "readable"}]
  /\ \A c \in Bindings \ {b} : adapter'[c] = adapter[c] /\ stored'[c] = stored[c]
  /\ disturbed \subseteq disturbed' /\ disturbed' \subseteq disturbed \cup {b}

\* What the request of an undisturbed binding is.
LEMMA Undisturbed ==
  ASSUME BInv, NEW g \in Running, Of(g) \notin disturbed
  PROVE  /\ handler[g].heard /\ \A h \in Running : Of(h) = Of(g) => h = g
         /\ handler[g].at \in BindSteps => record[Of(g)] = "binding"
         /\ handler[g].at \in UnbindSteps => record[Of(g)] \in {"unbinding", "mitigating"}
         /\ deployed
         /\ Fits(handler[g].at, record[Of(g)], adapter[Of(g)], stored[Of(g)])
  <1>1. handler[g].heard
    BY DEF BInv, Requests
  <1>2. \A h \in Running : Of(h) = Of(g) => h = g
    BY <1>1 DEF BInv, Requests
  <1>3. /\ handler[g].at \in BindSteps => record[Of(g)] = "binding"
        /\ handler[g].at \in UnbindSteps => record[Of(g)] \in {"unbinding", "mitigating"}
    BY <1>1 DEF BInv, Requests
  <1>4. handler[g].at \in BindSteps \cup UnbindSteps /\ Of(g) \in Bindings
    BY RunningWorks DEF BInv, Steps
  <1>5. deployed
    BY <1>3, <1>4 DEF BInv, Traces
  <1> QED BY <1>1, <1>2, <1>3, <1>5 DEF BInv, Traces

\* A call that goes on keeps the invariant if its binding then fits the next place.
LEMMA Proceeds ==
  ASSUME BInv, NEW g \in Running, NEW s \in Steps, GoesTo(g, s),
         s \in Locked => bindLock \in {None, g},
         handler[g].at \in BindSteps <=> s \in BindSteps,
         record' = record, Touches(Of(g)),
         Of(g) \notin disturbed' => Fits(s, record[Of(g)], adapter'[Of(g)], stored'[Of(g)])
  PROVE  BInv' /\ Running' = Running
  <1>1. /\ handler' \in [Goroutines -> {Idle} \cup Work] /\ bindLock' \in Goroutines \cup {None}
        /\ LockedInside' /\ Running' = Running
        /\ \A h \in Goroutines \ {g} : handler'[h] = handler[h]
        /\ handler'[g].at = s /\ handler'[g].binding = Of(g) /\ handler'[g].heard = handler[g].heard
    BY GoesOn DEF BInv
  <1>2. g \in Goroutines /\ Of(g) \in Bindings /\ handler[g].at \in Steps /\ Running \subseteq Goroutines
    BY RunningWorks DEF BInv, Running
  <1>3. BindingsTypeOK'
    BY <1>1, <1>2 DEF BInv, BindingsTypeOK, Touches, Work, Steps
  <1>4. \A h \in Running : /\ handler'[h].binding = handler[h].binding
                           /\ handler'[h].heard = handler[h].heard
                           /\ h # g => handler'[h].at = handler[h].at
    BY <1>1, <1>2 DEF Of
  <1>5. \A h \in Running : (Of(h))' = Of(h)
    BY <1>4 DEF Of
  <1>6. handler[g].at \in UnbindSteps <=> s \in UnbindSteps
    BY <1>2 DEF Steps, BindSteps, UnbindSteps
  <1>7. Requests'
    <2>1. ASSUME NEW h \in Running, handler[h].heard
          PROVE  /\ handler'[h].at \in BindSteps => record[Of(h)] = "binding"
                 /\ handler'[h].at \in UnbindSteps => record[Of(h)] \in {"unbinding", "mitigating"}
      BY <1>1, <1>4, <1>6, <2>1 DEF BInv, Requests
    <2> QED BY <1>1, <1>4, <1>5, <2>1 DEF BInv, Requests, Touches
  <1>8. Traces'
    <2>1. ASSUME NEW b \in Bindings \ disturbed'
          PROVE  Rests(record[b], adapter'[b], stored'[b]) /\ (~deployed => record[b] \in {"new", "gone"})
      <3>1. CASE b = Of(g)
        <4>1. record[b] \in {"binding", "unbinding", "mitigating"} /\ deployed
          BY <1>2, <3>1, Undisturbed DEF Touches, Steps
        <4> QED BY <4>1 DEF Rests
      <3>2. CASE b # Of(g)
        BY <3>2 DEF BInv, Traces, Touches
      <3> QED BY <3>1, <3>2
    <2>2. ASSUME NEW h \in Running, Of(h) \notin disturbed'
          PROVE  Fits(handler'[h].at, record[Of(h)], adapter'[Of(h)], stored'[Of(h)])
      <3>1. CASE h = g
        BY <1>1, <2>2, <3>1
      <3>2. CASE h # g
        <4>1. Of(h) \notin disturbed
          BY <2>2 DEF Touches
        <4>2. Of(h) # Of(g)
          BY <3>2, <4>1, Undisturbed
        <4>3. Of(h) \in Bindings
          BY RunningWorks DEF BInv
        <4> QED BY <1>4, <3>2, <4>1, <4>2, <4>3 DEF BInv, Traces, Touches
      <3> QED BY <3>1, <3>2
    <2> QED BY <1>1, <1>5, <2>1, <2>2 DEF Traces, Touches
  <1> QED BY <1>1, <1>3, <1>7, <1>8 DEF BInv

\* A call after which the handler answers keeps it if the record then agrees with what is left.
LEMMA Concludes ==
  ASSUME BInv, NEW g \in Running, NEW a, Answers(g, a), Touches(Of(g)),
         Of(g) \notin disturbed' => Rests(Heard(record[Of(g)], a), adapter'[Of(g)], stored'[Of(g)])
  PROVE  BInv' /\ Running' = Running \ {g}
  <1>1. /\ handler' \in [Goroutines -> {Idle} \cup Work] /\ bindLock' \in Goroutines \cup {None}
        /\ LockedInside' /\ Running' = Running \ {g}
        /\ \A h \in Goroutines \ {g} : handler'[h] = handler[h]
        /\ record' \in [Bindings -> Records]
        /\ \A b \in Bindings \ {Of(g)} : record'[b] = record[b]
        /\ record'[Of(g)] = IF handler[g].heard THEN Heard(record[Of(g)], a) ELSE record[Of(g)]
    BY Ended DEF BInv
  <1>2. g \in Goroutines /\ Of(g) \in Bindings /\ handler[g].at \in Steps /\ Running \subseteq Goroutines
    BY RunningWorks DEF BInv, Running
  <1>3. BindingsTypeOK'
    BY <1>1, <1>2 DEF BInv, BindingsTypeOK, Touches, Work, Steps
  <1>4. \A h \in Running \ {g} : handler'[h] = handler[h] /\ (Of(h))' = Of(h)
    BY <1>1, <1>2 DEF Of
  <1>5. \A h \in Running \ {g} : handler[h].heard => record'[Of(h)] = record[Of(h)]
    <2> SUFFICES ASSUME NEW h \in Running \ {g}, handler[h].heard PROVE record'[Of(h)] = record[Of(h)]
      OBVIOUS
    <2>1. Of(h) \in Bindings
      BY RunningWorks DEF BInv
    <2>2. CASE Of(h) # Of(g)
      BY <1>1, <2>1, <2>2
    <2>3. CASE Of(h) = Of(g)
      <3>1. ~handler[g].heard
        BY <2>3 DEF BInv, Requests
      <3> QED BY <1>1, <2>3, <3>1
    <2> QED BY <2>2, <2>3
  <1>6. Requests'
    BY <1>1, <1>4, <1>5 DEF BInv, Requests, Touches
  <1>7. Traces'
    <2>1. ASSUME NEW b \in Bindings \ disturbed'
          PROVE  Rests(record'[b], adapter'[b], stored'[b]) /\ (~deployed => record'[b] \in {"new", "gone"})
      <3>1. CASE b = Of(g)
        <4>1. handler[g].heard /\ deployed
          BY <3>1, Undisturbed DEF Touches
        <4> QED BY <1>1, <3>1, <4>1
      <3>2. CASE b # Of(g)
        BY <1>1, <3>2 DEF BInv, Traces, Touches
      <3> QED BY <3>1, <3>2
    <2>2. ASSUME NEW h \in Running \ {g}, Of(h) \notin disturbed'
          PROVE  Fits(handler[h].at, record'[Of(h)], adapter'[Of(h)], stored'[Of(h)])
      <3>1. Of(h) \notin disturbed /\ Of(h) \in Bindings
        BY <2>2, RunningWorks DEF Touches, BInv
      <3>2. Of(h) # Of(g)
        BY <3>1, Undisturbed
      <3> QED BY <1>1, <3>1, <3>2 DEF BInv, Traces, Touches
    <2> QED BY <1>1, <1>4, <2>1, <2>2 DEF Traces, Touches
  <1> QED BY <1>1, <1>3, <1>6, <1>7 DEF BInv
-----------------------------------------------------------------------------
\* A step that leaves service and CredHub alone touches nothing.
LEMMA TouchesNothing ==
  ASSUME BInv, NEW b, UNCHANGED <<deployed, adapter, stored, disturbed>>
  PROVE  Touches(b)
  BY DEF BInv, BindingsTypeOK, Touches

LEMMA CallRuns == ASSUME BindingsTypeOK, NEW g \in Goroutines, handler[g].at \in Steps PROVE g \in Running
  BY DEF Running, Steps, BindSteps, UnbindSteps

\* Calls: every call of a handler keeps the invariant; handlers only get fewer.
LEMMA Calls ==
  ASSUME BInv, NEW g \in Goroutines, Call(g)
  PROVE  BInv' /\ Running' \subseteq Running
  <1> DEFINE b == Of(g)
             Goal == BInv' /\ Running' \subseteq Running
  <1> USE DEF Steps, BindSteps, UnbindSteps
  <1>0. g \in Running
    BY CallRuns DEF BInv, Call, RefuseActor, Lock, GatherForBind, GatherForUnbind, CreateBinding,
       DeleteBinding, Store, Permit, Forget
  <1>1. b \in Bindings /\ record[b] \in Records
    BY <1>0, RunningWorks DEF BInv
  <1>2. adapter \in [Bindings -> {"none", "bare", "made"}]
        /\ stored \in [Bindings -> {"none", "stored", "readable"}] /\ disturbed \subseteq Bindings
    BY DEF BInv, BindingsTypeOK
  <1>3. b \notin disturbed =>
          /\ handler[g].at \in BindSteps => record[b] = "binding"
          /\ handler[g].at \in UnbindSteps => record[b] \in {"unbinding", "mitigating"}
          /\ deployed
          /\ Fits(handler[g].at, record[b], adapter[b], stored[b])
    BY <1>0, Undisturbed
  <1>4. handler[g].at \in Locked => bindLock = g
    BY DEF BInv, LockedInside
  <1>5. ASSUME NEW s \in Steps, GoesTo(g, s), s \in Locked => bindLock \in {None, g},
               handler[g].at \in BindSteps <=> s \in BindSteps, record' = record, Touches(b),
               b \notin disturbed' => Fits(s, record[b], adapter'[b], stored'[b])
        PROVE  Goal
    BY <1>0, <1>5, Proceeds
  <1>6. ASSUME NEW a, Answers(g, a), Touches(b),
               b \notin disturbed' => Rests(Heard(record[b], a), adapter'[b], stored'[b])
        PROVE  Goal
    BY <1>0, <1>6, Concludes
  <1>7. UNCHANGED <<deployed, adapter, stored, disturbed>> => Touches(b)
    BY TouchesNothing
  <1> SUFFICES Goal
    OBVIOUS
  <1> HIDE DEF Goal, b
  <1>8. CASE RefuseActor(g)
    <2>1. Answers(g, "error") /\ UNCHANGED <<deployed, adapter, stored, disturbed>> /\ handler[g].at = "bind"
      BY <1>8 DEF RefuseActor
    <2>2. b \notin disturbed' => Rests(Heard(record[b], "error"), adapter'[b], stored'[b])
      BY <1>3, <2>1 DEF Fits, Rests, Heard, Clean
    <2> QED BY <1>6, <1>7, <2>1, <2>2
  <1>9. CASE Lock(g)
    <2> DEFINE s == IF handler[g].at = "bind" THEN "bindGather" ELSE "unbindGather"
    <2>1. /\ GoesTo(g, s) /\ UNCHANGED <<record, deployed, adapter, stored, disturbed>>
          /\ handler[g].at \in {"bind", "unbind"} /\ bindLock = None
      BY <1>9 DEF Lock
    <2>2. b \notin disturbed' => Fits(s, record[b], adapter'[b], stored'[b])
      BY <1>3, <2>1 DEF Fits
    <2>3. s \in Steps /\ (handler[g].at \in BindSteps <=> s \in BindSteps)
      BY <2>1
    <2> HIDE DEF s
    <2> QED BY <1>5, <1>7, <2>1, <2>2, <2>3
  <1>10. CASE GatherForBind(g)
    <2>1. UNCHANGED <<deployed, adapter, stored, disturbed>> /\ handler[g].at = "bindGather"
      BY <1>10 DEF GatherForBind
    <2>2. ASSUME GoesTo(g, "create"), UNCHANGED record PROVE Goal
      <3>1. b \notin disturbed' => Fits("create", record[b], adapter'[b], stored'[b])
        BY <1>3, <2>1 DEF Fits
      <3> QED BY <1>4, <1>5, <1>7, <2>1, <2>2, <3>1 DEF Locked
    <2>3. ASSUME NEW a \in {"gone", "error"}, Answers(g, a) PROVE Goal
      <3>1. b \notin disturbed' => Rests(Heard(record[b], a), adapter'[b], stored'[b])
        BY <1>3, <2>1 DEF Fits, Rests, Heard, Clean
      <3> QED BY <1>6, <1>7, <2>1, <2>3, <3>1
    <2> QED BY <1>10, <2>2, <2>3 DEF GatherForBind
  <1>11. CASE GatherForUnbind(g)
    <2>1. UNCHANGED <<deployed, adapter, stored, disturbed>> /\ handler[g].at = "unbindGather"
      BY <1>11 DEF GatherForUnbind
    <2>2. ASSUME GoesTo(g, "delete"), UNCHANGED record PROVE Goal
      <3>1. b \notin disturbed' => Fits("delete", record[b], adapter'[b], stored'[b])
        BY <1>3, <2>1 DEF Fits
      <3> QED BY <1>4, <1>5, <1>7, <2>1, <2>2, <3>1 DEF Locked
    <2>3. ASSUME ~deployed, Answers(g, "gone") PROVE Goal
      <3>1. b \in disturbed'
        BY <1>3, <2>1, <2>3
      <3> QED BY <1>6, <1>7, <2>1, <2>3, <3>1
    <2>4. ASSUME Answers(g, "error") PROVE Goal
      <3>1. b \notin disturbed' => Rests(Heard(record[b], "error"), adapter'[b], stored'[b])
        BY <1>3, <2>1 DEF Fits, Rests, Heard, Clean
      <3> QED BY <1>6, <1>7, <2>1, <2>4, <3>1
    <2> QED BY <1>11, <2>2, <2>3, <2>4 DEF GatherForUnbind
  <1>12. CASE CreateBinding(g)
    <2>1. UNCHANGED <<deployed, stored, disturbed>> /\ handler[g].at = "create"
      BY <1>12 DEF CreateBinding
    <2>2. ASSUME NEW c \in {"bare", "made"}, adapter' = [adapter EXCEPT ![b] = c]
          PROVE  Touches(b) /\ adapter'[b] = c /\ stored' = stored
      BY <1>1, <1>2, <2>1, <2>2 DEF Touches
    <2>3. ASSUME adapter' = [adapter EXCEPT ![b] = "bare"], Answers(g, "ok") PROVE Goal
      <3>1. b \notin disturbed' => Rests(Heard(record[b], "ok"), adapter'[b], stored'[b])
        BY <1>3, <2>1, <2>2, <2>3 DEF Rests, Heard, Usable
      <3> QED BY <1>6, <2>2, <2>3, <3>1
    <2>4. ASSUME adapter' = [adapter EXCEPT ![b] = "made"], GoesTo(g, "store"), UNCHANGED record PROVE Goal
      <3>1. Fits("store", record[b], adapter'[b], stored'[b]) /\ "store" \notin Locked
        BY <2>2, <2>4 DEF Fits, Locked
      <3> QED BY <1>5, <2>1, <2>2, <2>4, <3>1
    <2>5. ASSUME NEW c \in {"bare", "made"}, adapter' = [adapter EXCEPT ![b] = c], Answers(g, "error")
          PROVE  Goal
      <3>1. b \notin disturbed' => Rests(Heard(record[b], "error"), adapter'[b], stored'[b])
        BY <1>3, <2>1, <2>2, <2>5 DEF Rests, Heard
      <3> QED BY <1>6, <2>2, <2>5, <3>1
    <2>6. ASSUME Answers(g, "error"), UNCHANGED adapter PROVE Goal
      <3>1. b \notin disturbed' => Rests(Heard(record[b], "error"), adapter'[b], stored'[b])
        BY <1>3, <2>1, <2>6 DEF Fits, Rests, Heard, Clean
      <3> QED BY <1>6, <1>7, <2>1, <2>6, <3>1
    <2> QED BY <1>12, <2>3, <2>4, <2>5, <2>6 DEF CreateBinding, credentialsEmpty, b
  <1>13. CASE DeleteBinding(g)
    <2>1. UNCHANGED <<deployed, stored>> /\ handler[g].at = "delete"
      BY <1>13 DEF DeleteBinding
    <2>2. ASSUME adapter' = [adapter EXCEPT ![b] = "none"], disturbed' \in {disturbed, disturbed \cup {b}}
          PROVE  Touches(b) /\ adapter'[b] = "none" /\ stored' = stored
      BY <1>1, <1>2, <2>1, <2>2 DEF Touches
    <2>3. ASSUME adapter' = [adapter EXCEPT ![b] = "none"], GoesTo(g, "forget"), UNCHANGED <<record, disturbed>>
          PROVE  Goal
      <3>1. Fits("forget", record[b], adapter'[b], stored'[b]) /\ "forget" \notin Locked
        BY <2>2, <2>3 DEF Fits, Locked
      <3> QED BY <1>5, <2>1, <2>2, <2>3, <3>1
    <2>4. ASSUME adapter[b] = "none", Answers(g, "gone"), UNCHANGED <<adapter, disturbed>> PROVE Goal
      <3>1. b \notin disturbed' => Rests(Heard(record[b], "gone"), adapter'[b], stored'[b])
        BY <1>3, <2>1, <2>4 DEF Fits, Rests, Heard, Clean, Usable
      <3> QED BY <1>6, <1>7, <2>1, <2>4, <3>1
    <2>5. ASSUME Answers(g, "error"), UNCHANGED <<adapter, disturbed>> PROVE Goal
      <3>1. b \notin disturbed' => Rests(Heard(record[b], "error"), adapter'[b], stored'[b])
        BY <1>3, <2>1, <2>5 DEF Fits, Rests, Heard, Clean, Usable
      <3> QED BY <1>6, <1>7, <2>1, <2>5, <3>1
    <2>6. ASSUME adapter' = [adapter EXCEPT ![b] = "none"], Answers(g, "error"), disturbed' = disturbed \cup {b}
          PROVE  Goal
      BY <1>6, <2>2, <2>6
    <2> QED BY <1>13, <2>3, <2>4, <2>5, <2>6 DEF DeleteBinding, b
  <1>14. CASE Store(g)
    <2>1. UNCHANGED <<deployed, adapter, disturbed>> /\ handler[g].at = "store"
      BY <1>14 DEF Store
    <2>2. ASSUME stored' = [stored EXCEPT ![b] = "stored"]
          PROVE  Touches(b) /\ stored'[b] = "stored" /\ adapter' = adapter
      BY <1>1, <1>2, <2>1, <2>2 DEF Touches
    <2>3. ASSUME stored' = [stored EXCEPT ![b] = "stored"], GoesTo(g, "permit"), UNCHANGED record PROVE Goal
      <3>1. (b \notin disturbed' => Fits("permit", record[b], adapter'[b], stored'[b])) /\ "permit" \notin Locked
        BY <1>3, <2>1, <2>2, <2>3 DEF Fits, Locked
      <3> QED BY <1>5, <2>1, <2>2, <2>3, <3>1
    <2>4. ASSUME stored' = [stored EXCEPT ![b] = "stored"], Answers(g, "error") PROVE Goal
      <3>1. b \notin disturbed' => Rests(Heard(record[b], "error"), adapter'[b], stored'[b])
        BY <1>3, <2>1, <2>2, <2>4 DEF Fits, Rests, Heard
      <3> QED BY <1>6, <2>2, <2>4, <3>1
    <2>5. ASSUME UNCHANGED stored, Answers(g, "error") PROVE Goal
      <3>1. b \notin disturbed' => Rests(Heard(record[b], "error"), adapter'[b], stored'[b])
        BY <1>3, <2>1, <2>5 DEF Fits, Rests, Heard
      <3> QED BY <1>6, <1>7, <2>1, <2>5, <3>1
    <2> QED BY <1>14, <2>3, <2>4, <2>5 DEF Store, b
  <1>15. CASE Permit(g)
    <2>1. UNCHANGED <<deployed, adapter, disturbed>> /\ handler[g].at = "permit" /\ Answers(g, "ok")
      BY <1>15 DEF Permit
    <2>2. Touches(b) /\ (stored[b] # "none" => stored'[b] # "none")
      BY <1>1, <1>2, <1>15, <2>1 DEF Touches, Permit, b
    <2>3. b \notin disturbed' => Rests(Heard(record[b], "ok"), adapter'[b], stored'[b])
      BY <1>3, <2>1, <2>2 DEF Fits, Rests, Heard, Usable
    <2> QED BY <1>6, <2>1, <2>2, <2>3
  <1>16. CASE Forget(g)
    <2>1. UNCHANGED <<deployed, adapter>> /\ handler[g].at = "forget" /\ Answers(g, "ok")
      BY <1>16 DEF Forget
    <2>2. Touches(b) /\ (stored'[b] = "none" \/ b \in disturbed')
      BY <1>1, <1>2, <1>16, <2>1 DEF Touches, Forget, b
    <2>3. b \notin disturbed' => Rests(Heard(record[b], "ok"), adapter'[b], stored'[b])
      BY <1>3, <2>1, <2>2, <1>2, <1>1 DEF Fits, Rests, Heard, Clean, Touches
    <2> QED BY <1>6, <2>1, <2>2, <2>3
  <1> QED BY <1>8, <1>9, <1>10, <1>11, <1>12, <1>13, <1>14, <1>15, <1>16 DEF Call
-----------------------------------------------------------------------------
LEMMA BindingsStart == BindingsInit => BInv /\ Running = {}
  BY BindingsAssumption DEF BindingsInit, BInv, BindingsTypeOK, LockedInside, Requests, Traces, Running,
     Idle, Locked, Records, Rests, Clean

\* A new request: its binding is not on record as busy, so no other request of it is waited for.
LEMMA Sends ==
  ASSUME BInv, NEW b \in Bindings, NEW s \in {"bind", "unbind"}, NEW before, NEW after \in Records,
         Send(b, s, before, after), record[b] \in {"new", "bound", "orphaned"},
         s = "bind" => after = "binding", s = "unbind" => after \in {"unbinding", "mitigating"},
         b \notin disturbed => deployed /\ Fits(s, after, adapter[b], stored[b])
  PROVE  BInv'
  <1>1. PICK g \in Goroutines \ Running :
          handler' = [handler EXCEPT ![g] = [at |-> s, binding |-> b, heard |-> TRUE]]
    BY DEF Send
  <1> DEFINE r == [at |-> s, binding |-> b, heard |-> TRUE]
  <1>2. r \in Work /\ r.at = s /\ r.binding = b /\ r.heard /\ s \notin Locked /\ r.at # "idle"
    BY DEF Work, Steps, BindSteps, UnbindSteps, Locked
  <1>3. handler \in [Goroutines -> {Idle} \cup Work] /\ record \in [Bindings -> Records]
    BY DEF BInv, BindingsTypeOK, Work, Steps
  <1>4. handler'[g] = r /\ \A h \in Goroutines \ {g} : handler'[h] = handler[h]
    BY <1>1, <1>3
  <1> HIDE DEF r
  <1>5. record' = [record EXCEPT ![b] = after]
        /\ UNCHANGED <<deployed, adapter, stored, bindLock, disturbed>>
    BY DEF Send
  <1>6. record'[b] = after /\ \A c \in Bindings \ {b} : record'[c] = record[c]
    BY <1>3, <1>5
  <1>7. handler' \in [Goroutines -> {Idle} \cup Work] /\ record' \in [Bindings -> Records]
    BY <1>1, <1>2, <1>3, <1>5 DEF r
  <1>8. Running' = Running \cup {g} /\ Running \subseteq Goroutines
    BY <1>1, <1>2, <1>4 DEF Running
  <1>9. BindingsTypeOK'
    BY <1>5, <1>7 DEF BInv, BindingsTypeOK, Work, Steps
  <1>10. LockedInside'
    <2>1. handler[g].at \notin Locked
      BY <1>1 DEF Running, Locked
    <2> QED BY <1>2, <1>4, <1>5, <2>1 DEF BInv, LockedInside
  <1>11. \A h \in Running : handler'[h] = handler[h] /\ (Of(h))' = Of(h) /\ Of(h) \in Bindings
                            /\ handler[h].at \in BindSteps \cup UnbindSteps /\ h # g
    BY <1>1, <1>4, <1>8, RunningWorks DEF Of, BInv, Steps
  <1>12. (Of(g))' = b /\ handler'[g].at = s /\ handler'[g].heard
    BY <1>2, <1>4 DEF Of
  <1>13. \A h \in Running : handler[h].heard => Of(h) # b
    BY <1>11 DEF BInv, Requests
  <1>14. Requests'
    <2>1. \A h \in Running : handler[h].heard => record'[Of(h)] = record[Of(h)]
      BY <1>6, <1>11, <1>13
    <2>2. /\ s \in BindSteps => record'[b] = "binding"
          /\ s \in UnbindSteps => record'[b] \in {"unbinding", "mitigating"}
      BY <1>6 DEF BindSteps, UnbindSteps
    <2> QED BY <1>5, <1>8, <1>11, <1>12, <1>13, <2>1, <2>2 DEF BInv, Requests
  <1>15. Traces'
    <2>1. ASSUME NEW c \in Bindings \ disturbed
          PROVE  Rests(record'[c], adapter[c], stored[c]) /\ (~deployed => record'[c] \in {"new", "gone"})
      <3>1. CASE c = b
        <4>1. record'[b] \in {"binding", "unbinding", "mitigating"} /\ deployed
          BY <1>6, <2>1, <3>1
        <4> QED BY <3>1, <4>1 DEF Rests
      <3>2. CASE c # b
        BY <1>6, <2>1, <3>2 DEF BInv, Traces
      <3> QED BY <3>1, <3>2
    <2>2. ASSUME NEW h \in Running, Of(h) \notin disturbed
          PROVE  Fits(handler[h].at, record'[Of(h)], adapter[Of(h)], stored[Of(h)])
      <3>1. Of(h) # b /\ Of(h) \in Bindings
        BY <1>11, <1>13, <2>2 DEF BInv, Requests
      <3> QED BY <1>6, <2>2, <3>1 DEF BInv, Traces
    <2> QED BY <1>5, <1>6, <1>8, <1>11, <1>12, <2>1, <2>2 DEF Traces
  <1> QED BY <1>9, <1>10, <1>14, <1>15 DEF BInv

\* The three requests Cloud Foundry makes.
LEMMA Asks ==
  ASSUME BInv, NEW b \in Bindings, SendBind(b) \/ SendUnbind(b) \/ MitigateOrphan(b)
  PROVE  BInv'
  <1>1. CASE SendBind(b)
    <2>1. record[b] = "new" /\ deployed /\ Send(b, "bind", {"new"}, "binding")
      BY <1>1 DEF SendBind, Send
    <2>2. b \notin disturbed => Fits("bind", "binding", adapter[b], stored[b])
      BY <2>1 DEF BInv, Traces, Rests, Fits
    <2> QED BY <2>1, <2>2, Sends DEF Records
  <1>2. CASE SendUnbind(b)
    <2>1. record[b] = "bound" /\ Send(b, "unbind", {"bound"}, "unbinding")
      BY <1>2 DEF SendUnbind, Send
    <2>2. b \notin disturbed => deployed /\ Fits("unbind", "unbinding", adapter[b], stored[b])
      BY <2>1 DEF BInv, Traces, Rests, Fits
    <2> QED BY <2>1, <2>2, Sends DEF Records
  <1>3. CASE MitigateOrphan(b)
    <2>1. record[b] = "orphaned" /\ Send(b, "unbind", {"orphaned"}, "mitigating")
      BY <1>3 DEF MitigateOrphan, Send
    <2>2. b \notin disturbed => deployed /\ Fits("unbind", "mitigating", adapter[b], stored[b])
      BY <2>1 DEF BInv, Traces, Rests, Fits
    <2> QED BY <2>1, <2>2, Sends DEF Records
  <1> QED BY <1>1, <1>2, <1>3

\* Cloud Foundry gives up: the binding counts as disturbed from then on.
LEMMA GivesUp ==
  ASSUME BInv, NEW g \in Goroutines, GiveUp(g)
  PROVE  BInv' /\ Running' = Running
  <1> DEFINE r == [handler[g] EXCEPT !.heard = FALSE]
  <1>1. /\ g \in Running /\ handler[g].heard /\ handler' = [handler EXCEPT ![g] = r]
        /\ record' = [record EXCEPT ![Of(g)] = Heard(record[Of(g)], "error")]
        /\ disturbed' = disturbed \cup {Of(g)}
        /\ UNCHANGED <<deployed, adapter, stored, bindLock>>
    BY DEF GiveUp
  <1>2. handler[g] \in Work /\ Of(g) \in Bindings
    BY <1>1, RunningWorks DEF BInv
  <1>3. r \in Work /\ r.at = handler[g].at /\ r.binding = Of(g) /\ ~r.heard
    BY <1>2, Unheard DEF Of
  <1>4. handler \in [Goroutines -> {Idle} \cup Work] /\ record \in [Bindings -> Records]
    BY DEF BInv, BindingsTypeOK, Work, Steps
  <1>5. handler'[g] = r /\ \A h \in Goroutines \ {g} : handler'[h] = handler[h]
    BY <1>1, <1>4
  <1> HIDE DEF r
  <1>6. handler' \in [Goroutines -> {Idle} \cup Work] /\ \A h \in Goroutines : handler'[h].at = handler[h].at
    BY <1>1, <1>3, <1>4, <1>5
  <1>7. Heard(record[Of(g)], "error") \in Records
    BY DEF Heard, Records
  <1>8. record' \in [Bindings -> Records] /\ \A c \in Bindings \ {Of(g)} : record'[c] = record[c]
    BY <1>1, <1>2, <1>4, <1>7
  <1>9. BindingsTypeOK'
    BY <1>1, <1>2, <1>6, <1>8 DEF BInv, BindingsTypeOK, Work, Steps
  <1>10. LockedInside' /\ Running' = Running /\ Running \subseteq Goroutines
    BY <1>1, <1>6 DEF BInv, LockedInside, Running
  <1>11. \A h \in Running : (Of(h))' = Of(h) /\ Of(h) \in Bindings /\ (h # g => handler'[h] = handler[h])
    BY <1>3, <1>5, <1>10, RunningWorks DEF Of, BInv
  <1>12. \A h \in Running \ {g} : handler[h].heard => Of(h) # Of(g)
    BY <1>1 DEF BInv, Requests
  <1>13. Requests'
    BY <1>1, <1>3, <1>5, <1>8, <1>10, <1>11, <1>12 DEF BInv, Requests
  <1>14. Traces'
    BY <1>1, <1>5, <1>8, <1>10, <1>11 DEF BInv, Traces
  <1> QED BY <1>9, <1>10, <1>13, <1>14 DEF BInv

\* The instance goes: orphans of it are disturbed, of the other bindings nothing is left.
LEMMA InstanceGoes ==
  ASSUME BInv, DeleteInstance
  PROVE  BInv' /\ Running' = Running
  <1>1. /\ \A b \in Bindings : record[b] \in {"new", "orphaned", "mitigating", "gone"}
        /\ deployed' = FALSE /\ adapter' = [b \in Bindings |-> "none"]
        /\ disturbed' = disturbed \cup {b \in Bindings : record[b] \in {"orphaned", "mitigating"}}
        /\ UNCHANGED <<record, stored, handler, bindLock>>
    BY DEF DeleteInstance
  <1>2. BindingsTypeOK' /\ LockedInside' /\ Running' = Running
    BY <1>1 DEF BInv, BindingsTypeOK, LockedInside, Running
  <1>3. \A g \in Running : (Of(g))' = Of(g) /\ Of(g) \in Bindings
    BY <1>1, RunningWorks DEF Of, BInv
  <1>4. Requests'
    BY <1>1, <1>2, <1>3 DEF BInv, Requests
  <1>5. \A g \in Running : Of(g) \in disturbed'
    <2> SUFFICES ASSUME NEW g \in Running, Of(g) \notin disturbed PROVE Of(g) \in disturbed'
      BY <1>1
    <2>1. record[Of(g)] \in {"binding", "unbinding", "mitigating"}
      BY Undisturbed, RunningWorks DEF BInv, Steps
    <2> QED BY <1>1, <1>3, <2>1
  <1>6. Traces'
    <2>1. ASSUME NEW b \in Bindings \ disturbed'
          PROVE  Rests(record[b], adapter'[b], stored[b]) /\ record[b] \in {"new", "gone"}
      <3>1. record[b] \in {"new", "gone"} /\ b \notin disturbed
        BY <1>1, <2>1
      <3>2. Rests(record[b], adapter[b], stored[b])
        BY <3>1 DEF BInv, Traces
      <3> QED BY <1>1, <3>1, <3>2 DEF Rests, Clean
    <2> QED BY <1>1, <1>2, <1>3, <1>5, <2>1 DEF Traces
  <1> QED BY <1>2, <1>4, <1>6 DEF BInv

\* The process ends: of an undisturbed binding, what its request has come to is as good as
\* a failed answer.
LEMMA Dies ==
  ASSUME BInv, Killed
  PROVE  BInv' /\ Running' = {}
  <1>1. /\ handler' = [g \in Goroutines |-> Idle] /\ bindLock' = None
        /\ disturbed' = disturbed \cup {Of(g) : g \in {h \in Running : handler[h].at = "forget"}}
        /\ UNCHANGED <<deployed, adapter, stored>>
    BY DEF Killed
  <1>2. \A b \in Bindings :
          record'[b] = IF \E g \in Running : Of(g) = b /\ handler[g].heard
                       THEN Heard(record[b], "error") ELSE record[b]
    BY DEF Killed
  <1>3. Running' = {}
    BY <1>1 DEF Running, Idle
  <1>4. \A b \in Bindings : Heard(record[b], "error") \in Records
    BY DEF Heard, Records
  <1>5. record' \in [Bindings -> Records]
    BY <1>4 DEF Killed, BInv, BindingsTypeOK
  <1>6. \A g \in Running : Of(g) \in Bindings
    BY RunningWorks DEF BInv
  <1>7. BindingsTypeOK'
    BY <1>1, <1>5, <1>6 DEF BInv, BindingsTypeOK
  <1>8. LockedInside'
    BY <1>1, BindingsAssumption DEF LockedInside, Idle, Locked
  <1>9. Requests'
    BY <1>3 DEF Requests
  <1>10. ASSUME NEW b \in Bindings \ disturbed'
         PROVE  Rests(record'[b], adapter[b], stored[b]) /\ (~deployed => record'[b] \in {"new", "gone"})
    <2>1. b \notin disturbed
      BY <1>1, <1>10
    <2>2. CASE \E g \in Running : Of(g) = b /\ handler[g].heard
      <3>1. PICK g \in Running : Of(g) = b
        BY <2>2
      <3>2. handler[g].at # "forget"
        BY <1>1, <1>10, <3>1
      <3>3. /\ handler[g].at \in BindSteps => record[b] = "binding"
            /\ handler[g].at \in UnbindSteps => record[b] \in {"unbinding", "mitigating"}
            /\ deployed /\ Fits(handler[g].at, record[b], adapter[b], stored[b])
        BY <2>1, <3>1, Undisturbed
      <3>4. handler[g].at \in BindSteps \cup UnbindSteps
        BY RunningWorks DEF BInv, Steps
      <3>5. Rests(Heard(record[b], "error"), adapter[b], stored[b])
        <4>1. CASE handler[g].at \in BindSteps
          BY <3>3, <4>1 DEF BindSteps, Heard, Rests, Fits, Clean
        <4>2. CASE handler[g].at \in UnbindSteps
          BY <3>2, <3>3, <4>2 DEF UnbindSteps, Heard, Rests, Fits
        <4> QED BY <3>4, <4>1, <4>2
      <3> QED BY <1>2, <2>2, <3>3, <3>5
    <2>3. CASE ~\E g \in Running : Of(g) = b /\ handler[g].heard
      BY <1>2, <2>1, <2>3 DEF BInv, Traces
    <2> QED BY <2>2, <2>3
  <1>11. Traces'
    BY <1>1, <1>3, <1>10 DEF Traces
  <1> QED BY <1>3, <1>7, <1>8, <1>9, <1>11 DEF BInv
-----------------------------------------------------------------------------
(* Credentials of what the service knows, with no exception: disturbed plays no part. *)

\* The binding is, or may come back to be, one that Cloud Foundry has for bound.
Held == {"bound", "unbinding"}

\* No request comes between a binding that is held and its credentials: binds of it are
\* over, and an unbind that drops the credentials has seen the service drop the
\* binding.  A bind that nobody waits for cannot make its binding held.
Kept ==
  /\ \A g \in Running :
       /\ ~handler[g].heard => record[Of(g)] \notin {"new", "binding"}
       /\ handler[g].at \in BindSteps => record[Of(g)] \notin Held
       /\ handler[g].at = "permit" /\ record[Of(g)] = "binding" => stored[Of(g)] # "none"
       /\ handler[g].at = "forget" /\ record[Of(g)] \in Held => adapter[Of(g)] = "none"
  /\ \A b \in Bindings : record[b] \in Held /\ adapter[b] = "made" => stored[b] # "none"

\* While a bind is waited for, nothing else runs for its binding.
LEMMA BindAlone ==
  ASSUME BInv, Kept, NEW g \in Running, NEW h \in Running, Of(g) = Of(h), record[Of(g)] = "binding"
  PROVE  g = h /\ handler[g].heard
  BY DEF Kept, BInv, Requests

\* A call that goes on keeps it if it leaves the credentials, and does what the next place says.
LEMMA KeptOn ==
  ASSUME BInv, Kept, NEW g \in Running, NEW s \in Steps, GoesTo(g, s),
         s \in Locked => bindLock \in {None, g},
         handler[g].at \in BindSteps <=> s \in BindSteps,
         record' = record, Touches(Of(g)),
         stored[Of(g)] # "none" => stored'[Of(g)] # "none",
         record[Of(g)] \notin Held \/ adapter'[Of(g)] \in {adapter[Of(g)], "none"},
         s = "permit" => stored'[Of(g)] # "none",
         s = "forget" => adapter'[Of(g)] = "none"
  PROVE  Kept'
  <1>1. /\ Running' = Running /\ \A h \in Goroutines \ {g} : handler'[h] = handler[h]
        /\ handler'[g].at = s /\ handler'[g].binding = Of(g) /\ handler'[g].heard = handler[g].heard
    BY GoesOn DEF BInv
  <1>2. \A h \in Running : Of(h) \in Bindings /\ h \in Goroutines
    BY RunningWorks DEF BInv
  <1>3. \A h \in Running : /\ (Of(h))' = Of(h) /\ handler'[h].heard = handler[h].heard
                           /\ h # g => handler'[h].at = handler[h].at
    BY <1>1, <1>2 DEF Of
  <1>4. ASSUME NEW h \in Running
        PROVE  /\ ~handler[h].heard => record[Of(h)] \notin {"new", "binding"}
               /\ handler'[h].at \in BindSteps => record[Of(h)] \notin Held
               /\ handler'[h].at = "permit" /\ record[Of(h)] = "binding" => stored'[Of(h)] # "none"
               /\ handler'[h].at = "forget" /\ record[Of(h)] \in Held => adapter'[Of(h)] = "none"
    <2>1. CASE h = g
      BY <1>1, <2>1 DEF Kept
    <2>2. CASE h # g /\ Of(h) = Of(g)
      BY <1>2, <1>3, <2>2 DEF Kept
    <2>3. CASE Of(h) # Of(g)
      BY <1>2, <1>3, <2>3 DEF Kept, Touches
    <2> QED BY <2>1, <2>2, <2>3
  <1>5. ASSUME NEW c \in Bindings, record[c] \in Held, adapter'[c] = "made" PROVE stored'[c] # "none"
    <2>1. CASE c = Of(g)
      BY <1>5, <2>1 DEF Kept
    <2>2. CASE c # Of(g)
      BY <1>5, <2>2 DEF Kept, Touches
    <2> QED BY <2>1, <2>2
  <1> QED BY <1>1, <1>3, <1>4, <1>5 DEF Kept

\* One that answers keeps it if a held binding has not lost its credentials, and one that
\* becomes bound has them.
LEMMA KeptEnd ==
  ASSUME BInv, Kept, NEW g \in Running, NEW a, Answers(g, a), Touches(Of(g)),
         record[Of(g)] \in Held \/ (record[Of(g)] = "binding" /\ a = "ok") =>
           (adapter'[Of(g)] = "made" => stored'[Of(g)] # "none"),
         record[Of(g)] \in Held => adapter'[Of(g)] \in {adapter[Of(g)], "none"}
  PROVE  Kept'
  <1>1. /\ Running' = Running \ {g} /\ \A h \in Goroutines \ {g} : handler'[h] = handler[h]
        /\ \A b \in Bindings \ {Of(g)} : record'[b] = record[b]
        /\ record'[Of(g)] = IF handler[g].heard THEN Heard(record[Of(g)], a) ELSE record[Of(g)]
    BY Ended DEF BInv
  <1>2. \A h \in Running : Of(h) \in Bindings /\ h \in Goroutines
    BY RunningWorks DEF BInv
  <1>3. \A h \in Running \ {g} : (Of(h))' = Of(h) /\ handler'[h] = handler[h]
    BY <1>1, <1>2 DEF Of
  <1>4. /\ record'[Of(g)] \in {"new", "binding"} => ~handler[g].heard
        /\ record'[Of(g)] # record[Of(g)] => handler[g].heard
        /\ record'[Of(g)] \in Held => record[Of(g)] \in Held \/ (record[Of(g)] = "binding" /\ a = "ok")
    BY <1>1, RunningWorks DEF Heard, Held, BInv, Requests, Steps
  <1>5. ASSUME NEW h \in Running \ {g}
        PROVE  /\ ~handler[h].heard => record'[Of(h)] \notin {"new", "binding"}
               /\ handler[h].at \in BindSteps => record'[Of(h)] \notin Held
               /\ handler[h].at = "permit" /\ record'[Of(h)] = "binding" => stored'[Of(h)] # "none"
               /\ handler[h].at = "forget" /\ record'[Of(h)] \in Held => adapter'[Of(h)] = "none"
    <2>1. CASE Of(h) = Of(g)
      <3>1. record[Of(g)] # "binding"
        BY <1>5, <2>1, BindAlone
      <3>2. record'[Of(g)] \notin {"new", "binding"}
        BY <1>4, <3>1 DEF Kept
      <3>3. record'[Of(g)] \in Held => record[Of(h)] \in Held
        BY <1>4, <2>1, <3>1
      <3> QED BY <2>1, <3>2, <3>3 DEF Kept
    <2>2. CASE Of(h) # Of(g)
      BY <1>1, <1>2, <2>2 DEF Kept, Touches
    <2> QED BY <2>1, <2>2
  <1>6. ASSUME NEW c \in Bindings, record'[c] \in Held, adapter'[c] = "made" PROVE stored'[c] # "none"
    <2>1. CASE c = Of(g)
      BY <1>4, <1>6, <2>1 DEF Held
    <2>2. CASE c # Of(g)
      BY <1>1, <1>6, <2>2 DEF Kept, Touches
    <2> QED BY <2>1, <2>2
  <1> QED BY <1>1, <1>3, <1>5, <1>6 DEF Kept

LEMMA KeptByCalls ==
  ASSUME BInv, Kept, NEW g \in Goroutines, Call(g)
  PROVE  Kept'
  <1> DEFINE b == Of(g)
  <1> USE DEF Steps, BindSteps, UnbindSteps
  <1>0. g \in Running
    BY CallRuns DEF BInv, Call, RefuseActor, Lock, GatherForBind, GatherForUnbind, CreateBinding,
       DeleteBinding, Store, Permit, Forget
  <1>1. b \in Bindings
    BY <1>0, RunningWorks DEF BInv
  <1>2. adapter \in [Bindings -> {"none", "bare", "made"}]
        /\ stored \in [Bindings -> {"none", "stored", "readable"}] /\ disturbed \subseteq Bindings
    BY DEF BInv, BindingsTypeOK
  <1>3. /\ handler[g].at \in BindSteps => record[b] \notin Held
        /\ handler[g].at = "permit" /\ record[b] = "binding" => stored[b] # "none"
        /\ handler[g].at = "forget" /\ record[b] \in Held => adapter[b] = "none"
        /\ record[b] \in Held /\ adapter[b] = "made" => stored[b] # "none"
        /\ record[b] = "binding" => handler[g].at \in BindSteps
    BY <1>0, <1>1, BindAlone, RunningWorks DEF Kept, BInv, Requests
  <1>4. handler[g].at \in Locked => bindLock = g
    BY DEF BInv, LockedInside
  <1>5. ASSUME NEW s \in Steps, GoesTo(g, s), s \in Locked => bindLock \in {None, g},
               handler[g].at \in BindSteps <=> s \in BindSteps, record' = record, Touches(b),
               stored[b] # "none" => stored'[b] # "none",
               record[b] \notin Held \/ adapter'[b] \in {adapter[b], "none"},
               s = "permit" => stored'[b] # "none", s = "forget" => adapter'[b] = "none"
        PROVE  Kept'
    BY <1>0, <1>5, KeptOn
  <1>6. ASSUME NEW a, Answers(g, a), Touches(b),
               record[b] \in Held \/ (record[b] = "binding" /\ a = "ok") =>
                 (adapter'[b] = "made" => stored'[b] # "none"),
               record[b] \in Held => adapter'[b] \in {adapter[b], "none"}
        PROVE  Kept'
    BY <1>0, <1>6, KeptEnd
  <1>7. UNCHANGED <<deployed, adapter, stored, disturbed>> => Touches(b)
    BY TouchesNothing
  <1>h. {"new", "orphaned", "mitigating", "gone", "binding"} \cap Held = {}
    BY DEF Held
  <1> HIDE DEF b
  <1>8. ASSUME NEW s \in Steps, GoesTo(g, s), s \in Locked => bindLock \in {None, g},
               handler[g].at \in BindSteps <=> s \in BindSteps, s \notin {"permit", "forget"},
               UNCHANGED <<record, deployed, adapter, stored, disturbed>>
        PROVE  Kept'
    BY <1>5, <1>7, <1>8
  <1>9. ASSUME NEW a, a # "ok", Answers(g, a), UNCHANGED <<deployed, adapter, stored, disturbed>>
        PROVE  Kept'
    BY <1>3, <1>6, <1>7, <1>9
  <1>10. CASE RefuseActor(g)
    BY <1>9, <1>10 DEF RefuseActor
  <1>11. CASE Lock(g)
    BY <1>8, <1>11 DEF Lock
  <1>12. CASE GatherForBind(g)
    BY <1>4, <1>8, <1>9, <1>12 DEF GatherForBind, Locked
  <1>13. CASE GatherForUnbind(g)
    BY <1>4, <1>8, <1>9, <1>13 DEF GatherForUnbind, Locked
  <1>14. CASE CreateBinding(g)
    <2>1. UNCHANGED <<deployed, stored, disturbed>> /\ handler[g].at = "create" /\ record[b] \notin Held
      BY <1>3, <1>14 DEF CreateBinding
    <2>2. ASSUME NEW c \in {"bare", "made"}, adapter' = [adapter EXCEPT ![b] = c]
          PROVE  Touches(b) /\ adapter'[b] = c /\ stored' = stored
      BY <1>1, <1>2, <2>1, <2>2 DEF Touches
    <2>3. ASSUME adapter' = [adapter EXCEPT ![b] = "bare"], Answers(g, "ok") PROVE Kept'
      BY <1>6, <2>1, <2>2, <2>3
    <2>4. ASSUME adapter' = [adapter EXCEPT ![b] = "made"], GoesTo(g, "store"), UNCHANGED record PROVE Kept'
      BY <1>5, <2>1, <2>2, <2>4 DEF Locked
    <2>5. ASSUME NEW c \in {"bare", "made"}, adapter' = [adapter EXCEPT ![b] = c], Answers(g, "error")
          PROVE  Kept'
      BY <1>6, <2>1, <2>2, <2>5
    <2>6. ASSUME Answers(g, "error"), UNCHANGED adapter PROVE Kept'
      BY <1>9, <2>1, <2>6
    <2> QED BY <1>14, <2>3, <2>4, <2>5, <2>6 DEF CreateBinding, credentialsEmpty, b
  <1>15. CASE DeleteBinding(g)
    <2>1. UNCHANGED <<deployed, stored>> /\ handler[g].at = "delete"
      BY <1>15 DEF DeleteBinding
    <2>2. ASSUME adapter' = [adapter EXCEPT ![b] = "none"], disturbed' \in {disturbed, disturbed \cup {b}}
          PROVE  Touches(b) /\ adapter'[b] = "none" /\ stored' = stored
      BY <1>1, <1>2, <2>1, <2>2 DEF Touches
    <2>3. ASSUME adapter' = [adapter EXCEPT ![b] = "none"], GoesTo(g, "forget"), UNCHANGED <<record, disturbed>>
          PROVE  Kept'
      BY <1>5, <2>1, <2>2, <2>3 DEF Locked
    <2>4. ASSUME NEW a \in {"gone", "error"}, Answers(g, a), UNCHANGED <<adapter, disturbed>> PROVE Kept'
      BY <1>9, <2>1, <2>4
    <2>5. ASSUME adapter' = [adapter EXCEPT ![b] = "none"], Answers(g, "error"), disturbed' = disturbed \cup {b}
          PROVE  Kept'
      BY <1>6, <2>2, <2>5
    <2> QED BY <1>15, <2>3, <2>4, <2>5 DEF DeleteBinding, b
  <1>16. CASE Store(g)
    <2>1. UNCHANGED <<deployed, adapter, disturbed>> /\ handler[g].at = "store" /\ record[b] \notin Held
      BY <1>3, <1>16 DEF Store
    <2>2. ASSUME stored' = [stored EXCEPT ![b] = "stored"]
          PROVE  Touches(b) /\ stored'[b] = "stored" /\ adapter' = adapter
      BY <1>1, <1>2, <2>1, <2>2 DEF Touches
    <2>3. ASSUME stored' = [stored EXCEPT ![b] = "stored"], GoesTo(g, "permit"), UNCHANGED record PROVE Kept'
      BY <1>5, <2>1, <2>2, <2>3 DEF Locked
    <2>4. ASSUME stored' = [stored EXCEPT ![b] = "stored"], Answers(g, "error") PROVE Kept'
      BY <1>6, <2>1, <2>2, <2>4
    <2>5. ASSUME UNCHANGED stored, Answers(g, "error") PROVE Kept'
      BY <1>9, <2>1, <2>5
    <2> QED BY <1>16, <2>3, <2>4, <2>5 DEF Store, b
  <1>17. CASE Permit(g)
    <2>1. UNCHANGED <<deployed, adapter, disturbed>> /\ handler[g].at = "permit" /\ Answers(g, "ok")
      BY <1>17 DEF Permit
    <2>2. Touches(b) /\ (stored[b] # "none" => stored'[b] # "none")
      BY <1>1, <1>2, <1>17, <2>1 DEF Touches, Permit, b
    <2> QED BY <1>3, <1>6, <2>1, <2>2
  <1>18. CASE Forget(g)
    <2>1. UNCHANGED <<deployed, adapter>> /\ handler[g].at = "forget" /\ Answers(g, "ok")
      BY <1>18 DEF Forget
    <2>2. Touches(b)
      BY <1>1, <1>2, <1>18, <2>1 DEF Touches, Forget, b
    <2> QED BY <1>3, <1>6, <2>1, <2>2
  <1> QED BY <1>10, <1>11, <1>12, <1>13, <1>14, <1>15, <1>16, <1>17, <1>18 DEF Call

\* New requests: a bind comes when nothing else runs for its binding, an unbind when no bind does.
LEMMA KeptBySends ==
  ASSUME BInv, Kept, NEW b \in Bindings, SendBind(b) \/ SendUnbind(b) \/ MitigateOrphan(b)
  PROVE  Kept'
  <1> DEFINE s == IF record[b] = "new" THEN "bind" ELSE "unbind"
             after == CASE record[b] = "new" -> "binding" [] record[b] = "bound" -> "unbinding"
                        [] OTHER -> "mitigating"
             r == [at |-> s, binding |-> b, heard |-> TRUE]
  <1>1. /\ record[b] \in {"new", "bound", "orphaned"} /\ record' = [record EXCEPT ![b] = after]
        /\ \E g \in Goroutines \ Running : handler' = [handler EXCEPT ![g] = r]
        /\ UNCHANGED <<deployed, adapter, stored, bindLock, disturbed>>
    BY DEF SendBind, SendUnbind, MitigateOrphan, Send
  <1>2. PICK g \in Goroutines \ Running : handler' = [handler EXCEPT ![g] = r]
    BY <1>1
  <1>3. handler \in [Goroutines -> {Idle} \cup Work] /\ record \in [Bindings -> Records]
    BY DEF BInv, BindingsTypeOK, Work, Steps
  <1>4. handler'[g] = r /\ \A h \in Goroutines \ {g} : handler'[h] = handler[h]
    BY <1>2, <1>3
  <1>5. Running' = Running \cup {g} /\ Running \subseteq Goroutines
    BY <1>2, <1>4 DEF Running
  <1>6. /\ \A h \in Running : (Of(h))' = Of(h) /\ handler'[h] = handler[h] /\ Of(h) \in Bindings
        /\ (Of(g))' = b
    BY <1>2, <1>4, <1>5, RunningWorks DEF Of, BInv
  <1>7. record'[b] = after /\ \A c \in Bindings \ {b} : record'[c] = record[c]
    BY <1>1, <1>3
  <1>8. \A h \in Running : record[b] = "new" => Of(h) # b
    BY RunningWorks DEF Kept, BInv, Requests, Steps
  <1>9. ASSUME NEW h \in Running
        PROVE  /\ ~handler[h].heard => record'[Of(h)] \notin {"new", "binding"}
               /\ handler[h].at \in BindSteps => record'[Of(h)] \notin Held
               /\ handler[h].at = "permit" /\ record'[Of(h)] = "binding" => stored[Of(h)] # "none"
               /\ handler[h].at = "forget" /\ record'[Of(h)] \in Held => adapter[Of(h)] = "none"
    <2>1. CASE Of(h) = b
      <3>1. record[b] # "new"
        BY <1>8, <2>1
      <3> QED BY <1>1, <1>7, <2>1, <3>1 DEF Kept, Held
    <2>2. CASE Of(h) # b
      BY <1>6, <1>7, <2>2 DEF Kept
    <2> QED BY <2>1, <2>2
  <1>10. /\ handler'[g].heard /\ handler'[g].at \notin {"permit", "forget"}
         /\ handler'[g].at \in BindSteps => record'[b] \notin Held
    BY <1>4, <1>7 DEF BindSteps, Held
  <1>11. \A c \in Bindings : record'[c] \in Held => record[c] \in Held
    BY <1>1, <1>7 DEF Held
  <1> QED BY <1>1, <1>5, <1>6, <1>9, <1>10, <1>11 DEF Kept

\* Giving up on an unbind leaves its binding held, as it was; a bind given up leaves an orphan.
LEMMA KeptByGivingUp ==
  ASSUME BInv, Kept, NEW g \in Goroutines, GiveUp(g)
  PROVE  Kept'
  <1> DEFINE r == [handler[g] EXCEPT !.heard = FALSE]
  <1>1. /\ g \in Running /\ handler[g].heard /\ handler' = [handler EXCEPT ![g] = r]
        /\ record' = [record EXCEPT ![Of(g)] = Heard(record[Of(g)], "error")]
        /\ UNCHANGED <<deployed, adapter, stored, bindLock>>
    BY DEF GiveUp
  <1>2. handler[g] \in Work /\ Of(g) \in Bindings
    BY <1>1, RunningWorks DEF BInv
  <1>3. r \in Work /\ r.at = handler[g].at /\ r.binding = Of(g) /\ ~r.heard
    BY <1>2, Unheard DEF Of
  <1>4. handler \in [Goroutines -> {Idle} \cup Work] /\ record \in [Bindings -> Records]
    BY DEF BInv, BindingsTypeOK, Work, Steps
  <1>5. handler'[g] = r /\ \A h \in Goroutines \ {g} : handler'[h] = handler[h]
    BY <1>1, <1>4
  <1> HIDE DEF r
  <1>6. Running' = Running /\ Running \subseteq Goroutines
    BY <1>1, <1>3, <1>5 DEF Running
  <1>7. \A h \in Running : /\ (Of(h))' = Of(h) /\ Of(h) \in Bindings /\ handler'[h].at = handler[h].at
                           /\ h # g => handler'[h].heard = handler[h].heard
    BY <1>3, <1>5, <1>6, RunningWorks DEF Of, BInv
  <1>8. /\ record'[Of(g)] \notin {"new", "binding"}
        /\ record'[Of(g)] \in Held => record[Of(g)] \in Held
        /\ \A c \in Bindings \ {Of(g)} : record'[c] = record[c]
    BY <1>1, <1>2, <1>4, RunningWorks DEF Heard, Held, BInv, Requests, Steps
  <1>9. ASSUME NEW h \in Running
        PROVE  /\ ~handler'[h].heard => record'[Of(h)] \notin {"new", "binding"}
               /\ handler[h].at \in BindSteps => record'[Of(h)] \notin Held
               /\ handler[h].at = "permit" /\ record'[Of(h)] = "binding" => stored[Of(h)] # "none"
               /\ handler[h].at = "forget" /\ record'[Of(h)] \in Held => adapter[Of(h)] = "none"
    <2>1. CASE Of(h) = Of(g)
      BY <1>8, <2>1 DEF Kept
    <2>2. CASE Of(h) # Of(g)
      BY <1>7, <1>8, <2>2 DEF Kept
    <2> QED BY <2>1, <2>2
  <1>10. \A c \in Bindings : record'[c] \in Held => record[c] \in Held
    BY <1>8
  <1> QED BY <1>1, <1>6, <1>7, <1>9, <1>10 DEF Kept

\* The instance goes when nothing is held, and the end of the process ends all requests.
LEMMA KeptByDeletion == ASSUME BInv, Kept, DeleteInstance PROVE Kept'
  <1>1. /\ \A b \in Bindings : record[b] \notin Held
        /\ UNCHANGED <<record, stored, handler, bindLock>>
    BY DEF DeleteInstance, Held
  <1>2. Running' = Running /\ \A g \in Running : (Of(g))' = Of(g) /\ Of(g) \in Bindings
    BY <1>1, RunningWorks DEF Running, Of, BInv
  <1> QED BY <1>1, <1>2 DEF Kept
LEMMA KeptByEnd == ASSUME BInv, Kept, Killed PROVE Kept'
  <1>1. \A b \in Bindings : record'[b] \in {record[b], Heard(record[b], "error")}
    BY DEF Killed
  <1>2. \A b \in Bindings : record'[b] \in Held => record[b] \in Held
    BY <1>1 DEF Heard, Held
  <1>3. Running' = {} /\ UNCHANGED <<adapter, stored>>
    BY Dies DEF Killed
  <1> QED BY <1>2, <1>3 DEF Kept
LEMMA KeptByNothing == ASSUME BInv, Kept, UNCHANGED bindingVars PROVE Kept'
  BY DEF bindingVars, Kept, Running, Of
-----------------------------------------------------------------------------
\* The types of the process, and what it knows of its requests.
ProcessOK ==
  /\ main \in {"off", "checks", "host", "listen", "serving", "stopping"} /\ lookups \in 0..Retries
  /\ stopper \in {"off", "waiting", "shutting", "stopped"} /\ signal \in BOOLEAN /\ late \in BOOLEAN
  /\ main \notin {"serving", "stopping"} => Running = {}
  /\ PInv
LEMMA Parts == IInv <=> BInv /\ ProcessOK
  BY DEF IInv, BInv, ProcessOK, TypeOK
LEMMA PartsNext == BInv' /\ ProcessOK' => IInv'
  BY DEF IInv, BInv, ProcessOK, TypeOK

\* A step of the requests: no new one unless the server listens.
LEMMA RequestsStep ==
  ASSUME ProcessOK, BInv', UNCHANGED processVars, Running' \subseteq Running \/ Serving
  PROVE  IInv'
  BY PartsNext DEF ProcessOK, PInv, processVars, Serving

LEMMA NoLookups == 0 \in 0..Retries
  BY ServerAssumption
LEMMA OffOK == ASSUME Ends, Running' = {} PROVE ProcessOK'
  <1>1. lookups' \in 0..Retries
    BY NoLookups DEF Ends
  <1>2. main' = "off" /\ stopper' = "off" /\ signal' = FALSE /\ late' = FALSE
    BY DEF Ends
  <1> QED BY <1>1, <1>2 DEF ProcessOK, PInv

\* A step of the process alone, and its end, with requests or without any.
LEMMA ProcessStep ==
  ASSUME BInv, UNCHANGED bindingVars, ProcessOK' \/ (Running = {} /\ Ends)
  PROVE  IInv'
  <1>1. BInv' /\ Running' = Running
    BY DEF bindingVars, BInv, BindingsTypeOK, LockedInside, Requests, Traces, Running, Of
  <1>2. Running = {} /\ Ends => ProcessOK'
    BY <1>1, OffOK
  <1> QED BY <1>1, <1>2, PartsNext
LEMMA ProcessEnds == ASSUME BInv, Ends, Killed PROVE IInv'
  BY Dies, PartsNext, OffOK

\* Inductive: the initial state satisfies IInv and every step keeps it.
LEMMA IInvInit == ServerInit => IInv
  <1> SUFFICES ASSUME ServerInit PROVE BInv /\ ProcessOK
    BY Parts
  <1>1. BInv /\ Running = {}
    BY BindingsStart DEF ServerInit
  <1>2. lookups \in 0..Retries
    BY NoLookups DEF ServerInit
  <1>3. main = "off" /\ stopper = "off" /\ signal = FALSE /\ late = FALSE
    BY DEF ServerInit
  <1> QED BY <1>1, <1>2, <1>3 DEF ProcessOK, PInv

LEMMA IInvNext == IInv /\ [Next]_vars => IInv'
  <1> SUFFICES ASSUME IInv, [Next]_vars PROVE IInv'
    OBVIOUS
  <1>0. BInv /\ ProcessOK
    BY Parts
  <1>r. UNCHANGED bindingVars => Running' = Running
    BY DEF bindingVars, Running
  <1>1. CASE Request /\ UNCHANGED processVars
    BY <1>0, <1>1, Asks, RequestsStep DEF Request
  <1>2. ASSUME NEW g \in Goroutines, Call(g), UNCHANGED processVars PROVE IInv'
    BY <1>0, <1>2, Calls, RequestsStep
  <1>3. ASSUME NEW g \in Goroutines, GiveUp(g), UNCHANGED processVars PROVE IInv'
    BY <1>0, <1>3, GivesUp, RequestsStep
  <1>4. CASE DeleteInstance /\ UNCHANGED processVars
    BY <1>0, <1>4, InstanceGoes, RequestsStep
  <1>5. CASE Start
    BY <1>0, <1>5, <1>r, ProcessStep DEF Start, ProcessOK, PInv
  <1>6. CASE Check
    BY <1>0, <1>6, <1>r, ProcessStep DEF Check, ProcessOK, PInv
  <1>7. CASE Wait
    BY <1>0, <1>7, <1>r, ProcessStep, ServerAssumption DEF Wait, ProcessOK, PInv
  <1>8. CASE CertExpired
    BY <1>0, <1>8, <1>r, ProcessStep DEF CertExpired, ProcessOK
  <1>9. CASE ListenAndServe
    BY <1>0, <1>9, <1>r, ProcessStep DEF ListenAndServe, ProcessOK, PInv
  <1>10. CASE Signal
    BY <1>0, <1>10, <1>r, ProcessStep DEF Signal, ProcessOK, PInv
  <1>11. CASE BeginShutdown
    BY <1>0, <1>11, <1>r, ProcessStep DEF BeginShutdown, ProcessOK, PInv
  <1>12. CASE ServeReturns
    BY <1>0, <1>12, <1>r, ProcessStep DEF ServeReturns, ProcessOK, PInv
  <1>13. CASE EndShutdown
    BY <1>0, <1>13, <1>r, ProcessStep DEF EndShutdown, ProcessOK, PInv
  <1>14. CASE Return \/ Crash
    BY <1>0, <1>14, ProcessEnds DEF Return, Crash
  <1>15. CASE UNCHANGED vars
    BY <1>0, <1>15, <1>r, ProcessStep DEF vars, processVars, ProcessOK, PInv
  <1> QED BY <1>1, <1>2, <1>3, <1>4, <1>5, <1>6, <1>7, <1>8, <1>9, <1>10, <1>11, <1>12, <1>13,
             <1>14, <1>15 DEF Next

\* IInvHolds: the inductive invariant is an invariant.
THEOREM IInvHolds == Spec => []IInv
  BY IInvInit, IInvNext, PTL DEF Spec

\* TypeCorrect: every variable stays in its domain, the lock is held inside the inner
\* broker's Bind and Unbind and nowhere else, and there are no requests without a server.
THEOREM TypeCorrect == Spec => []TypeOK
  <1>1. IInv => TypeOK
    BY DEF IInv
  <1> QED BY <1>1, IInvHolds, PTL

\* KeptHolds: a binding that Cloud Foundry has for bound and the service knows with its
\* credentials has them in CredHub, whatever failed (credhubbroker.go, Bind and Unbind).
THEOREM KeptHolds == Spec => []Kept
  <1>1. ServerInit => Kept
    BY DEF ServerInit, BindingsInit, Kept, Held, Running, Idle
  <1>2. IInv /\ Kept /\ [Next]_vars => Kept'
    <2> SUFFICES ASSUME IInv, Kept, [Next]_vars PROVE Kept'
      OBVIOUS
    <2>1. BInv
      BY Parts
    <2>2. CASE Request
      BY <2>1, <2>2, KeptBySends DEF Request
    <2>3. CASE \E g \in Goroutines : Call(g) \/ GiveUp(g)
      BY <2>1, <2>3, KeptByCalls, KeptByGivingUp
    <2>4. CASE DeleteInstance
      BY <2>1, <2>4, KeptByDeletion
    <2>5. CASE Start \/ Check \/ Wait \/ CertExpired \/ ListenAndServe
               \/ Signal \/ BeginShutdown \/ ServeReturns \/ EndShutdown \/ UNCHANGED vars
      BY <2>1, <2>5, KeptByNothing DEF Start, Check, Wait, CertExpired, ListenAndServe, Signal,
         BeginShutdown, ServeReturns, EndShutdown, vars
    <2>6. CASE Return \/ Crash
      BY <2>1, <2>6, KeptByEnd DEF Return, Crash
    <2> QED BY <2>2, <2>3, <2>4, <2>5, <2>6 DEF Next
  <1> QED BY <1>1, <1>2, IInvHolds, PTL DEF Spec

\* BoundCanBeUsed: what the service knows of a binding that Cloud Foundry has for bound has
\* its credentials in CredHub, whatever failed; and the service knows the binding, unless
\* an unbind failed after the adapter had removed it, the process was killed after
\* that, or Cloud Foundry gave up waiting (credhubbroker.go, Bind and Unbind).
THEOREM BoundCanBeUsed == Spec => []BoundIsUsable
  <1>1. IInv /\ Kept => BoundIsUsable
    BY DEF IInv, Traces, Rests, Usable, Kept, Held, BoundIsUsable
  <1> QED BY <1>1, IInvHolds, KeptHolds, PTL

\* NothingLeft: of a binding that is gone neither the service nor CredHub knows anything,
\* unless one of the four faults met it (credhubbroker.go, Unbind).
THEOREM NothingLeft == Spec => []GoneLeavesNothing
  <1>1. IInv => GoneLeavesNothing
    BY DEF IInv, Traces, Rests, Clean, GoneLeavesNothing
  <1> QED BY <1>1, IInvHolds, PTL

\* NobodyIsCut: a process that stops on a signal ends no request before its answer, unless
\* the limit of the shutdown has passed (apiserver.go, StartAndWait).
THEOREM NobodyIsCut == Spec => NoHandlerCut
  <1>1. IInv => (Return => late \/ Running = {})
    BY DEF IInv, PInv, Return
  <1> QED BY <1>1, IInvHolds, PTL DEF NoHandlerCut
=============================================================================
