------------------------------- MODULE Platform -------------------------------
(***************************************************************************)
(* The errands on one Cloud Foundry: an operator registers the broker,     *)
(* deletes its instances and purges it, one errand at a time and again     *)
(* after a failure, while users go on.                                     *)
(***************************************************************************)
EXTENDS Purger, Registrar

CONSTANTS Configs,   \* configurations of the plans' access
          MaxRuns    \* bound on the runs of errands

ASSUME PlatformAssumption == Configs \subseteq [Plans -> CFServiceAccess] /\ MaxRuns \in Nat

VARIABLE runs        \* errands started so far

platformVars == <<cfVars, errand, registration, runs>>

StartErrand(kind) ==
  /\ runs < MaxRuns /\ ~Registering
  /\ Start(kind)
  /\ runs' = runs + 1
  /\ registration' = NoRegistration

StartRegistration(config) ==
  /\ runs < MaxRuns /\ ~Running
  /\ Run(config)
  /\ runs' = runs + 1
  /\ errand' = NoErrand

\* The broker was never registered, or with one of the configurations.
Init ==
  /\ Unregistered \/ \E config \in Configs : GivenBy(config)
  /\ CFInit
  /\ errand = NoErrand /\ registration = NoRegistration /\ runs = 0

\* A registration neither reads nor changes instances, so what users do during
\* one could as well happen before or after it.
Next ==
  \/ \E kind \in ErrandKinds : StartErrand(kind)
  \/ \E config \in Configs : StartRegistration(config)
  \/ ~Registering /\ CFNext /\ UNCHANGED <<errand, registration, runs>>
  \/ PurgerNext /\ UNCHANGED <<registration, runs>>
  \/ RegistrarNext /\ UNCHANGED <<errand, runs>>

Spec == Init /\ [][Next]_platformVars

\* An errand goes on; operations end; a poll sees a failed delete in the end,
\* because users do not retry it for ever between any two polls.
FairSpec ==
  /\ Spec
  /\ WF_platformVars(PurgerNext /\ UNCHANGED <<registration, runs>>)
  /\ SF_platformVars(pollInstanceDeleteStatus /\ UNCHANGED <<registration, runs>>)
  /\ \A i \in Guids : WF_platformVars(OperationEnds(i) /\ UNCHANGED <<errand, registration, runs>>)
-----------------------------------------------------------------------------
\* TypeOK: every variable stays in its domain, and an errand asks for a delete
\* only after it has worked through the bindings and keys it listed.
TypeOK ==
  /\ CFTypeOK
  /\ errand \in Errand /\ registration \in Registration /\ runs \in 0..MaxRuns
  /\ errand.at \in {"bindings", "key list", "keys", "check", "delete", "wait"} =>
       \E i \in Guids : errand.current = {i}
  /\ errand.at \in {"key list", "check", "delete", "wait"} => errand.marks = {}

Succeeded(kind) == errand.at = "ok" /\ errand.kind = kind

\* PurgedMeansGone: after a purge that reports success there is no broker, no
\* access and no instance, whatever users did meanwhile (purger.go:57).
PurgedMeansGone ==
  Succeeded("purge") => /\ ~registered /\ public = {} /\ \A p \in Plans : visibilities[p] = {}
                        /\ DOMAIN instances = {}

\* DeletedMeansGone: when the instances stay in their plans, those that existed
\* before a successful deletion of all are gone (deleter.go:65).
DeletedMeansGone ==
  Succeeded("delete-all") => errand.known \cap DOMAIN instances = {}

\* MovesOnWhenGone: an errand turns to the next instance, or to the final
\* count, only when the one before is gone (deleter.go:102 "Waiting for
\* service instance %s to be deleted").
MovesOnWhenGone ==
  [][errand.at = "wait" /\ errand'.at \in {"instance", "list"} => Gone(This)]_platformVars

\* RegisteredMeansConfigured: after a registration that reports success every
\* plan has the access its configuration asks for and no other, whatever was
\* configured before and wherever earlier runs failed (registrar.go:31).
RegisteredMeansConfigured ==
  registration.at = "ok" => GivenBy(registration.config)

\* AccessOnlyAsConfigured: no organization gets access to a plan, not even for
\* a moment, that the configuration does not give it (registrar.go:41).
AccessOnlyAsConfigured ==
  [][\A p \in Plans, o \in Orgs :
       Accessible(p, o)' /\ ~Accessible(p, o) => registration.config[p] \in {"enable", o}]_platformVars

\* ErrandEnds: an errand that deletes comes to an end (deleter.go:169).
ErrandEnds == Running ~> ~Running

\* NoInstanceDuringPurge: once a purge has closed the plans nobody creates
\* instances (purger.go:58 "Disabling service access for all plans").
NoInstanceDuringPurge ==
  [][errand.kind = "purge" /\ errand.at \notin {"plans", "disable", "failed"} => used' = used]_platformVars

\* FailedDeleteSentAgain: the errand waits only for a delete that goes on or
\* has ended since it looked (deleter.go:98 "is being deleted, will skip").
FailedDeleteSentAgain ==
  [][errand.at = "check" /\ errand'.at = "wait" => InProgress(This)]_platformVars
=============================================================================
