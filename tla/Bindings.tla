------------------------------- MODULE Bindings -------------------------------
(***************************************************************************)
(* Binding and unbinding.  The broker makes a binding with the service     *)
(* adapter, under a lock; a broker around it then keeps the credentials in *)
(* CredHub, without one.  Cloud Foundry waits for the answer, may give up  *)
(* waiting, and unbinds what it does not know to have failed cleanly, until*)
(* it hears that the binding is gone.  One instance; the goroutines        *)
(* that serve the requests are modelled, the process they live in is in    *)
(* module Server.                                                          *)
(***************************************************************************)
CONSTANTS Bindings,     \* ids of bindings; Cloud Foundry never uses one twice
          Goroutines,   \* at most so many requests are served at a time
          None,         \* no goroutine, no binding
          InstanceDeleted   \* users may delete the instance

ASSUME BindingsAssumption == None \notin Goroutines \cup Bindings /\ InstanceDeleted \in BOOLEAN

VARIABLES record,     \* Cloud Foundry: how each binding stands
          deployed,   \* BOSH: the deployment exists
          adapter,    \* the service: "none", "bare" (without credentials) or "made"
          stored,     \* CredHub, of each binding: "none", "stored", or "readable" by the app
          handler,    \* what each goroutine is at, for whom, and whether it is waited for
          bindLock,   \* the goroutine that holds it
          disturbed   \* history: bindings that met a fault the code does not recover from

bindingVars == <<record, deployed, adapter, stored, handler, bindLock, disturbed>>

Idle == [at |-> "idle", binding |-> None, heard |-> FALSE]

Records == {"new", "binding", "bound", "unbinding", "orphaned", "mitigating", "gone"}
BindSteps == {"bind", "bindGather", "create", "store", "permit"}
UnbindSteps == {"unbind", "unbindGather", "delete", "forget"}
\* The inner broker's Bind and Unbind, from Lock to the deferred Unlock.
Locked == {"bindGather", "create", "unbindGather", "delete"}

Running == {g \in Goroutines : handler[g].at # "idle"}

BindingsInit ==
  /\ record = [b \in Bindings |-> "new"] /\ deployed = TRUE
  /\ adapter = [b \in Bindings |-> "none"] /\ stored = [b \in Bindings |-> "none"]
  /\ handler = [g \in Goroutines |-> Idle] /\ bindLock = None /\ disturbed = {}

Of(g) == handler[g].binding

\* A handler goes on to its next call; its lock is released when it leaves the inner broker.
GoesTo(g, step) ==
  /\ handler' = [handler EXCEPT ![g].at = step]
  /\ bindLock' = IF step \in Locked THEN g ELSE IF bindLock = g THEN None ELSE bindLock

\* What Cloud Foundry makes of an answer.  A bind that failed may have left something: an
\* orphan, to be unbound.  After an unbind that failed the binding is kept.  "gone" stands
\* for a refusal: what was asked for is not there, or will not be made.
Heard(was, answer) ==
  IF answer = "error" THEN IF was = "unbinding" THEN "bound" ELSE "orphaned"
  ELSE IF answer = "ok" /\ was = "binding" THEN "bound" ELSE "gone"

\* An early return that does not unlock.
Answers_KeepsLock(g, answer) ==
  /\ handler' = [handler EXCEPT ![g] = Idle] /\ UNCHANGED bindLock
  /\ record' = IF handler[g].heard
               THEN [record EXCEPT ![Of(g)] = Heard(record[Of(g)], answer)] ELSE record

Answers(g, answer) ==
  /\ handler' = [handler EXCEPT ![g] = Idle]
  /\ bindLock' = IF bindLock = g THEN None ELSE bindLock
  /\ record' = IF handler[g].heard
               THEN [record EXCEPT ![Of(g)] = Heard(record[Of(g)], answer)] ELSE record
-----------------------------------------------------------------------------
(* The requests. *)

Send(b, step, before, after) ==
  /\ record[b] \in before
  /\ record' = [record EXCEPT ![b] = after]
  /\ \E g \in Goroutines \ Running :
       handler' = [handler EXCEPT ![g] = [at |-> step, binding |-> b, heard |-> TRUE]]
  /\ UNCHANGED <<deployed, adapter, stored, bindLock, disturbed>>

SendBind(b) == deployed /\ Send(b, "bind", {"new"}, "binding")
SendUnbind(b) == Send(b, "unbind", {"bound"}, "unbinding")
MitigateOrphan(b) == Send(b, "unbind", {"orphaned"}, "mitigating")

\* Cloud Foundry times out: the goroutine goes on, nobody hears its answer.
GiveUp(g) ==
  /\ g \in Running /\ handler[g].heard
  /\ handler' = [handler EXCEPT ![g].heard = FALSE]
  /\ record' = [record EXCEPT ![Of(g)] = Heard(record[Of(g)], "error")]
  /\ disturbed' = disturbed \cup {Of(g)}
  /\ UNCHANGED <<deployed, adapter, stored, bindLock>>

\* An instance is deleted when Cloud Foundry has no bindings of it on record.  Unbinding
\* the orphans will then stop at the missing deployment, short of CredHub.
DeleteInstance ==
  /\ InstanceDeleted /\ deployed
  /\ \A b \in Bindings : record[b] \in {"new", "orphaned", "mitigating", "gone"}
  /\ deployed' = FALSE /\ adapter' = [b \in Bindings |-> "none"]
  /\ disturbed' = disturbed \cup {b \in Bindings : record[b] \in {"orphaned", "mitigating"}}
  /\ UNCHANGED <<record, stored, handler, bindLock>>
-----------------------------------------------------------------------------
(* The inner broker's Bind and Unbind. *)

\* Without an app or a client in the request CredHubBroker.Bind does not go on.
RefuseActor(g) ==
  /\ handler[g].at = "bind" /\ Answers(g, "error")
  /\ UNCHANGED <<deployed, adapter, stored, disturbed>>

\* CredHubBroker.Unbind deletes the credentials before it calls the inner broker.
Lock_ForgetsFirst(g) ==
  /\ handler[g].at \in {"bind", "unbind"} /\ bindLock = None
  /\ GoesTo(g, IF handler[g].at = "bind" THEN "bindGather" ELSE "unbindGather")
  /\ stored' = IF handler[g].at = "bind" THEN stored ELSE [stored EXCEPT ![Of(g)] = "none"]
  /\ UNCHANGED <<record, deployed, adapter, disturbed>>

Lock(g) ==
  /\ handler[g].at \in {"bind", "unbind"} /\ bindLock = None
  /\ GoesTo(g, IF handler[g].at = "bind" THEN "bindGather" ELSE "unbindGather")
  /\ UNCHANGED <<record, deployed, adapter, stored, disturbed>>

\* What is read for the adapter (getDeploymentInfo, GetDNSAddresses), and the checks of the
\* request.  Failures to read the variables or to resolve the secrets are only logged.
GatherForBind(g) ==
  /\ handler[g].at = "bindGather"
  /\ \/ deployed /\ GoesTo(g, "create") /\ UNCHANGED record
     \/ Answers(g, "gone")
     \/ Answers(g, "error")
  /\ UNCHANGED <<deployed, adapter, stored, disturbed>>

GatherForUnbind(g) ==
  /\ handler[g].at = "unbindGather"
  /\ \/ deployed /\ GoesTo(g, "delete") /\ UNCHANGED record
     \/ ~deployed /\ Answers(g, "gone")
     \/ Answers(g, "error")
  /\ UNCHANGED <<deployed, adapter, stored, disturbed>>

credentialsEmpty(credentials) == credentials = "bare"

\* The adapter makes the binding; if it fails, it may have made it, with credentials or
\* without, or not.  No id is used twice, so it never finds that it has one already.
CreateBinding(g) ==
  /\ handler[g].at = "create"
  /\ \/ /\ deployed
        /\ \E credentials \in {"bare", "made"} :
             /\ adapter' = [adapter EXCEPT ![Of(g)] = credentials]
             /\ IF credentialsEmpty(credentials) THEN Answers(g, "ok")
                ELSE GoesTo(g, "store") /\ UNCHANGED record
     \/ /\ deployed /\ Answers(g, "error")
        /\ \E credentials \in {"bare", "made"} : adapter' = [adapter EXCEPT ![Of(g)] = credentials]
     \/ Answers(g, "error") /\ UNCHANGED adapter
  /\ UNCHANGED <<deployed, stored, disturbed>>

\* An adapter that does not know the binding says so, which is an error for Unbind
\* and "gone" for Cloud Foundry.
DeleteBinding(g) ==
  /\ handler[g].at = "delete"
  /\ \/ /\ adapter[Of(g)] # "none"
        /\ adapter' = [adapter EXCEPT ![Of(g)] = "none"]
        /\ GoesTo(g, "forget") /\ UNCHANGED <<record, disturbed>>
     \/ /\ adapter[Of(g)] = "none"
        /\ Answers(g, "gone") /\ UNCHANGED <<adapter, disturbed>>
     \/ Answers(g, "error") /\ UNCHANGED <<adapter, disturbed>>
     \/ /\ adapter[Of(g)] # "none"
        /\ adapter' = [adapter EXCEPT ![Of(g)] = "none"]
        /\ Answers(g, "error") /\ disturbed' = disturbed \cup {Of(g)}
  /\ UNCHANGED <<deployed, stored>>
-----------------------------------------------------------------------------
(* CredHubBroker, without the lock. *)

\* Credentials that cannot be stored are reported as a bad request.
Store_Refuses(g) ==
  /\ handler[g].at = "store"
  /\ \/ /\ stored' = [stored EXCEPT ![Of(g)] = "stored"]
        /\ GoesTo(g, "permit") /\ UNCHANGED record
     \/ UNCHANGED stored /\ Answers(g, "gone")
  /\ UNCHANGED <<deployed, adapter, disturbed>>

\* Set; if it fails, the credentials may be there or not.
Store(g) ==
  /\ handler[g].at = "store"
  /\ \/ /\ stored' = [stored EXCEPT ![Of(g)] = "stored"]
        /\ GoesTo(g, "permit") /\ UNCHANGED record
     \/ stored' = [stored EXCEPT ![Of(g)] = "stored"] /\ Answers(g, "error")
     \/ Answers(g, "error") /\ UNCHANGED stored
  /\ UNCHANGED <<deployed, adapter, disturbed>>

\* AddPermission, whose error nobody looks at; of credentials that were deleted
\* meanwhile it is one.
Permit(g) ==
  /\ handler[g].at = "permit"
  /\ \/ stored[Of(g)] # "none" /\ stored' = [stored EXCEPT ![Of(g)] = "readable"]
     \/ UNCHANGED stored
  /\ Answers(g, "ok")
  /\ UNCHANGED <<deployed, adapter, disturbed>>

\* Delete, whose error is only logged.
Forget(g) ==
  /\ handler[g].at = "forget"
  /\ \/ stored' = [stored EXCEPT ![Of(g)] = "none"] /\ UNCHANGED disturbed
     \/ UNCHANGED stored /\ disturbed' = disturbed \cup {Of(g)}
  /\ Answers(g, "ok")
  /\ UNCHANGED <<deployed, adapter>>
-----------------------------------------------------------------------------
Call(g) ==
  \/ RefuseActor(g) \/ Lock(g) \/ GatherForBind(g) \/ GatherForUnbind(g)
  \/ CreateBinding(g) \/ DeleteBinding(g)
  \/ Store(g) \/ Permit(g) \/ Forget(g)

\* The process is gone and its goroutines with it.  An unbind between the adapter and
\* CredHub is not taken up again: the next one is told that there is no such binding.
Killed ==
  /\ handler' = [g \in Goroutines |-> Idle] /\ bindLock' = None
  /\ record' = [b \in Bindings |->
       IF \E g \in Running : Of(g) = b /\ handler[g].heard THEN Heard(record[b], "error") ELSE record[b]]
  /\ disturbed' = disturbed \cup {Of(g) : g \in {h \in Running : handler[h].at = "forget"}}
  /\ UNCHANGED <<deployed, adapter, stored>>

BindingsTypeOK ==
  /\ record \in [Bindings -> Records] /\ deployed \in BOOLEAN
  /\ adapter \in [Bindings -> {"none", "bare", "made"}]
  /\ stored \in [Bindings -> {"none", "stored", "readable"}]
  /\ handler \in [Goroutines -> {Idle} \cup
       [at : BindSteps \cup UnbindSteps, binding : Bindings, heard : BOOLEAN]]
  /\ bindLock \in Goroutines \cup {None} /\ disturbed \subseteq Bindings

\* The lock is held inside the inner broker's Bind and Unbind and nowhere else, so the
\* adapter works on one binding at a time and no error path keeps the lock (defer).
LockedInside == \A g \in Goroutines : bindLock = g <=> handler[g].at \in Locked

\* Of a binding that is bound for Cloud Foundry, (1) what the service still knows has its
\* credentials in CredHub, whatever failed before: Unbind drops the credentials after
\* the binding, and only then (credhubbroker.go, Unbind); (2) the service does know it, with
\* three exceptions, which are in disturbed: an unbind failed after the adapter had
\* removed the binding, the process was killed between that and CredHub, or Cloud
\* Foundry gave up waiting for a request of it.
BoundIsUsable ==
  \A b \in Bindings : record[b] = "bound" =>
    /\ adapter[b] = "made" => stored[b] # "none"
    /\ b \notin disturbed => adapter[b] # "none"

\* The second part without exception; it does not hold.  After an unbind that failed on its
\* way Cloud Foundry keeps a binding that the service has forgotten (unbind.go).
BoundIsAlwaysUsable ==
  \A b \in Bindings : record[b] = "bound" => adapter[b] # "none"

\* When Cloud Foundry takes a binding for gone, the service does not know it any more and
\* CredHub does not have its credentials: what a failed bind, a lost answer or
\* a killed process left is removed by the unbinds that follow.
GoneLeavesNothing ==
  \A b \in Bindings \ disturbed : record[b] = "gone" => adapter[b] = "none" /\ stored[b] = "none"

\* The same without exception; it does not hold.
GoneAlwaysLeavesNothing ==
  \A b \in Bindings : record[b] = "gone" => adapter[b] = "none" /\ stored[b] = "none"

\* An app can read the credentials of its binding (AddPermission); it does not hold, the
\* error of AddPermission is dropped.
BoundIsReadable ==
  \A b \in Bindings \ disturbed : record[b] = "bound" /\ adapter[b] = "made" => stored[b] = "readable"
=============================================================================
