--------------------------- MODULE OrphanDeployments ---------------------------
(***************************************************************************)
(* The errand that looks for deployments without a service instance.  The  *)
(* broker reads Cloud Foundry's instances, plan by plan and page by page,  *)
(* then BOSH's deployments, and reports those that are not among the       *)
(* former.  Meanwhile instances come and go and change their plans.        *)
(***************************************************************************)
EXTENDS Naturals, Sequences, FiniteSets, SequencesExt

CONSTANTS Plans, Instances,
          Foreign,      \* deployments whose names do not begin with InstancePrefix
          PageSize      \* instances on a page of Cloud Foundry's answers

ASSUME OrphanAssumption == Instances \cap Foreign = {} /\ PageSize \in Nat \ {0}

VARIABLES records,      \* Cloud Foundry: the instances of each plan, oldest first
          deployments,  \* BOSH
          deployedOnce, recordedOnce,   \* ids are not used again
          errand,       \* what the errand does: "idle", "list", "deployments" or "done"
          unread,       \* plans whose instances it has still to list
          page,         \* the plan it lists and the number of its next page
          instanceIDs,  \* instances it has seen
          orphans,      \* its report
          throughout,   \* history: instances recorded with one plan since the errand began
          forgotten,    \* history: deployments without a record since then
          shrunk        \* history: plans that lost an instance between two of their pages

errandVars  == <<errand, unread, page, instanceIDs, orphans>>
historyVars == <<throughout, forgotten, shrunk>>
idVars == <<deployedOnce, recordedOnce>>
vars == <<records, deployments, idVars, errandVars, historyVars>>

Recorded == UNION {ToSet(records[p]) : p \in Plans}
NoPage == <<>>

Init ==
  /\ records = [p \in Plans |-> <<>>] /\ deployments \in SUBSET Foreign
  /\ deployedOnce = {} /\ recordedOnce = {}
  /\ errand = "idle" /\ unread = {} /\ page = NoPage /\ instanceIDs = {} /\ orphans = {}
  /\ throughout = {} /\ forgotten = {} /\ shrunk = {}
-----------------------------------------------------------------------------
(* The platform.  Of an instance that is asked for, the deployment and the *)
(* record of Cloud Foundry come in either order, and so do they go.        *)

Deploy(i) ==
  /\ i \notin deployedOnce /\ (i \in recordedOnce => i \in Recorded)
  /\ deployments' = deployments \cup {i} /\ deployedOnce' = deployedOnce \cup {i}
  /\ UNCHANGED <<records, recordedOnce, errandVars, historyVars>>

Record(i, p) ==
  /\ i \notin recordedOnce /\ (i \in deployedOnce => i \in deployments)
  /\ records' = [records EXCEPT ![p] = Append(@, i)] /\ recordedOnce' = recordedOnce \cup {i}
  /\ forgotten' = forgotten \ {i}
  /\ UNCHANGED <<deployments, deployedOnce, errandVars, throughout, shrunk>>

Delete(i) ==
  /\ i \in deployments
  /\ deployments' = deployments \ {i} /\ forgotten' = forgotten \ {i}
  /\ UNCHANGED <<records, idVars, errandVars, throughout, shrunk>>

\* Removing an instance from a plan that is being listed moves those after it to the front.
Without(i, p) == RemoveAt(records[p], CHOOSE k \in DOMAIN records[p] : records[p][k] = i)
Shrinks(p) == IF page # NoPage /\ page[1] = p THEN shrunk \cup {p} ELSE shrunk

\* The last step of a delete, or a purge.
Forget(i, p) ==
  /\ i \in ToSet(records[p])
  /\ records' = [records EXCEPT ![p] = Without(i, p)]
  /\ throughout' = throughout \ {i} /\ shrunk' = Shrinks(p)
  /\ UNCHANGED <<deployments, idVars, errandVars, forgotten>>

ChangePlan(i, p, q) ==
  /\ p # q /\ i \in ToSet(records[p])
  /\ records' = [records EXCEPT ![p] = Without(i, p), ![q] = Append(@, i)]
  /\ throughout' = throughout \ {i} /\ shrunk' = Shrinks(p)
  /\ UNCHANGED <<deployments, idVars, errandVars, forgotten>>
-----------------------------------------------------------------------------
(* The errand. *)

\* GetServiceInstances: the plans, then their instances.
GetServiceInstances ==
  /\ errand = "idle" /\ errand' = "list" /\ unread' = Plans
  /\ throughout' = Recorded /\ forgotten' = deployments \ Recorded
  /\ UNCHANGED <<records, deployments, idVars, page, instanceIDs, orphans, shrunk>>

\* A page of a plan; the answer names the next page as long as there is one.
PageOf(p, n) == {records[p][k] : k \in {j \in DOMAIN records[p] : (n - 1) * PageSize < j /\ j <= n * PageSize}}

\* Only the first page of a plan is read.
getInstances_FirstPage ==
  /\ errand = "list"
  /\ \E p \in unread :
       /\ instanceIDs' = instanceIDs \cup PageOf(p, 1)
       /\ unread' = unread \ {p}
  /\ UNCHANGED <<records, deployments, idVars, errand, page, orphans, historyVars>>

getInstances ==
  /\ errand = "list"
  /\ \E p \in unread :
       LET n == IF page = NoPage THEN 1 ELSE page[2]
       IN  /\ page # NoPage => page[1] = p
           /\ instanceIDs' = instanceIDs \cup PageOf(p, n)
           /\ IF Len(records[p]) > n * PageSize
              THEN page' = <<p, n + 1>> /\ UNCHANGED unread
              ELSE page' = NoPage /\ unread' = unread \ {p}
  /\ UNCHANGED <<records, deployments, idVars, errand, orphans, historyVars>>

Listed ==
  /\ errand = "list" /\ unread = {} /\ errand' = "deployments"
  /\ UNCHANGED <<records, deployments, idVars, unread, page, instanceIDs, orphans, historyVars>>

\* The two lists are compared the other way round.
OrphanDeployments_SwappedLists ==
  /\ errand = "deployments" /\ errand' = "done"
  /\ orphans' = {d \in instanceIDs : d \notin deployments}
  /\ UNCHANGED <<records, deployments, idVars, unread, page, instanceIDs, historyVars>>

\* GetDeployments, of which those of other names are passed over.
OrphanDeployments ==
  /\ errand = "deployments" /\ errand' = "done"
  /\ orphans' = {d \in deployments : d \notin Foreign /\ d \notin instanceIDs}
  /\ UNCHANGED <<records, deployments, idVars, unread, page, instanceIDs, historyVars>>

\* An error does not reset the pages.
Fail_KeepsPage ==
  /\ errand \in {"list", "deployments"} /\ errand' = "idle"
  /\ unread' = {} /\ instanceIDs' = {}
  /\ throughout' = {} /\ forgotten' = {} /\ shrunk' = {}
  /\ UNCHANGED <<records, deployments, idVars, page, orphans>>

\* Any call may fail; the errand reports an error and no orphans.
Fail ==
  /\ errand \in {"list", "deployments"} /\ errand' = "idle"
  /\ unread' = {} /\ page' = NoPage /\ instanceIDs' = {}
  /\ throughout' = {} /\ forgotten' = {} /\ shrunk' = {}
  /\ UNCHANGED <<records, deployments, idVars, orphans>>
-----------------------------------------------------------------------------
Next ==
  \/ \E i \in Instances : Deploy(i) \/ Delete(i)
  \/ \E i \in Instances, p \in Plans : Record(i, p) \/ Forget(i, p)
  \/ \E i \in Instances, p, q \in Plans : ChangePlan(i, p, q)
  \/ GetServiceInstances \/ getInstances \/ Listed \/ OrphanDeployments \/ Fail

Spec == Init /\ [][Next]_vars
-----------------------------------------------------------------------------
\* Types of the variables; the plan that is being listed is not done.
TypeOK ==
  /\ records \in [Plans -> Seq(Instances)] /\ deployments \subseteq Instances \cup Foreign
  /\ deployedOnce \subseteq Instances /\ recordedOnce \subseteq Instances
  /\ errand \in {"idle", "list", "deployments", "done"} /\ unread \subseteq Plans
  /\ page \in {NoPage} \cup (unread \X (Nat \ {0, 1}))
  /\ instanceIDs \subseteq Instances /\ orphans \subseteq Instances \cup Foreign
  /\ throughout \subseteq Instances /\ forgotten \subseteq Instances \cup Foreign
  /\ shrunk \subseteq Plans

\* What is an orphan all the time the errand runs, it reports, however the lists
\* change while they are read.
OrphansAreReported == errand = "done" => forgotten \ Foreign \subseteq orphans

\* The deployment of an instance Cloud Foundry knows all the time, with one plan, is not
\* reported: an operator deletes what is (cmd/orphan-deployments).  The exception are plans
\* that lose an instance between two of their pages.  Nor is a deployment of somebody else.
InstancesAreNotReported ==
  errand = "done" =>
    \A d \in orphans : d \notin Foreign /\ (d \in throughout => \E p \in shrunk : d \in ToSet(records[p]))

\* Without the exception; it does not hold, what slips to a page that was read is missed.
NoneSlips == errand = "done" => orphans \cap throughout = {}

\* A deployment without an instance when it is reported; it does not hold, the instance may
\* have been created, or have changed its plan, between the lists.
ReportedHasNoInstance == [][OrphanDeployments => orphans' \cap Recorded = {}]_vars
=============================================================================
