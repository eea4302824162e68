----------------------------- MODULE CloudFoundry -----------------------------
(***************************************************************************)
(* Cloud Foundry as the errands that register and purge the broker see it: *)
(* the broker's registration, the access to its plans, its instances with  *)
(* their last operation, bindings and service keys, and users who go on    *)
(* creating, changing, binding and deleting meanwhile.                     *)
(***************************************************************************)
EXTENDS Naturals

CONSTANTS Plans,       \* plans of the service offering
          Orgs,        \* organizations whose users create instances
          Guids,       \* service instances there may ever be
          Bindings,    \* bindings of an instance
          Keys,        \* service keys of an instance
          PlanChanges, \* TRUE: users move instances between plans
          MaxFaults    \* bound on failing calls

ASSUME CloudFoundryAssumption ==
  /\ Plans # {} /\ Bindings \cap Keys = {}
  /\ PlanChanges \in BOOLEAN /\ MaxFaults \in Nat

VARIABLES registered,   \* the broker is registered: its offering and plans exist
          public,       \* plans every organization has access to
          visibilities, \* organizations with access to each plan
          instances,    \* the instances on record: a function on some of Guids
          used,         \* GUIDs that were ever given to an instance
          faults        \* calls that may still fail

accessVars   == <<registered, public, visibilities>>
instanceVars == <<instances, used>>
cfVars       == <<accessVars, instanceVars, faults>>

\* The last operation: a delete, or a create or update, which the errands
\* do not tell apart, nor how one of those ended.
Instance == [plan : Plans, to : Plans, type : {"create or update", "delete"},
             state : {"in progress", "succeeded", "failed"}, bound : SUBSET (Bindings \cup Keys)]
Gone(i)       == i \notin DOMAIN instances
InProgress(i) == ~Gone(i) /\ instances[i].state = "in progress"
Deleting(i)   == ~Gone(i) /\ instances[i].type = "delete"
Accessible(p, o) == registered /\ (p \in public \/ o \in visibilities[p])

\* What GET of the plans of the offering answers.
getPlansForServiceID == IF registered THEN Plans ELSE {}
-----------------------------------------------------------------------------
(* What Cloud Foundry does with an instance. *)

Put(i, r) == instances' = [j \in DOMAIN instances \cup {i} |-> IF j = i THEN r ELSE instances[j]]
StartOperation(i, type, to) ==
  /\ Put(i, [instances[i] EXCEPT !.type = type, !.state = "in progress", !.to = to])
  /\ UNCHANGED used
Remove(i) ==
  /\ instances' = [j \in DOMAIN instances \ {i} |-> instances[j]]
  /\ UNCHANGED used

\* It refuses a second operation, and to delete what is bound.
MayDelete(i) == ~Gone(i) /\ ~InProgress(i) /\ instances[i].bound = {}

\* A change of plan takes effect, or fails, at the end.
OperationEnds(i) ==
  /\ InProgress(i)
  /\ \/ /\ ~Deleting(i)
        /\ \E p \in {instances[i].plan, instances[i].to} :
             Put(i, [instances[i] EXCEPT !.state = "succeeded", !.plan = p, !.to = p])
        /\ UNCHANGED used
     \/ Deleting(i) /\ Remove(i)
     \/ /\ Deleting(i)
        /\ Put(i, [instances[i] EXCEPT !.state = "failed"])
        /\ UNCHANGED used
  /\ UNCHANGED <<accessVars, faults>>
-----------------------------------------------------------------------------
(* Users. *)

CreateInstance(i, p) ==
  /\ i \notin used /\ \E o \in Orgs : Accessible(p, o)
  /\ used' = used \cup {i}
  /\ Put(i, [plan |-> p, to |-> p, type |-> "create or update", state |-> "in progress",
             bound |-> {}])
  /\ UNCHANGED <<accessVars, faults>>

UpdateInstance(i, p) ==
  /\ ~Gone(i) /\ ~InProgress(i)
  /\ p # instances[i].plan => PlanChanges /\ \E o \in Orgs : Accessible(p, o)
  /\ StartOperation(i, "create or update", p)
  /\ UNCHANGED <<accessVars, faults>>

DeleteInstance(i) ==
  /\ MayDelete(i)
  /\ StartOperation(i, "delete", instances[i].plan)
  /\ UNCHANGED <<accessVars, faults>>

Bind(i, b) ==
  /\ ~Gone(i) /\ ~InProgress(i) /\ b \notin instances[i].bound
  /\ Put(i, [instances[i] EXCEPT !.bound = @ \cup {b}])
  /\ UNCHANGED <<accessVars, used, faults>>

RemoveBinding(i, b) ==
  /\ IF Gone(i) THEN UNCHANGED instances ELSE Put(i, [instances[i] EXCEPT !.bound = @ \ {b}])
  /\ UNCHANGED used
Unbind(i, b) ==
  /\ ~Gone(i) /\ b \in instances[i].bound
  /\ RemoveBinding(i, b)
  /\ UNCHANGED <<accessVars, faults>>

Unregistered == registered = FALSE /\ public = {} /\ visibilities = [p \in Plans |-> {}]

\* The access to a plan that a configuration asks for.
GivenBy(config) ==
  /\ registered = TRUE
  /\ public = {p \in Plans : config[p] = "enable"}
  /\ visibilities = [p \in Plans |-> {config[p]} \cap Orgs]

CFInit ==
  /\ instances = <<>> /\ used = {}
  /\ faults = MaxFaults

\* Users and operations in progress.
CFNext ==
  \/ \E i \in Guids : OperationEnds(i) \/ DeleteInstance(i)
  \/ \E i \in Guids, p \in Plans : CreateInstance(i, p) \/ UpdateInstance(i, p)
  \/ \E i \in Guids, b \in Bindings \cup Keys : Bind(i, b) \/ Unbind(i, b)

CFTypeOK ==
  /\ registered \in BOOLEAN /\ public \subseteq Plans /\ visibilities \in [Plans -> SUBSET Orgs]
  /\ used \subseteq Guids /\ DOMAIN instances \subseteq used
  /\ \A i \in DOMAIN instances : instances[i] \in Instance
  /\ faults \in 0..MaxFaults
=============================================================================
