-------------------------------- MODULE Purger --------------------------------
(***************************************************************************)
(* The errands that delete all service instances, deregister the broker,   *)
(* or do both after closing all plans (purge).  Every call to Cloud        *)
(* Foundry is a step; users go on between any two of them.  A call whose   *)
(* effect took place but whose answer was lost is the call, and then the   *)
(* failure of the next one.                                                *)
(***************************************************************************)
EXTENDS CloudFoundry

VARIABLE errand   \* the errand that runs, or ran last

ErrandKinds == {"purge", "delete-all", "deregister"}
Errand == [kind : ErrandKinds,
           at : {"plans", "disable", "list", "page", "instance", "bindings", "keys", "key list",
                 "check", "delete", "wait", "find", "deregister", "ok", "failed"},
           plans : SUBSET Plans,                \* plans still to close or to list
           found : SUBSET Guids,                \* instances listed so far, then those still to delete
           again : BOOLEAN,                     \* the instances are listed for the second time
           current : SUBSET Guids,              \* the instance that is being deleted
           marks : SUBSET (Bindings \cup Keys), \* bindings or keys still to delete
           known : SUBSET Guids]                \* history: what a deletion of all began with

Calls == {"plans", "disable", "list", "page", "instance", "bindings", "keys", "key list",
          "delete", "wait", "find", "deregister"}
Running == errand.at \notin {"ok", "failed"}
NoErrand == [kind |-> "deregister", at |-> "failed", plans |-> {}, found |-> {}, again |-> FALSE,
             current |-> {}, marks |-> {}, known |-> {}]
Goto(at) == errand' = [errand EXCEPT !.at = at]
End(at)  == errand' = [NoErrand EXCEPT !.at = at, !.kind = errand.kind, !.known = errand.known]
This     == CHOOSE i \in errand.current : TRUE

Start(kind) ==
  /\ ~Running
  /\ errand' = [kind |-> kind, plans |-> {}, found |-> {}, again |-> FALSE, current |-> {},
                marks |-> {}, known |-> IF kind = "delete-all" THEN DOMAIN instances ELSE {},
                at |-> CASE kind = "purge"      -> "plans"
                         [] kind = "delete-all" -> "list"
                         [] kind = "deregister" -> "find"]
  /\ UNCHANGED cfVars

\* A call answers with an error that ends the errand.
CallFails ==
  /\ errand.at \in Calls /\ faults > 0
  /\ faults' = faults - 1
  /\ End("failed")
  /\ UNCHANGED <<accessVars, instanceVars>>
-----------------------------------------------------------------------------
(* Closing the plans: they are no longer public; visibilities stay. *)

GetPlansToDisable ==
  /\ errand.at = "plans"
  /\ errand' = [errand EXCEPT !.plans = getPlansForServiceID,
                              !.at = IF getPlansForServiceID = {} THEN "list" ELSE "disable"]
  /\ UNCHANGED cfVars

DisableServiceAccessForAllPlans(p) ==
  /\ errand.at = "disable" /\ p \in errand.plans
  /\ public' = public \ {p}
  /\ errand' = [errand EXCEPT !.plans = @ \ {p},
                              !.at = IF errand.plans = {p} THEN "list" ELSE "disable"]
  /\ UNCHANGED <<registered, visibilities, instanceVars, faults>>
-----------------------------------------------------------------------------
(* Listing the instances, plan by plan. *)

\* After the last page: the first list is worked through, the second has to
\* be empty; the deletion is over when a list is.
Listed(found) ==
  CASE found = {} -> IF errand.kind = "purge" THEN "find" ELSE "ok"
    [] found # {} -> IF errand.again THEN "failed" ELSE "instance"

ListPlans ==
  /\ errand.at = "list"
  /\ errand' = [errand EXCEPT !.plans = getPlansForServiceID, !.found = {},
                              !.at = IF getPlansForServiceID = {} THEN Listed({}) ELSE "page"]
  /\ UNCHANGED cfVars

GetServiceInstances_LastPlan(p) ==
  /\ errand.at = "page" /\ p \in errand.plans
  /\ LET found == {i \in DOMAIN instances : instances[i].plan = p}
     IN  errand' = [errand EXCEPT !.plans = @ \ {p}, !.found = found,
                                  !.at = IF errand.plans = {p} THEN Listed(found) ELSE "page"]
  /\ UNCHANGED cfVars
GetServiceInstances(p) ==
  /\ errand.at = "page" /\ p \in errand.plans
  /\ LET found == errand.found \cup {i \in DOMAIN instances : instances[i].plan = p}
     IN  errand' = [errand EXCEPT !.plans = @ \ {p}, !.found = found,
                                  !.at = IF errand.plans = {p} THEN Listed(found) ELSE "page"]
  /\ UNCHANGED cfVars
-----------------------------------------------------------------------------
(* Deleting one instance: bindings, keys, the request, the wait. *)

\* An instance that is gone has no bindings; that is no error.
BoundTo(i, kind) == IF Gone(i) THEN {} ELSE instances[i].bound \cap kind

GetBindingsForInstance_NotDeleted(i) ==
  /\ errand.at = "instance" /\ i \in errand.found
  /\ errand' = [errand EXCEPT !.found = @ \ {i}, !.current = {i}, !.marks = BoundTo(i, Bindings),
                              !.at = "key list"]
  /\ UNCHANGED cfVars
GetBindingsForInstance(i) ==
  /\ errand.at = "instance" /\ i \in errand.found
  /\ errand' = [errand EXCEPT !.found = @ \ {i}, !.current = {i}, !.marks = BoundTo(i, Bindings),
                              !.at = IF BoundTo(i, Bindings) = {} THEN "key list" ELSE "bindings"]
  /\ UNCHANGED cfVars

deleteBindings(b) ==
  /\ errand.at = "bindings" /\ b \in errand.marks
  /\ RemoveBinding(This, b)
  /\ errand' = [errand EXCEPT !.marks = @ \ {b},
                              !.at = IF errand.marks = {b} THEN "key list" ELSE "bindings"]
  /\ UNCHANGED <<accessVars, faults>>

GetServiceKeysForInstance ==
  /\ errand.at = "key list"
  /\ errand' = [errand EXCEPT !.marks = BoundTo(This, Keys),
                              !.at = IF BoundTo(This, Keys) = {} THEN "check" ELSE "keys"]
  /\ UNCHANGED cfVars

deleteServiceKeys(k) ==
  /\ errand.at = "keys" /\ k \in errand.marks
  /\ RemoveBinding(This, k)
  /\ errand' = [errand EXCEPT !.marks = @ \ {k},
                              !.at = IF errand.marks = {k} THEN "check" ELSE "keys"]
  /\ UNCHANGED <<accessVars, faults>>

\* The type of the last operation decides, not its state; an error means no.
deleteInProgress ==
  /\ errand.at = "check"
  /\ \/ Deleting(This) /\ Goto("wait") /\ UNCHANGED faults
     \/ ~Deleting(This) /\ Goto("delete") /\ UNCHANGED faults
     \/ faults > 0 /\ faults' = faults - 1 /\ Goto("delete")
  /\ UNCHANGED <<accessVars, instanceVars>>

deleteServiceInstance ==
  /\ errand.at = "delete"
  /\ \/ Gone(This) /\ Goto("wait") /\ UNCHANGED instanceVars
     \/ /\ MayDelete(This)
        /\ StartOperation(This, "delete", instances[This].plan)
        /\ Goto("wait")
     \/ ~Gone(This) /\ ~MayDelete(This) /\ End("failed") /\ UNCHANGED instanceVars
  /\ UNCHANGED <<accessVars, faults>>

\* While the delete goes on, and when a poll fails in an unknown way, the errand waits.
Deleted ==
  /\ Gone(This)
  /\ errand' = [errand EXCEPT !.again = errand.found = {}, !.current = {},
                              !.at = IF errand.found = {} THEN "list" ELSE "instance"]
UnexpectedOperation == ~Gone(This) /\ ~Deleting(This) /\ End("failed")
DeleteFailed        == /\ Deleting(This) /\ instances[This].state = "failed"
                       /\ End("failed")

pollInstanceDeleteStatus_IgnoresFailure ==
  /\ errand.at = "wait"
  /\ Deleted \/ UnexpectedOperation
  /\ UNCHANGED cfVars
pollInstanceDeleteStatus_AnyEndWillDo ==
  /\ errand.at = "wait"
  /\ \/ Deleted \/ UnexpectedOperation
     \/ /\ Deleting(This) /\ ~InProgress(This)
        /\ errand' = [errand EXCEPT !.again = errand.found = {}, !.current = {},
                                    !.at = IF errand.found = {} THEN "list" ELSE "instance"]
  /\ UNCHANGED cfVars
pollInstanceDeleteStatus ==
  /\ errand.at = "wait"
  /\ Deleted \/ UnexpectedOperation \/ DeleteFailed
  /\ UNCHANGED cfVars
-----------------------------------------------------------------------------
(* Deregistering the broker. *)

GetServiceOfferingGUID ==
  /\ errand.at = "find"
  /\ IF registered THEN Goto("deregister") ELSE End("ok")
  /\ UNCHANGED cfVars

\* Cloud Foundry keeps a broker that has instances.
DeregisterBroker_IgnoresRefusal ==
  /\ errand.at = "deregister"
  /\ \/ DOMAIN instances = {} /\ registered' = FALSE /\ public' = {}
        /\ visibilities' = [p \in Plans |-> {}]
     \/ DOMAIN instances # {} /\ UNCHANGED accessVars
  /\ End("ok")
  /\ UNCHANGED <<instanceVars, faults>>
DeregisterBroker ==
  /\ errand.at = "deregister"
  /\ \/ /\ DOMAIN instances = {}
        /\ registered' = FALSE /\ public' = {} /\ visibilities' = [p \in Plans |-> {}]
        /\ End("ok")
     \/ DOMAIN instances # {} /\ End("failed") /\ UNCHANGED accessVars
  /\ UNCHANGED <<instanceVars, faults>>

PurgerNext ==
  \/ CallFails
  \/ GetPlansToDisable \/ ListPlans \/ GetServiceKeysForInstance
  \/ \E p \in Plans : DisableServiceAccessForAllPlans(p) \/ GetServiceInstances(p)
  \/ \E i \in Guids : GetBindingsForInstance(i)
  \/ \E b \in Bindings : deleteBindings(b)
  \/ \E k \in Keys : deleteServiceKeys(k)
  \/ deleteInProgress \/ deleteServiceInstance \/ pollInstanceDeleteStatus
  \/ GetServiceOfferingGUID \/ DeregisterBroker
=============================================================================
