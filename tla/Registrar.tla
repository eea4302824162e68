------------------------------ MODULE Registrar -------------------------------
(***************************************************************************)
(* The errand that registers the broker, or updates its registration, and  *)
(* gives every plan the access its configuration asks for.  Each call that *)
(* changes something is a step; a failing call ends the errand, and the    *)
(* operator runs it again from the start.                                  *)
(***************************************************************************)
EXTENDS CloudFoundry

VARIABLE registration   \* the run of the errand that goes on, or ended last

\* A plan is enabled, disabled, or restricted to one organization.
CFServiceAccess == {"enable", "disable"} \cup Orgs
Registration == [at : {"brokers", "register", "plan", "visibilities", "hide", "show", "ok", "failed"},
                 config : [Plans -> CFServiceAccess],
                 found : BOOLEAN,          \* a broker of this name was found
                 plans : SUBSET Plans,     \* plans still to do
                 plan : SUBSET Plans,      \* the plan that is being done
                 hide : SUBSET Orgs]       \* visibilities still to delete

Registering == registration.at \notin {"ok", "failed"}
ThisPlan    == CHOOSE p \in registration.plan : TRUE
NoRegistration == [at |-> "failed", config |-> [p \in Plans |-> "disable"], found |-> FALSE,
                   plans |-> {}, plan |-> {}, hide |-> {}]
Step(at)    == registration' = [registration EXCEPT !.at = at]

\* The configuration may differ from run to run.
Run(config) ==
  /\ ~Registering
  /\ registration' = [at |-> "brokers", config |-> config, found |-> FALSE, plans |-> Plans,
                      plan |-> {}, hide |-> {}]
  /\ UNCHANGED cfVars

\* Reading brokers, plans, organizations or visibilities, or changing them, fails.
RegistrationFails ==
  /\ Registering /\ faults > 0
  /\ faults' = faults - 1
  /\ registration' = NoRegistration
  /\ UNCHANGED <<accessVars, instanceVars>>

ServiceBrokers ==
  /\ registration.at = "brokers"
  /\ registration' = [registration EXCEPT !.at = "register", !.found = registered]
  /\ UNCHANGED cfVars

\* A new broker's plans are closed to everybody; an update leaves access as it is.
createOrUpdateBroker ==
  /\ registration.at = "register"
  /\ registered' = TRUE
  /\ public' = IF registration.found THEN public ELSE {}
  /\ visibilities' = IF registration.found THEN visibilities ELSE [p \in Plans |-> {}]
  /\ Step("plan")
  /\ UNCHANGED <<instanceVars, faults>>

\* EnableServiceAccess or DisableServiceAccess: the plan is found and made public or not...
setAccessForPlan_PublicUnlessDisabled(p) ==
  /\ registration.at = "plan" /\ p \in registration.plans
  /\ public' = IF registration.config[p] # "disable" THEN public \cup {p} ELSE public \ {p}
  /\ registration' = [registration EXCEPT !.plans = @ \ {p}, !.plan = {p}, !.at = "visibilities"]
  /\ UNCHANGED <<registered, visibilities, instanceVars, faults>>
setAccessForPlan(p) ==
  /\ registration.at = "plan" /\ p \in registration.plans
  /\ public' = IF registration.config[p] = "enable" THEN public \cup {p} ELSE public \ {p}
  /\ registration' = [registration EXCEPT !.plans = @ \ {p}, !.plan = {p}, !.at = "visibilities"]
  /\ UNCHANGED <<registered, visibilities, instanceVars, faults>>

\* After the visibilities: that of the plan's organization, the next plan, or the end.
AccessSet ==
  CASE registration.config[ThisPlan] \in Orgs -> "show"
    [] registration.config[ThisPlan] \notin Orgs /\ registration.plans # {} -> "plan"
    [] registration.config[ThisPlan] \notin Orgs /\ registration.plans = {} -> "ok"

\* ...and all its visibilities are deleted one by one.
getServicePlanVisibilities_None ==
  /\ registration.at = "visibilities"
  /\ Step(AccessSet)
  /\ UNCHANGED cfVars
getServicePlanVisibilities ==
  /\ registration.at = "visibilities"
  /\ registration' = [registration EXCEPT !.hide = visibilities[ThisPlan],
                        !.at = IF visibilities[ThisPlan] = {} THEN AccessSet ELSE "hide"]
  /\ UNCHANGED cfVars

deleteServicePlanVisibilities(o) ==
  /\ registration.at = "hide" /\ o \in registration.hide
  /\ visibilities' = [visibilities EXCEPT ![ThisPlan] = @ \ {o}]
  /\ registration' = [registration EXCEPT !.hide = @ \ {o},
                        !.at = IF registration.hide = {o} THEN AccessSet ELSE "hide"]
  /\ UNCHANGED <<registered, public, instanceVars, faults>>

CreateServicePlanVisibility ==
  /\ registration.at = "show"
  /\ visibilities' = [visibilities EXCEPT ![ThisPlan] = @ \cup {registration.config[ThisPlan]}]
  /\ Step(IF registration.plans = {} THEN "ok" ELSE "plan")
  /\ UNCHANGED <<registered, public, instanceVars, faults>>

RegistrarNext ==
  \/ RegistrationFails
  \/ ServiceBrokers \/ createOrUpdateBroker
  \/ \E p \in Plans : setAccessForPlan(p)
  \/ getServicePlanVisibilities \/ CreateServicePlanVisibility
  \/ \E o \in Orgs : deleteServicePlanVisibilities(o)
=============================================================================
