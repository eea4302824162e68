---------------------------- MODULE PlatformProofs ----------------------------
(***************************************************************************)
(* Theorems about the errands: type correctness, and what a registration   *)
(* and a purge that report success leave behind.                           *)
(***************************************************************************)
EXTENDS Platform, TLAPS

LEMMA ChooseOnly == ASSUME NEW S, NEW x, S = {x} PROVE (CHOOSE y \in S : TRUE) = x
  OBVIOUS

\* TypeInit: the initial states are typed.
LEMMA TypeInit == Init => TypeOK
  <1> SUFFICES ASSUME Init PROVE TypeOK
    OBVIOUS
  <1> USE CloudFoundryAssumption, PlatformAssumption
  <1>1. registered \in BOOLEAN /\ public \subseteq Plans /\ visibilities \in [Plans -> SUBSET Orgs]
    <2>1. CASE Unregistered
      BY <2>1 DEF Unregistered
    <2>2. CASE \E config \in Configs : GivenBy(config)
      BY <2>2 DEF GivenBy
    <2> QED BY <2>1, <2>2 DEF Init
  <1>2. CFTypeOK
    BY <1>1 DEF Init, CFInit, CFTypeOK
  <1>3. errand \in Errand
    BY DEF Init, NoErrand, Errand, ErrandKinds
  <1>4. registration \in Registration
    BY DEF Init, NoRegistration, Registration, CFServiceAccess
  <1>5. runs \in 0..MaxRuns /\ errand.at = "failed"
    BY DEF Init, NoErrand
  <1> QED BY <1>2, <1>3, <1>4, <1>5 DEF TypeOK

\* An instance's record stays one when the actions change it: an operation
\* starts, succeeds or fails, a binding comes or goes.
LEMMA Starting ==
  ASSUME NEW r \in Instance, NEW p \in Plans, NEW t \in {"create or update", "delete"}
  PROVE  [r EXCEPT !.type = t, !.state = "in progress", !.to = p] \in Instance
  BY DEF Instance
LEMMA Succeeding ==
  ASSUME NEW r \in Instance, NEW p \in Plans
  PROVE  [r EXCEPT !.state = "succeeded", !.plan = p, !.to = p] \in Instance
  BY DEF Instance
LEMMA Failing == ASSUME NEW r \in Instance PROVE [r EXCEPT !.state = "failed"] \in Instance
  BY DEF Instance
LEMMA Binding ==
  ASSUME NEW r \in Instance, NEW b \in Bindings \cup Keys
  PROVE  [r EXCEPT !.bound = r.bound \cup {b}] \in Instance
  BY DEF Instance
LEMMA Unbinding ==
  ASSUME NEW r \in Instance, NEW b \in Bindings \cup Keys
  PROVE  [r EXCEPT !.bound = r.bound \ {b}] \in Instance
  BY DEF Instance

InstancesOK == /\ used \subseteq Guids /\ DOMAIN instances \subseteq used
               /\ \A i \in DOMAIN instances : instances[i] \in Instance

\* Instances stay typed when one of them is replaced by an instance.
LEMMA PutOK ==
  ASSUME InstancesOK, NEW i \in used, NEW r \in Instance, Put(i, r), UNCHANGED used
  PROVE  InstancesOK'
  BY DEF InstancesOK, Put

\* A request to Cloud Foundry keeps them typed, too.
LEMMA StartOK ==
  ASSUME InstancesOK, NEW i \in DOMAIN instances, NEW p \in Plans,
         NEW t \in {"create or update", "delete"}, StartOperation(i, t, p)
  PROVE  InstancesOK'
  <1> DEFINE r == [instances[i] EXCEPT !.type = t, !.state = "in progress", !.to = p]
  <1>1. r \in Instance
    <2>1. instances[i] \in Instance
      BY DEF InstancesOK
    <2> QED BY <2>1, Starting
  <1>2. Put(i, r) /\ UNCHANGED used
    BY DEF StartOperation
  <1> HIDE DEF r
  <1> QED BY <1>1, <1>2, PutOK DEF InstancesOK
LEMMA RemoveBindingOK ==
  ASSUME InstancesOK, NEW i \in Guids, NEW b \in Bindings \cup Keys, RemoveBinding(i, b)
  PROVE  InstancesOK'
  <1>1. CASE Gone(i)
    BY <1>1 DEF RemoveBinding, InstancesOK
  <1>2. CASE ~Gone(i)
    <2> DEFINE r == [instances[i] EXCEPT !.bound = @ \ {b}]
    <2>1. r \in Instance
      <3>1. instances[i] \in Instance
        BY <1>2 DEF InstancesOK, Gone
      <3> QED BY <3>1, Unbinding
    <2>2. Put(i, r) /\ UNCHANGED used
      BY <1>2 DEF RemoveBinding
    <2> HIDE DEF r
    <2> QED BY <1>2, <2>1, <2>2, PutOK DEF InstancesOK, Gone
  <1> QED BY <1>1, <1>2

\* TypeCF: users and operations in progress keep the types.
LEMMA TypeCF == CFTypeOK /\ CFNext => CFTypeOK'
  <1> SUFFICES ASSUME CFTypeOK, CFNext PROVE InstancesOK' /\ UNCHANGED <<accessVars, faults>>
    BY DEF CFTypeOK, InstancesOK, accessVars
  <1>0. InstancesOK
    BY DEF CFTypeOK, InstancesOK
  <1> DEFINE Goal == InstancesOK' /\ UNCHANGED <<accessVars, faults>>
  <1>1. ASSUME NEW i \in Guids, OperationEnds(i) PROVE Goal
    <2>1. i \in DOMAIN instances /\ instances[i] \in Instance
      BY <1>0, <1>1 DEF OperationEnds, InProgress, Gone, InstancesOK
    <2>2. i \in used /\ instances[i].plan \in Plans /\ instances[i].to \in Plans
      BY <1>0, <2>1 DEF InstancesOK, Instance
    <2>3. ASSUME NEW p \in Plans, UNCHANGED used,
                 Put(i, [instances[i] EXCEPT !.state = "succeeded", !.plan = p, !.to = p])
          PROVE  InstancesOK'
      <3> DEFINE r == [instances[i] EXCEPT !.state = "succeeded", !.plan = p, !.to = p]
      <3>1. r \in Instance
        BY <2>1, Succeeding
      <3>2. Put(i, r)
        BY <2>3
      <3> HIDE DEF r
      <3> QED BY <1>0, <2>2, <2>3, <3>1, <3>2, PutOK
    <2>4. ASSUME Remove(i) PROVE InstancesOK'
      BY <1>0, <2>4 DEF Remove, InstancesOK
    <2>5. ASSUME UNCHANGED used, Put(i, [instances[i] EXCEPT !.state = "failed"])
          PROVE  InstancesOK'
      <3> DEFINE r == [instances[i] EXCEPT !.state = "failed"]
      <3>1. r \in Instance
        BY <2>1, Failing
      <3>2. Put(i, r)
        BY <2>5
      <3> HIDE DEF r
      <3> QED BY <1>0, <2>2, <2>5, <3>1, <3>2, PutOK
    <2> QED BY <1>1, <2>2, <2>3, <2>4, <2>5 DEF OperationEnds
  <1>2. ASSUME NEW i \in Guids, DeleteInstance(i) PROVE Goal
    <2>1. i \in DOMAIN instances /\ instances[i].plan \in Plans
      BY <1>0, <1>2 DEF DeleteInstance, MayDelete, Gone, InstancesOK, Instance
    <2> QED BY <1>0, <1>2, <2>1, StartOK DEF DeleteInstance
  <1>3. ASSUME NEW i \in Guids, NEW p \in Plans, CreateInstance(i, p) PROVE Goal
    <2> DEFINE r == [plan |-> p, to |-> p, type |-> "create or update",
                     state |-> "in progress", bound |-> {}]
    <2>1. r \in Instance
      BY DEF Instance
    <2>2. Put(i, r) /\ used' = used \cup {i} /\ UNCHANGED <<accessVars, faults>>
      BY <1>3 DEF CreateInstance
    <2> HIDE DEF r
    <2> QED BY <1>0, <2>1, <2>2 DEF InstancesOK, Put
  <1>4. ASSUME NEW i \in Guids, NEW p \in Plans, UpdateInstance(i, p) PROVE Goal
    BY <1>0, <1>4, StartOK DEF UpdateInstance, Gone
  <1>5. ASSUME NEW i \in Guids, NEW b \in Bindings \cup Keys, Bind(i, b) PROVE Goal
    <2> DEFINE r == [instances[i] EXCEPT !.bound = @ \cup {b}]
    <2>1. i \in DOMAIN instances /\ instances[i] \in Instance
      BY <1>0, <1>5 DEF InstancesOK, Bind, Gone
    <2>3. r \in Instance
      BY <2>1, Binding
    <2>2. Put(i, r) /\ UNCHANGED <<accessVars, used, faults>>
      BY <1>5 DEF Bind
    <2> HIDE DEF r
    <2> QED BY <1>0, <2>1, <2>2, <2>3, PutOK DEF InstancesOK
  <1>6. ASSUME NEW i \in Guids, NEW b \in Bindings \cup Keys, Unbind(i, b) PROVE Goal
    BY <1>0, <1>6, RemoveBindingOK DEF Unbind
  <1> HIDE DEF Goal
  <1>7. Goal
    BY <1>1, <1>2, <1>3, <1>4, <1>5, <1>6 DEF CFNext
  <1> QED BY <1>7 DEF Goal
-----------------------------------------------------------------------------
\* What TypeOK says of the errand.
Handling == {"bindings", "key list", "keys", "check", "delete", "wait"}
ErrandOK ==
  /\ errand \in Errand
  /\ errand.at \in Handling => \E i \in Guids : errand.current = {i}
  /\ errand.at \in {"key list", "check", "delete", "wait"} => errand.marks = {}

\* The ends of an errand, and its turn from one place to another.
LEMMA EndOK == ASSUME errand \in Errand, NEW a \in {"ok", "failed"}, End(a) PROVE ErrandOK'
  BY DEF End, NoErrand, Errand, ErrandKinds, ErrandOK, Handling
LEMMA GotoOK ==
  ASSUME ErrandOK, NEW a \in {"check", "delete", "wait", "find", "deregister"}, Goto(a),
         a \in Handling => errand.at \in Handling /\ errand.marks = {}
  PROVE  ErrandOK'
  BY DEF Goto, Errand, ErrandOK, Handling
LEMMA ThisOK ==
  ASSUME ErrandOK, errand.at \in Handling
  PROVE  errand.current = {This} /\ This \in Guids
  <1>1. PICK i \in Guids : errand.current = {i}
    BY DEF ErrandOK
  <1>2. This = i
    BY <1>1, ChooseOnly DEF This
  <1> QED BY <1>1, <1>2

\* TypePurger: a step of a deletion or a purge keeps the types.
LEMMA TypePurger == CFTypeOK /\ ErrandOK /\ PurgerNext => CFTypeOK' /\ ErrandOK'
  <1> SUFFICES ASSUME CFTypeOK, ErrandOK, PurgerNext PROVE CFTypeOK' /\ ErrandOK'
    OBVIOUS
  <1> USE CloudFoundryAssumption
  <1>0. errand \in Errand /\ InstancesOK /\ errand.kind \in ErrandKinds
    BY DEF ErrandOK, CFTypeOK, InstancesOK, Errand
  <1>a. ASSUME UNCHANGED cfVars PROVE CFTypeOK'
    BY <1>a DEF cfVars, accessVars, instanceVars, CFTypeOK
  <1>b. ASSUME InstancesOK', UNCHANGED <<accessVars, faults>> PROVE CFTypeOK'
    BY <1>b DEF accessVars, CFTypeOK, InstancesOK
  <1>c. getPlansForServiceID \subseteq Plans
    BY DEF getPlansForServiceID
  <1>1. CASE CallFails
    <2>1. CFTypeOK'
      BY <1>1 DEF CallFails, CFTypeOK, accessVars, instanceVars
    <2>2. ErrandOK'
      BY <1>0, <1>1, EndOK DEF CallFails
    <2> QED BY <2>1, <2>2
  <1>2. CASE GetPlansToDisable
    BY <1>0, <1>a, <1>c, <1>2 DEF GetPlansToDisable, Errand, ErrandOK, Handling
  <1>3. ASSUME NEW p \in Plans, DisableServiceAccessForAllPlans(p) PROVE CFTypeOK' /\ ErrandOK'
    <2>1. CFTypeOK'
      BY <1>3 DEF DisableServiceAccessForAllPlans, CFTypeOK, instanceVars
    <2>2. ErrandOK'
      BY <1>0, <1>3 DEF DisableServiceAccessForAllPlans, Errand, ErrandOK, Handling
    <2> QED BY <2>1, <2>2
  <1>4. CASE ListPlans
    <2>1. Listed({}) \in {"find", "ok", "instance", "failed"}
      BY DEF Listed
    <2>2. ErrandOK'
      BY <1>0, <1>c, <1>4, <2>1 DEF ListPlans, Errand, ErrandOK, Handling
    <2> QED BY <1>a, <1>4, <2>2 DEF ListPlans
  <1>5. ASSUME NEW p \in Plans, GetServiceInstances(p) PROVE CFTypeOK' /\ ErrandOK'
    <2> DEFINE found == errand.found \cup {i \in DOMAIN instances : instances[i].plan = p}
    <2>1. found \subseteq Guids
      BY <1>0 DEF InstancesOK, Errand
    <2>2. Listed(found) \in {"find", "ok", "instance", "failed"}
      BY DEF Listed
    <2>3. errand' = [errand EXCEPT !.plans = @ \ {p}, !.found = found,
                       !.at = IF errand.plans = {p} THEN Listed(found) ELSE "page"]
      BY <1>5 DEF GetServiceInstances
    <2>4. UNCHANGED cfVars
      BY <1>5 DEF GetServiceInstances
    <2> HIDE DEF found
    <2>5. ErrandOK'
      BY <1>0, <2>1, <2>2, <2>3 DEF Errand, ErrandOK, Handling
    <2> QED BY <1>a, <2>4, <2>5
  <1>6. ASSUME NEW i \in Guids, GetBindingsForInstance(i) PROVE CFTypeOK' /\ ErrandOK'
    <2>1. BoundTo(i, Bindings) \subseteq Bindings
      BY DEF BoundTo
    <2> QED BY <1>0, <1>a, <1>6, <2>1 DEF GetBindingsForInstance, Errand, ErrandOK, Handling
  <1>7. ASSUME NEW b \in Bindings, deleteBindings(b) PROVE CFTypeOK' /\ ErrandOK'
    <2>1. This \in Guids /\ errand.current = {This}
      BY <1>7, ThisOK DEF deleteBindings, Handling
    <2>2. CFTypeOK'
      BY <1>0, <1>b, <1>7, <2>1, RemoveBindingOK DEF deleteBindings
    <2>3. ErrandOK'
      BY <1>0, <1>7, <2>1 DEF deleteBindings, Errand, ErrandOK, Handling
    <2> QED BY <2>2, <2>3
  <1>8. CASE GetServiceKeysForInstance
    <2>1. This \in Guids /\ errand.current = {This}
      BY <1>8, ThisOK DEF GetServiceKeysForInstance, Handling
    <2>2. BoundTo(This, Keys) \subseteq Keys
      BY DEF BoundTo
    <2> QED BY <1>0, <1>a, <1>8, <2>1, <2>2 DEF GetServiceKeysForInstance, Errand, ErrandOK, Handling
  <1>9. ASSUME NEW k \in Keys, deleteServiceKeys(k) PROVE CFTypeOK' /\ ErrandOK'
    <2>1. This \in Guids /\ errand.current = {This}
      BY <1>9, ThisOK DEF deleteServiceKeys, Handling
    <2>2. CFTypeOK'
      BY <1>0, <1>b, <1>9, <2>1, RemoveBindingOK DEF deleteServiceKeys
    <2>3. ErrandOK'
      BY <1>0, <1>9, <2>1 DEF deleteServiceKeys, Errand, ErrandOK, Handling
    <2> QED BY <2>2, <2>3
  <1>10. CASE deleteInProgress
    <2>1. CFTypeOK'
      BY <1>10 DEF deleteInProgress, CFTypeOK, accessVars, instanceVars
    <2>2. ErrandOK'
      <3>1. errand.at \in Handling /\ errand.marks = {}
        BY <1>10 DEF deleteInProgress, ErrandOK, Handling
      <3>2. Goto("wait") \/ Goto("delete")
        BY <1>10 DEF deleteInProgress
      <3> QED BY <3>1, <3>2, GotoOK
    <2> QED BY <2>1, <2>2
  <1>11. CASE deleteServiceInstance
    <2>1. errand.at \in Handling /\ errand.marks = {}
      BY <1>11 DEF deleteServiceInstance, ErrandOK, Handling
    <2>2. ErrandOK'
      <3>1. Goto("wait") \/ End("failed")
        BY <1>11 DEF deleteServiceInstance
      <3> QED BY <1>0, <2>1, <3>1, GotoOK, EndOK
    <2>3. InstancesOK'
      <3>1. CASE UNCHANGED instanceVars
        BY <1>0, <3>1 DEF instanceVars, InstancesOK
      <3>2. CASE MayDelete(This) /\ StartOperation(This, "delete", instances[This].plan)
        <4>1. This \in DOMAIN instances /\ instances[This].plan \in Plans
          BY <1>0, <3>2 DEF MayDelete, Gone, InstancesOK, Instance
        <4> QED BY <1>0, <3>2, <4>1, StartOK
      <3> QED BY <1>11, <3>1, <3>2 DEF deleteServiceInstance
    <2>4. UNCHANGED <<accessVars, faults>>
      BY <1>11 DEF deleteServiceInstance
    <2> QED BY <1>b, <2>2, <2>3, <2>4
  <1>12. CASE pollInstanceDeleteStatus
    <2>1. CASE Deleted
      BY <1>0, <1>a, <1>12, <2>1 DEF pollInstanceDeleteStatus, Deleted, Errand, ErrandOK, Handling
    <2>2. CASE End("failed")
      BY <1>0, <1>a, <1>12, <2>2, EndOK DEF pollInstanceDeleteStatus
    <2> QED BY <1>12, <2>1, <2>2 DEF pollInstanceDeleteStatus, UnexpectedOperation, DeleteFailed
  <1>13. CASE GetServiceOfferingGUID
    <2>1. ErrandOK'
      <3>1. Goto("deregister") \/ End("ok")
        BY <1>13 DEF GetServiceOfferingGUID
      <3> QED BY <1>0, <3>1, GotoOK, EndOK DEF Handling
    <2> QED BY <1>a, <1>13, <2>1 DEF GetServiceOfferingGUID
  <1>14. CASE DeregisterBroker
    <2>1. CFTypeOK'
      BY <1>14 DEF DeregisterBroker, CFTypeOK, accessVars, instanceVars
    <2>2. ErrandOK'
      BY <1>0, <1>14, EndOK DEF DeregisterBroker
    <2> QED BY <2>1, <2>2
  <1> QED BY <1>1, <1>2, <1>3, <1>4, <1>5, <1>6, <1>7, <1>8, <1>9, <1>10, <1>11, <1>12, <1>13, <1>14
          DEF PurgerNext
-----------------------------------------------------------------------------
\* What TypeOK says of the registration, and the plan that is being done.
Midway == {"visibilities", "hide", "show"}
RegistrationOK == registration \in Registration

\* A plan has the access its configuration asks for.
Done(p) == /\ p \in public <=> registration.config[p] = "enable"
           /\ visibilities[p] = {registration.config[p]} \cap Orgs

\* The plan p that is being done: its access is set, its visibilities are
\* the ones still to delete, then none; all plans before it are done.
DoingPlan(p) ==
  /\ registration.plan = {p} /\ p \notin registration.plans
  /\ p \in public <=> registration.config[p] = "enable"
  /\ registration.at = "hide" => visibilities[p] = registration.hide
  /\ registration.at = "show" => visibilities[p] = {} /\ registration.config[p] \in Orgs
  /\ \A q \in Plans \ registration.plans : q # p => Done(q)

RegistrationInv ==
  /\ registration.at \in {"brokers", "register"} => registration.plans = Plans
  /\ registration.at \in Midway => \E p \in Plans : DoingPlan(p)
  /\ registration.at \in {"plan", "ok"} => \A q \in Plans \ registration.plans : Done(q)
  /\ registration.at = "ok" => registration.plans = {}
  /\ registration.at \in {"plan", "ok"} \cup Midway => registered

LEMMA ThisPlanIs == ASSUME NEW p, DoingPlan(p) PROVE ThisPlan = p
  BY ChooseOnly DEF DoingPlan, ThisPlan

\* A registration step keeps the types.
LEMMA TypeRegistrar ==
  CFTypeOK /\ RegistrationOK /\ RegistrationInv /\ RegistrarNext => CFTypeOK' /\ RegistrationOK'
  <1> SUFFICES ASSUME CFTypeOK, RegistrationOK, RegistrationInv, RegistrarNext
               PROVE  CFTypeOK' /\ RegistrationOK'
    OBVIOUS
  <1> USE CloudFoundryAssumption DEF RegistrationOK
  <1>a. ASSUME UNCHANGED cfVars PROVE CFTypeOK'
    BY <1>a DEF cfVars, accessVars, instanceVars, CFTypeOK
  <1>b. registration.at \in Midway =>
          ThisPlan \in Plans /\ AccessSet \in {"plan", "show", "ok"}
    BY ThisPlanIs DEF RegistrationInv, AccessSet
  <1>1. CASE RegistrationFails
    BY <1>1 DEF RegistrationFails, CFTypeOK, accessVars, instanceVars, NoRegistration,
                Registration, CFServiceAccess
  <1>2. CASE ServiceBrokers
    BY <1>a, <1>2 DEF ServiceBrokers, CFTypeOK, Registration
  <1>3. CASE createOrUpdateBroker
    BY <1>3 DEF createOrUpdateBroker, CFTypeOK, instanceVars, Step, Registration
  <1>4. ASSUME NEW p \in Plans, setAccessForPlan(p) PROVE CFTypeOK' /\ RegistrationOK'
    <2>1. CFTypeOK'
      BY <1>4 DEF setAccessForPlan, CFTypeOK, instanceVars
    <2>2. RegistrationOK'
      BY <1>4 DEF setAccessForPlan, Registration
    <2> QED BY <2>1, <2>2
  <1>5. CASE getServicePlanVisibilities
    <2>1. visibilities[ThisPlan] \subseteq Orgs
      BY <1>b, <1>5 DEF getServicePlanVisibilities, CFTypeOK, Midway
    <2>2. RegistrationOK'
      BY <1>b, <1>5, <2>1 DEF getServicePlanVisibilities, Registration, Midway
    <2> QED BY <1>a, <1>5, <2>2 DEF getServicePlanVisibilities
  <1>6. ASSUME NEW o \in Orgs, deleteServicePlanVisibilities(o) PROVE CFTypeOK' /\ RegistrationOK'
    <2>1. CFTypeOK'
      BY <1>b, <1>6 DEF deleteServicePlanVisibilities, CFTypeOK, instanceVars, Midway
    <2>2. RegistrationOK'
      BY <1>b, <1>6 DEF deleteServicePlanVisibilities, Registration, Midway
    <2> QED BY <2>1, <2>2
  <1>7. CASE CreateServicePlanVisibility
    <2>1. ThisPlan \in Plans /\ registration.config[ThisPlan] \in Orgs
      BY <1>7, ThisPlanIs DEF CreateServicePlanVisibility, RegistrationInv, Midway, DoingPlan
    <2>2. CFTypeOK'
      BY <1>7, <2>1 DEF CreateServicePlanVisibility, CFTypeOK, instanceVars
    <2>3. RegistrationOK'
      BY <1>7 DEF CreateServicePlanVisibility, Step, Registration
    <2> QED BY <2>2, <2>3
  <1> QED BY <1>1, <1>2, <1>3, <1>4, <1>5, <1>6, <1>7 DEF RegistrarNext

\* A registration step leaves the plans it has done as configured.
LEMMA RegistrarKeeps ==
  CFTypeOK /\ RegistrationOK /\ RegistrationInv /\ RegistrarNext => RegistrationInv'
  <1> SUFFICES ASSUME CFTypeOK, RegistrationOK, RegistrationInv, RegistrarNext
               PROVE  RegistrationInv'
    OBVIOUS
  <1>0. registration \in Registration /\ public \subseteq Plans
        /\ visibilities \in [Plans -> SUBSET Orgs]
    BY DEF RegistrationOK, CFTypeOK
  <1>1. CASE RegistrationFails
    BY <1>1 DEF RegistrationFails, NoRegistration, RegistrationInv, Midway
  <1>2. CASE ServiceBrokers
    BY <1>0, <1>2 DEF ServiceBrokers, RegistrationInv, Midway, Registration
  <1>3. CASE createOrUpdateBroker
    BY <1>0, <1>3 DEF createOrUpdateBroker, Step, RegistrationInv, Midway, Registration, Done
  <1>4. ASSUME NEW p \in Plans, setAccessForPlan(p) PROVE RegistrationInv'
    <2>1. /\ registration.at = "plan" /\ p \in registration.plans
          /\ registered /\ \A q \in Plans \ registration.plans : Done(q)
      BY <1>4 DEF setAccessForPlan, RegistrationInv
    <2>2. /\ registration'.at = "visibilities" /\ registration'.plan = {p}
          /\ registration'.plans = registration.plans \ {p}
          /\ registration'.config = registration.config
          /\ registered' = registered /\ visibilities' = visibilities
      BY <1>0, <1>4 DEF setAccessForPlan, Registration
    <2>3. \A q \in Plans : q # p => (q \in public' <=> q \in public)
      BY <1>4 DEF setAccessForPlan
    <2>4. p \in public' <=> registration.config[p] = "enable"
      BY <1>4 DEF setAccessForPlan
    <2>5. \A q \in Plans \ registration'.plans : q # p => Done(q)'
      BY <2>1, <2>2, <2>3 DEF Done
    <2>6. DoingPlan(p)'
      BY <2>2, <2>4, <2>5 DEF DoingPlan
    <2> QED BY <2>1, <2>2, <2>6 DEF RegistrationInv, Midway
  <1>5. CASE getServicePlanVisibilities
    <2>1. PICK p \in Plans : DoingPlan(p)
      BY <1>5 DEF getServicePlanVisibilities, RegistrationInv, Midway
    <2>2. ThisPlan = p
      BY <2>1, ThisPlanIs
    <2>3. /\ registration'.plan = {p} /\ registration'.plans = registration.plans
          /\ registration'.config = registration.config
          /\ registration'.hide = visibilities[p]
          /\ registration'.at = IF visibilities[p] = {} THEN AccessSet ELSE "hide"
          /\ UNCHANGED <<registered, public, visibilities>>
      BY <1>0, <1>5, <2>1, <2>2 DEF getServicePlanVisibilities, Registration, DoingPlan,
                                    cfVars, accessVars
    <2>4. registered
      BY <1>5 DEF getServicePlanVisibilities, RegistrationInv, Midway
    <2>5. \A q \in Plans \ registration'.plans : q # p => Done(q)'
      BY <2>1, <2>3 DEF DoingPlan, Done
    <2>6. CASE visibilities[p] # {}
      <3>1. DoingPlan(p)'
        BY <2>1, <2>3, <2>5, <2>6 DEF DoingPlan
      <3> QED BY <2>3, <2>4, <2>6, <3>1 DEF RegistrationInv, Midway
    <2>7. CASE visibilities[p] = {} /\ registration.config[p] \in Orgs
      <3>1. registration'.at = "show"
        BY <2>2, <2>3, <2>7 DEF AccessSet
      <3>2. DoingPlan(p)'
        BY <2>1, <2>3, <2>5, <2>7, <3>1 DEF DoingPlan
      <3> QED BY <2>3, <2>4, <3>1, <3>2 DEF RegistrationInv, Midway
    <2>8. CASE visibilities[p] = {} /\ registration.config[p] \notin Orgs
      <3>1. Done(p)'
        BY <2>1, <2>3, <2>8 DEF DoingPlan, Done
      <3>2. \/ registration'.at = "plan" 
            \/ registration'.at = "ok" /\ registration.plans = {}
        BY <2>2, <2>3, <2>8 DEF AccessSet
      <3> QED BY <2>3, <2>4, <2>5, <3>1, <3>2 DEF RegistrationInv, Midway
    <2> QED BY <2>6, <2>7, <2>8
  <1>6. ASSUME NEW o \in Orgs, deleteServicePlanVisibilities(o) PROVE RegistrationInv'
    <2>1. PICK p \in Plans : DoingPlan(p)
      BY <1>6 DEF deleteServicePlanVisibilities, RegistrationInv, Midway
    <2>2. ThisPlan = p
      BY <2>1, ThisPlanIs
    <2>3. /\ registration'.plan = {p} /\ registration'.plans = registration.plans
          /\ registration'.config = registration.config
          /\ registration'.hide = registration.hide \ {o}
          /\ registration'.at = IF registration.hide = {o} THEN AccessSet ELSE "hide"
          /\ UNCHANGED <<registered, public>>
          /\ visibilities' = [visibilities EXCEPT ![p] = @ \ {o}]
      BY <1>0, <1>6, <2>1, <2>2 DEF deleteServicePlanVisibilities, Registration, DoingPlan
    <2>4. registered /\ visibilities[p] = registration.hide
      BY <1>6, <2>1 DEF deleteServicePlanVisibilities, RegistrationInv, Midway, DoingPlan
    <2>5. \A q \in Plans \ registration'.plans : q # p => Done(q)'
      BY <1>0, <2>1, <2>3 DEF DoingPlan, Done
    <2>9. visibilities'[p] = registration'.hide
      BY <1>0, <2>3, <2>4
    <2>6. CASE registration.hide # {o}
      <3>1. DoingPlan(p)'
        BY <2>1, <2>3, <2>5, <2>6, <2>9 DEF DoingPlan
      <3> QED BY <2>3, <2>4, <2>6, <3>1 DEF RegistrationInv, Midway
    <2>7. CASE registration.hide = {o} /\ registration.config[p] \in Orgs
      <3>1. registration'.at = "show" /\ visibilities'[p] = {}
        BY <2>2, <2>3, <2>7, <2>9 DEF AccessSet
      <3>2. DoingPlan(p)'
        BY <2>1, <2>3, <2>5, <2>7, <3>1 DEF DoingPlan
      <3> QED BY <2>3, <2>4, <3>1, <3>2 DEF RegistrationInv, Midway
    <2>8. CASE registration.hide = {o} /\ registration.config[p] \notin Orgs
      <3>1. visibilities'[p] = {}
        BY <2>3, <2>8, <2>9
      <3>2. Done(p)'
        BY <2>1, <2>3, <2>8, <3>1 DEF DoingPlan, Done
      <3>3. \/ registration'.at = "plan" 
            \/ registration'.at = "ok" /\ registration.plans = {}
        BY <2>2, <2>3, <2>8 DEF AccessSet
      <3> QED BY <2>3, <2>4, <2>5, <3>2, <3>3 DEF RegistrationInv, Midway
    <2> QED BY <2>6, <2>7, <2>8
  <1>7. CASE CreateServicePlanVisibility
    <2>1. PICK p \in Plans : DoingPlan(p)
      BY <1>7 DEF CreateServicePlanVisibility, RegistrationInv, Midway
    <2>2. ThisPlan = p
      BY <2>1, ThisPlanIs
    <2>3. /\ registration'.plans = registration.plans
          /\ registration'.config = registration.config
          /\ registration'.at = IF registration.plans = {} THEN "ok" ELSE "plan"
          /\ UNCHANGED <<registered, public>>
          /\ visibilities' = [visibilities EXCEPT ![p] = @ \cup {registration.config[p]}]
      BY <1>0, <1>7, <2>2 DEF CreateServicePlanVisibility, Step, Registration
    <2>4. registered /\ visibilities[p] = {} /\ registration.config[p] \in Orgs
      BY <1>7, <2>1 DEF CreateServicePlanVisibility, RegistrationInv, Midway, DoingPlan
    <2>5. \A q \in Plans \ registration'.plans : q # p => Done(q)'
      BY <1>0, <2>1, <2>3 DEF DoingPlan, Done
    <2>6. Done(p)'
      BY <1>0, <2>1, <2>3, <2>4 DEF DoingPlan, Done
    <2> QED BY <2>3, <2>4, <2>5, <2>6 DEF RegistrationInv, Midway
  <1> QED BY <1>1, <1>2, <1>3, <1>4, <1>5, <1>6, <1>7 DEF RegistrarNext
-----------------------------------------------------------------------------
\* One errand at a time.
OneErrand == /\ Running => registration.at = "failed"
             /\ Registering => errand.at = "failed"

\* Without a broker there is no access and no instance, and a purge that
\* reports success leaves no broker.
NothingUnregistered ==
  ~registered => /\ public = {} /\ \A p \in Plans : visibilities[p] = {}
                 /\ DOMAIN instances = {}
PurgeInv == Succeeded("purge") => ~registered

\* The inductive invariant.
IInv == CFTypeOK /\ ErrandOK /\ RegistrationOK /\ runs \in 0..MaxRuns
        /\ RegistrationInv /\ OneErrand /\ NothingUnregistered /\ PurgeInv

LEMMA TypeOfIInv == IInv => TypeOK
  BY DEF IInv, TypeOK, ErrandOK, RegistrationOK, Handling

LEMMA InitIInv == Init => IInv
  <1> SUFFICES ASSUME Init PROVE IInv
    OBVIOUS
  <1> USE CloudFoundryAssumption
  <1>1. TypeOK
    BY TypeInit
  <1>2. ErrandOK /\ RegistrationOK
    BY <1>1 DEF TypeOK, ErrandOK, RegistrationOK, Handling
  <1>3. RegistrationInv
    BY DEF Init, NoRegistration, RegistrationInv, Midway
  <1>4. OneErrand /\ PurgeInv
    BY DEF Init, NoErrand, NoRegistration, OneErrand, PurgeInv, Running, Registering, Succeeded
  <1>5. NothingUnregistered
    BY <1>1 DEF Init, CFInit, Unregistered, GivenBy, NothingUnregistered
  <1> QED BY <1>1, <1>2, <1>3, <1>4, <1>5 DEF IInv, TypeOK

\* An errand's own steps happen only while it runs.
LEMMA PurgerRuns == PurgerNext => Running
  BY DEF PurgerNext, Running, Calls, CallFails, GetPlansToDisable, DisableServiceAccessForAllPlans,
         ListPlans, GetServiceInstances, GetBindingsForInstance, deleteBindings,
         GetServiceKeysForInstance, deleteServiceKeys, deleteInProgress, deleteServiceInstance,
         pollInstanceDeleteStatus, GetServiceOfferingGUID, DeregisterBroker
LEMMA RegistrarRuns == RegistrarNext => Registering
  BY DEF RegistrarNext, Registering, RegistrationFails, ServiceBrokers, createOrUpdateBroker,
         setAccessForPlan, getServicePlanVisibilities, deleteServicePlanVisibilities,
         CreateServicePlanVisibility

\* Users leave the access alone, and without a broker there is no instance to change.
LEMMA UsersLeaveAccess ==
  CFTypeOK /\ NothingUnregistered /\ CFNext => UNCHANGED accessVars /\ NothingUnregistered'
  <1> SUFFICES ASSUME CFTypeOK, NothingUnregistered, CFNext
               PROVE  UNCHANGED accessVars /\ NothingUnregistered'
    OBVIOUS
  <1>1. UNCHANGED accessVars
    BY DEF CFNext, OperationEnds, DeleteInstance, CreateInstance, UpdateInstance, Bind, Unbind
  <1>2. CASE registered
    BY <1>1, <1>2 DEF accessVars, NothingUnregistered
  <1>3. CASE ~registered
    BY <1>3 DEF NothingUnregistered, CFNext, OperationEnds, DeleteInstance, CreateInstance,
                UpdateInstance, Bind, Unbind, InProgress, MayDelete, Gone, Accessible
  <1> QED BY <1>2, <1>3, <1>1

\* A purge succeeds only when it finds no broker or has removed it.
LEMMA PurgerKeeps ==
  IInv /\ PurgerNext => NothingUnregistered' /\ PurgeInv'
  <1> SUFFICES ASSUME IInv, PurgerNext PROVE NothingUnregistered' /\ PurgeInv'
    OBVIOUS
  <1>0. errand \in Errand /\ NothingUnregistered /\ Running /\ visibilities \in [Plans -> SUBSET Orgs]
    BY PurgerRuns DEF IInv, ErrandOK, CFTypeOK
  <1>1. CASE DeregisterBroker
    BY <1>0, <1>1 DEF DeregisterBroker, NothingUnregistered, PurgeInv, Succeeded, End, NoErrand,
                      accessVars, instanceVars
  <1>2. CASE GetServiceOfferingGUID
    BY <1>0, <1>2 DEF GetServiceOfferingGUID, NothingUnregistered, PurgeInv, Succeeded, Goto, Errand,
                      cfVars, accessVars, instanceVars
  <1>3. ASSUME NEW p \in Plans, DisableServiceAccessForAllPlans(p)
        PROVE  NothingUnregistered' /\ PurgeInv'
    BY <1>0, <1>3 DEF DisableServiceAccessForAllPlans, NothingUnregistered, PurgeInv, Succeeded,
                      Errand, instanceVars
  <1>4. ASSUME UNCHANGED accessVars, DOMAIN instances' \subseteq DOMAIN instances
        PROVE  NothingUnregistered'
    BY <1>0, <1>4 DEF accessVars, NothingUnregistered
  <1>5. ASSUME errand'.at # "ok" PROVE PurgeInv'
    BY <1>5 DEF PurgeInv, Succeeded
  <1>6. CASE CallFails \/ GetPlansToDisable \/ GetServiceKeysForInstance \/ deleteInProgress
             \/ pollInstanceDeleteStatus \/ \E i \in Guids : GetBindingsForInstance(i)
    <2>1. UNCHANGED <<accessVars, instances>>
      BY <1>6 DEF CallFails, GetPlansToDisable, GetServiceKeysForInstance, deleteInProgress,
                  pollInstanceDeleteStatus, GetBindingsForInstance, cfVars, instanceVars
    <2>2. errand'.at # "ok"
      BY <1>0, <1>6 DEF CallFails, GetPlansToDisable, GetServiceKeysForInstance, deleteInProgress,
                  pollInstanceDeleteStatus, GetBindingsForInstance, Goto, End, NoErrand, Errand,
                  Deleted, UnexpectedOperation, DeleteFailed
    <2> QED BY <1>4, <1>5, <2>1, <2>2
  <1>7. CASE ListPlans \/ \E p \in Plans : GetServiceInstances(p)
    <2>1. UNCHANGED <<accessVars, instances>>
      BY <1>7 DEF ListPlans, GetServiceInstances, cfVars, instanceVars
    <2>2. errand'.kind = "purge" => errand'.at # "ok"
      <3>1. \A f : errand.kind = "purge" => Listed(f) # "ok"
        BY DEF Listed
      <3>2. CASE ListPlans
        BY <1>0, <3>1, <3>2 DEF ListPlans, Errand
      <3>3. ASSUME NEW p \in Plans, GetServiceInstances(p)
            PROVE  errand'.kind = "purge" => errand'.at # "ok"
        <4> DEFINE found == errand.found \cup {i \in DOMAIN instances : instances[i].plan = p}
        <4>1. /\ errand'.kind = errand.kind
              /\ errand'.at = IF errand.plans = {p} THEN Listed(found) ELSE "page"
          BY <1>0, <3>3 DEF GetServiceInstances, Errand
        <4> HIDE DEF found
        <4> QED BY <3>1, <4>1
      <3> QED BY <1>7, <3>2, <3>3
    <2> QED BY <1>4, <2>1, <2>2 DEF PurgeInv, Succeeded
  <1>8. ASSUME NEW b, deleteBindings(b) \/ deleteServiceKeys(b)
        PROVE  NothingUnregistered' /\ PurgeInv'
    <2>1. UNCHANGED accessVars /\ RemoveBinding(This, b)
      BY <1>8 DEF deleteBindings, deleteServiceKeys
    <2>2. DOMAIN instances' = DOMAIN instances
      BY <2>1 DEF RemoveBinding, Put, Gone
    <2>3. errand'.at # "ok"
      BY <1>0, <1>8 DEF deleteBindings, deleteServiceKeys, Errand
    <2> QED BY <1>4, <1>5, <2>1, <2>2, <2>3
  <1>9. CASE deleteServiceInstance
    <2>1. UNCHANGED accessVars /\ errand'.at # "ok"
      BY <1>0, <1>9 DEF deleteServiceInstance, Goto, End, NoErrand, Errand
    <2>2. DOMAIN instances' = DOMAIN instances
      BY <1>9 DEF deleteServiceInstance, StartOperation, Put, MayDelete, Gone, instanceVars
    <2> QED BY <1>4, <1>5, <2>1, <2>2
  <1> QED BY <1>1, <1>2, <1>3, <1>6, <1>7, <1>8, <1>9 DEF PurgerNext

\* Every step of a registration has a broker, or leaves the access to plans alone.
LEMMA RegistrarLeavesInstances ==
  IInv /\ RegistrarNext => NothingUnregistered'
  <1> SUFFICES ASSUME IInv, RegistrarNext PROVE NothingUnregistered'
    OBVIOUS
  <1>0. NothingUnregistered /\ RegistrationInv
    BY DEF IInv
  <1>1. registered' \/ UNCHANGED <<accessVars, instanceVars>>
    BY <1>0 DEF RegistrarNext, RegistrationFails, ServiceBrokers, createOrUpdateBroker,
                setAccessForPlan, getServicePlanVisibilities, deleteServicePlanVisibilities,
                CreateServicePlanVisibility, RegistrationInv, Midway, cfVars
  <1> QED BY <1>0, <1>1 DEF NothingUnregistered, accessVars, instanceVars

\* Every step keeps the inductive invariant.
LEMMA NextIInv == IInv /\ [Next]_platformVars => IInv'
  <1> SUFFICES ASSUME IInv, [Next]_platformVars PROVE IInv'
    OBVIOUS
  <1> USE CloudFoundryAssumption, PlatformAssumption
  <1>0. /\ CFTypeOK /\ ErrandOK /\ RegistrationOK /\ runs \in 0..MaxRuns
        /\ RegistrationInv /\ OneErrand /\ NothingUnregistered /\ PurgeInv
    BY DEF IInv
  <1>a. ASSUME UNCHANGED cfVars PROVE CFTypeOK' /\ NothingUnregistered'
    BY <1>0, <1>a DEF cfVars, accessVars, instanceVars, CFTypeOK, NothingUnregistered
  <1>b. ASSUME registration.at = "failed" \/ UNCHANGED accessVars, UNCHANGED registration
        PROVE  RegistrationInv' /\ RegistrationOK'
    BY <1>0, <1>b DEF RegistrationInv, RegistrationOK, Midway, DoingPlan, Done, accessVars
  <1>c. ASSUME UNCHANGED errand PROVE ErrandOK'
    BY <1>0, <1>c DEF ErrandOK, Handling
  <1>d. ASSUME runs < MaxRuns /\ runs' = runs + 1 PROVE runs' \in 0..MaxRuns
    BY <1>0, <1>d
  <1>1. ASSUME NEW kind \in ErrandKinds, StartErrand(kind) PROVE IInv'
    <2>1. ErrandOK' /\ PurgeInv'
      <3>1. DOMAIN instances \subseteq Guids
        BY <1>0 DEF CFTypeOK
      <3>2. errand' \in Errand /\ errand'.at \in {"plans", "list", "find"}
        BY <1>1, <3>1 DEF StartErrand, Start, Errand, ErrandKinds
      <3> QED BY <3>2 DEF ErrandOK, Handling, PurgeInv, Succeeded
    <2>2. RegistrationOK' /\ RegistrationInv' /\ OneErrand'
      BY <1>1 DEF StartErrand, NoRegistration, RegistrationOK, Registration, CFServiceAccess,
                  RegistrationInv, Midway, OneErrand, Registering
    <2>3. CFTypeOK' /\ NothingUnregistered' /\ runs' \in 0..MaxRuns
      BY <1>1, <1>a, <1>d DEF StartErrand, Start
    <2> QED BY <2>1, <2>2, <2>3 DEF IInv
  <1>2. ASSUME NEW config \in Configs, StartRegistration(config) PROVE IInv'
    <2>1. ErrandOK' /\ PurgeInv' /\ OneErrand'
      BY <1>2 DEF StartRegistration, NoErrand, Errand, ErrandKinds, ErrandOK, Handling, PurgeInv,
                  Succeeded, OneErrand, Running
    <2>2. RegistrationOK' /\ RegistrationInv'
      BY <1>2 DEF StartRegistration, Run, RegistrationOK, Registration, RegistrationInv, Midway
    <2>3. CFTypeOK' /\ NothingUnregistered' /\ runs' \in 0..MaxRuns
      BY <1>2, <1>a, <1>d DEF StartRegistration, Run
    <2> QED BY <2>1, <2>2, <2>3 DEF IInv
  <1>3. CASE CFNext /\ UNCHANGED <<errand, registration, runs>>
    <2>1. CFTypeOK' /\ NothingUnregistered' /\ UNCHANGED accessVars
      BY <1>0, <1>3, TypeCF, UsersLeaveAccess
    <2>2. RegistrationInv' /\ RegistrationOK' /\ ErrandOK'
      BY <1>3, <1>b, <1>c, <2>1
    <2>3. OneErrand' /\ PurgeInv'
      BY <1>0, <1>3, <2>1 DEF OneErrand, Running, Registering, PurgeInv, Succeeded, accessVars
    <2>4. runs' \in 0..MaxRuns
      BY <1>0, <1>3
    <2> QED BY <2>1, <2>2, <2>3, <2>4 DEF IInv
  <1>4. CASE PurgerNext /\ UNCHANGED <<registration, runs>>
    <2>1. CFTypeOK' /\ ErrandOK' /\ NothingUnregistered' /\ PurgeInv'
      BY <1>0, <1>4, TypePurger, PurgerKeeps
    <2>2. registration.at = "failed"
      BY <1>0, <1>4, PurgerRuns DEF OneErrand
    <2>3. RegistrationInv' /\ RegistrationOK'
      BY <1>4, <1>b, <2>2
    <2>4. OneErrand' /\ runs' \in 0..MaxRuns
      BY <1>0, <1>4, <2>2 DEF OneErrand, Registering
    <2> QED BY <2>1, <2>3, <2>4 DEF IInv
  <1>5. CASE RegistrarNext /\ UNCHANGED <<errand, runs>>
    <2>1. CFTypeOK' /\ RegistrationOK' /\ RegistrationInv' /\ NothingUnregistered'
      BY <1>0, <1>5, TypeRegistrar, RegistrarKeeps, RegistrarLeavesInstances
    <2>2. errand.at = "failed"
      BY <1>0, <1>5, RegistrarRuns DEF OneErrand
    <2>3. ErrandOK'
      BY <1>5, <1>c
    <2>4. OneErrand' /\ PurgeInv' /\ runs' \in 0..MaxRuns
      BY <1>0, <1>5, <2>2 DEF OneErrand, Running, PurgeInv, Succeeded
    <2> QED BY <2>1, <2>3, <2>4 DEF IInv
  <1>6. CASE UNCHANGED platformVars
    <2>1. CFTypeOK' /\ NothingUnregistered' /\ ErrandOK' /\ RegistrationOK' /\ RegistrationInv'
      BY <1>6, <1>a, <1>b, <1>c DEF platformVars, cfVars
    <2>2. OneErrand' /\ PurgeInv' /\ runs' \in 0..MaxRuns
      BY <1>0, <1>6 DEF platformVars, cfVars, accessVars, OneErrand, Running, Registering, PurgeInv,
                        Succeeded
    <2> QED BY <2>1, <2>2 DEF IInv
  <1> QED BY <1>1, <1>2, <1>3, <1>4, <1>5, <1>6 DEF Next

THEOREM IInvHolds == Spec => []IInv
  BY InitIInv, NextIInv, PTL DEF Spec

\* Every variable stays in its domain, and an errand handles one instance at a
\* time, with its bindings and keys worked through before the delete
\* (deleter.go:88).
THEOREM TypeCorrect == Spec => []TypeOK
  BY IInvHolds, TypeOfIInv, PTL

\* A registration that reports success leaves every plan with the access its
\* configuration asks for, for any plans, organizations and configurations and
\* wherever earlier runs ended (registrar.go:31).
THEOREM RegisteredIsConfigured == Spec => []RegisteredMeansConfigured
  <1>1. IInv => RegisteredMeansConfigured
    <2> SUFFICES ASSUME IInv, registration.at = "ok" PROVE GivenBy(registration.config)
      BY DEF RegisteredMeansConfigured
    <2>1. registered = TRUE /\ \A p \in Plans : Done(p)
      BY DEF IInv, RegistrationInv, CFTypeOK
    <2>2. public \subseteq Plans /\ visibilities \in [Plans -> SUBSET Orgs]
      BY DEF IInv, CFTypeOK
    <2>3. public = {p \in Plans : registration.config[p] = "enable"}
      BY <2>1, <2>2 DEF Done
    <2>4. visibilities = [p \in Plans |-> {registration.config[p]} \cap Orgs]
      BY <2>1, <2>2 DEF Done
    <2> QED BY <2>1, <2>3, <2>4 DEF GivenBy
  <1> QED BY <1>1, IInvHolds, PTL

\* A purge that reports success leaves no broker, no access and no instance,
\* whatever users did while it ran (purger.go:57).
THEOREM PurgedIsGone == Spec => []PurgedMeansGone
  <1>1. IInv => PurgedMeansGone
    BY DEF IInv, PurgeInv, NothingUnregistered, PurgedMeansGone
  <1> QED BY <1>1, IInvHolds, PTL

\* An errand turns to the next instance, or to the final count, only from a poll that finds the
\* one before gone (deleter.go:102).
THEOREM NextWhenGone == Spec => MovesOnWhenGone
  <1>1. ASSUME IInv, Next, errand.at = "wait", errand'.at \in {"instance", "list"} PROVE Gone(This)
    <2>1. errand \in Errand /\ Running /\ errand' # errand
      BY <1>1 DEF IInv, ErrandOK, Running
    <2>2. CASE PurgerNext
      BY <1>1, <2>1, <2>2 DEF PurgerNext, Calls, CallFails, GetPlansToDisable,
           DisableServiceAccessForAllPlans, ListPlans, GetServiceInstances, GetBindingsForInstance,
           deleteBindings, GetServiceKeysForInstance, deleteServiceKeys, deleteInProgress,
           deleteServiceInstance, pollInstanceDeleteStatus, GetServiceOfferingGUID, DeregisterBroker,
           End, NoErrand, Deleted, UnexpectedOperation, DeleteFailed
    <2> QED BY <1>1, <2>1, <2>2 DEF Next, StartErrand, Start, StartRegistration
  <1>2. IInv /\ [Next]_platformVars =>
          [errand.at = "wait" /\ errand'.at \in {"instance", "list"} => Gone(This)]_platformVars
    BY <1>1
  <1> QED BY <1>2, IInvHolds, PTL DEF Spec, MovesOnWhenGone

\* No organization gets access to a plan that the configuration does not give it, not even between
\* two calls, for any earlier configurations and failed runs (registrar.go:41).
THEOREM AccessIsConfigured == Spec => AccessOnlyAsConfigured
  <1> DEFINE Configured == \A p \in Plans, o \in Orgs :
               Accessible(p, o)' /\ ~Accessible(p, o) => registration.config[p] \in {"enable", o}
  <1>1. ASSUME IInv, Next PROVE Configured
    <2>0. /\ CFTypeOK /\ RegistrationInv /\ NothingUnregistered /\ registration \in Registration
          /\ visibilities \in [Plans -> SUBSET Orgs] /\ public \subseteq Plans
      BY <1>1 DEF IInv, CFTypeOK, RegistrationOK
    <2>1. ASSUME UNCHANGED accessVars PROVE Configured
      BY <2>1 DEF accessVars, Accessible
    <2>2. CASE (\E kind \in ErrandKinds : StartErrand(kind))
               \/ (\E config \in Configs : StartRegistration(config)) \/ CFNext
      BY <1>1, <2>0, <2>1, <2>2, UsersLeaveAccess
         DEF StartErrand, Start, StartRegistration, Run, cfVars
    <2>3. CASE PurgerNext
      <3>1. ASSUME NEW p \in Plans, DisableServiceAccessForAllPlans(p) PROVE Configured
        BY <3>1 DEF DisableServiceAccessForAllPlans, Accessible
      <3>2. CASE DeregisterBroker
        BY <2>1, <3>2 DEF DeregisterBroker, Accessible
      <3>3. CASE CallFails \/ GetPlansToDisable \/ ListPlans \/ GetServiceKeysForInstance
                 \/ (\E p \in Plans : GetServiceInstances(p))
                 \/ (\E i \in Guids : GetBindingsForInstance(i))
                 \/ (\E b : deleteBindings(b) \/ deleteServiceKeys(b)) \/ deleteInProgress
                 \/ deleteServiceInstance \/ pollInstanceDeleteStatus \/ GetServiceOfferingGUID
        BY <2>1, <3>3 DEF CallFails, GetPlansToDisable, ListPlans, GetServiceKeysForInstance,
             GetServiceInstances, GetBindingsForInstance, deleteBindings, deleteServiceKeys,
             deleteInProgress, deleteServiceInstance, pollInstanceDeleteStatus,
             GetServiceOfferingGUID, cfVars
      <3> QED BY <2>3, <3>1, <3>2, <3>3 DEF PurgerNext
    <2>4. CASE RegistrarNext
      <3>1. CASE RegistrationFails \/ ServiceBrokers \/ getServicePlanVisibilities
        BY <2>1, <3>1 DEF RegistrationFails, ServiceBrokers, getServicePlanVisibilities, cfVars
      <3>2. CASE createOrUpdateBroker
        <4>1. CASE registered /\ registration.found
          BY <2>1, <3>2, <4>1 DEF createOrUpdateBroker, accessVars, CFTypeOK, Accessible
        <4>2. CASE ~(registered /\ registration.found)
          <5>1. public' = {} /\ \A p \in Plans : visibilities'[p] = {}
            BY <2>0, <3>2, <4>2 DEF createOrUpdateBroker, NothingUnregistered
          <5> QED BY <5>1 DEF Accessible
        <4> QED BY <4>1, <4>2
      <3>3. ASSUME NEW p \in Plans, setAccessForPlan(p) PROVE Configured
        BY <2>0, <3>3 DEF setAccessForPlan, Accessible
      <3>4. ASSUME NEW o \in Orgs, deleteServicePlanVisibilities(o) PROVE Configured
        BY <2>0, <3>4 DEF deleteServicePlanVisibilities, Accessible
      <3>5. CASE CreateServicePlanVisibility
        BY <2>0, <3>5 DEF CreateServicePlanVisibility, Accessible
      <3> QED BY <2>4, <3>1, <3>2, <3>3, <3>4, <3>5 DEF RegistrarNext
    <2> QED BY <1>1, <2>2, <2>3, <2>4 DEF Next
  <1>2. IInv /\ [Next]_platformVars => [Configured]_platformVars
    BY <1>1
  <1> QED BY <1>2, IInvHolds, PTL DEF Spec, AccessOnlyAsConfigured
-----------------------------------------------------------------------------
(* A deletion of all finds every instance, when instances stay in their plans. *)

\* No instance is moving to another plan.
PlansStay == \A i \in DOMAIN instances : instances[i].to = instances[i].plan

\* What the deletion began with was used up, and is on the list or on one of the pages to come; it
\* does not look for the broker.
DeletionInv ==
  /\ PlansStay /\ errand.known \subseteq used /\ DeletedMeansGone
  /\ errand.kind = "delete-all" => errand.at \notin {"find", "deregister"}
  /\ errand.kind = "delete-all" /\ errand.at = "page" =>
       \A i \in errand.known \cap DOMAIN instances :
         i \in errand.found \/ instances[i].plan \in errand.plans

\* An instance that was there keeps its plan or goes, and never comes back.
Kept == /\ used \subseteq used'
        /\ \A i \in DOMAIN instances' \cap used :
             i \in DOMAIN instances /\ instances'[i].plan = instances[i].plan

LEMMA PutKeeps ==
  ASSUME CFTypeOK, PlansStay, NEW i, NEW r, Put(i, r), r.to = r.plan, used \subseteq used',
         Gone(i) => i \notin used, ~Gone(i) => r.plan = instances[i].plan
  PROVE  PlansStay' /\ Kept
  <1>1. /\ DOMAIN instances' = DOMAIN instances \cup {i} /\ instances'[i] = r
        /\ \A j \in DOMAIN instances : j # i => instances'[j] = instances[j]
    BY DEF Put
  <1> QED BY <1>1 DEF PlansStay, Kept, Gone

LEMMA SameKept == ASSUME PlansStay, UNCHANGED instanceVars PROVE PlansStay' /\ Kept
  BY DEF PlansStay, Kept, instanceVars

LEMMA UnboundKept ==
  ASSUME CFTypeOK, PlansStay, NEW i, NEW b, RemoveBinding(i, b)
  PROVE  PlansStay' /\ Kept
  <1>1. CASE Gone(i)
    BY <1>1, SameKept DEF RemoveBinding, instanceVars
  <1>2. CASE ~Gone(i)
    <2> DEFINE r == [instances[i] EXCEPT !.bound = @ \ {b}]
    <2>1. instances[i] \in Instance /\ i \in DOMAIN instances
      BY <1>2 DEF CFTypeOK, Gone
    <2>2. r.plan = instances[i].plan /\ r.to = instances[i].to
      BY <2>1 DEF Instance
    <2>3. Put(i, r) /\ used' = used
      BY <1>2 DEF RemoveBinding
    <2>4. r.to = r.plan
      BY <2>1, <2>2 DEF PlansStay
    <2> HIDE DEF r
    <2> QED BY <1>2, <2>2, <2>3, <2>4, PutKeeps
  <1> QED BY <1>1, <1>2

LEMMA StartKept ==
  ASSUME CFTypeOK, PlansStay, NEW i, ~Gone(i), NEW type, StartOperation(i, type, instances[i].plan)
  PROVE  PlansStay' /\ Kept
  <1> DEFINE r == [instances[i] EXCEPT !.type = type, !.state = "in progress", !.to = instances[i].plan]
  <1>1. instances[i] \in Instance
    BY DEF CFTypeOK, Gone
  <1>2. r.plan = instances[i].plan /\ r.to = r.plan
    BY <1>1 DEF Instance
  <1>3. Put(i, r) /\ used' = used
    BY DEF StartOperation
  <1> HIDE DEF r
  <1> QED BY <1>2, <1>3, PutKeeps

LEMMA UsersKeep ==
  ASSUME PlanChanges = FALSE, CFTypeOK, PlansStay, CFNext PROVE PlansStay' /\ Kept
  <1>1. ASSUME NEW i \in Guids, OperationEnds(i) PROVE PlansStay' /\ Kept
    <2>0. ~Gone(i) /\ instances[i] \in Instance /\ instances[i].to = instances[i].plan
      BY <1>1 DEF OperationEnds, InProgress, Gone, CFTypeOK, PlansStay
    <2>1. CASE Remove(i)
      BY <2>1 DEF Remove, PlansStay, Kept
    <2>2. CASE \E p \in {instances[i].plan, instances[i].to} :
                 Put(i, [instances[i] EXCEPT !.state = "succeeded", !.plan = p, !.to = p])
               /\ UNCHANGED used
      <3> DEFINE r == [instances[i] EXCEPT !.state = "succeeded", !.plan = instances[i].plan,
                                           !.to = instances[i].plan]
      <3>1. Put(i, r) /\ used' = used
        BY <2>0, <2>2
      <3>2. r.plan = instances[i].plan /\ r.to = r.plan
        BY <2>0 DEF Instance
      <3> HIDE DEF r
      <3> QED BY <2>0, <3>1, <3>2, PutKeeps
    <2>3. CASE Put(i, [instances[i] EXCEPT !.state = "failed"]) /\ UNCHANGED used
      <3> DEFINE r == [instances[i] EXCEPT !.state = "failed"]
      <3>1. r.plan = instances[i].plan /\ r.to = r.plan
        BY <2>0 DEF Instance
      <3>2. Put(i, r)
        BY <2>3
      <3> HIDE DEF r
      <3> QED BY <2>0, <2>3, <3>1, <3>2, PutKeeps
    <2> QED BY <1>1, <2>1, <2>2, <2>3 DEF OperationEnds
  <1>2. ASSUME NEW i \in Guids, DeleteInstance(i) PROVE PlansStay' /\ Kept
    <2>1. ~Gone(i) /\ StartOperation(i, "delete", instances[i].plan)
      BY <1>2 DEF DeleteInstance, MayDelete
    <2> QED BY <2>1, StartKept
  <1>3. ASSUME NEW i \in Guids, NEW p \in Plans, CreateInstance(i, p) PROVE PlansStay' /\ Kept
    <2> DEFINE r == [plan |-> p, to |-> p, type |-> "create or update", state |-> "in progress",
                     bound |-> {}]
    <2>1. Put(i, r) /\ used \subseteq used' /\ i \notin used /\ Gone(i) /\ r.to = r.plan
      BY <1>3 DEF CreateInstance, CFTypeOK, Gone
    <2> HIDE DEF r
    <2> QED BY <2>1, PutKeeps
  <1>4. ASSUME NEW i \in Guids, NEW p \in Plans, UpdateInstance(i, p) PROVE PlansStay' /\ Kept
    <2>1. ~Gone(i) /\ StartOperation(i, "create or update", instances[i].plan)
      BY <1>4 DEF UpdateInstance
    <2> QED BY <2>1, StartKept
  <1>5. ASSUME NEW i \in Guids, NEW b, Bind(i, b) PROVE PlansStay' /\ Kept
    <2> DEFINE r == [instances[i] EXCEPT !.bound = @ \cup {b}]
    <2>1. Put(i, r) /\ ~Gone(i) /\ used' = used
      BY <1>5 DEF Bind
    <2>2. instances[i] \in Instance /\ instances[i].to = instances[i].plan
      BY <2>1 DEF CFTypeOK, Gone, PlansStay
    <2>3. r.plan = instances[i].plan /\ r.to = r.plan
      BY <2>2 DEF Instance
    <2> HIDE DEF r
    <2> QED BY <2>1, <2>3, PutKeeps
  <1>6. ASSUME NEW i \in Guids, NEW b, Unbind(i, b) PROVE PlansStay' /\ Kept
    <2>1. RemoveBinding(i, b)
      BY <1>6 DEF Unbind
    <2> QED BY <2>1, UnboundKept
  <1> QED BY <1>1, <1>2, <1>3, <1>4, <1>5, <1>6 DEF CFNext

LEMMA ErrandsKeep ==
  ASSUME CFTypeOK, PlansStay, PurgerNext PROVE PlansStay' /\ Kept
  <1>1. ASSUME NEW b, deleteBindings(b) \/ deleteServiceKeys(b) PROVE PlansStay' /\ Kept
    <2>1. RemoveBinding(This, b)
      BY <1>1 DEF deleteBindings, deleteServiceKeys
    <2> QED BY <2>1, UnboundKept
  <1>2. CASE deleteServiceInstance
    <2>1. UNCHANGED instanceVars
          \/ (~Gone(This) /\ StartOperation(This, "delete", instances[This].plan))
      BY <1>2 DEF deleteServiceInstance, MayDelete
    <2> QED BY <2>1, SameKept, StartKept
  <1>3. CASE CallFails \/ GetPlansToDisable \/ ListPlans \/ GetServiceKeysForInstance
             \/ (\E p \in Plans : DisableServiceAccessForAllPlans(p) \/ GetServiceInstances(p))
             \/ (\E i \in Guids : GetBindingsForInstance(i)) \/ deleteInProgress
             \/ pollInstanceDeleteStatus \/ GetServiceOfferingGUID \/ DeregisterBroker
    BY <1>3, SameKept DEF CallFails, GetPlansToDisable, ListPlans, GetServiceKeysForInstance,
         DisableServiceAccessForAllPlans, GetServiceInstances, GetBindingsForInstance,
         deleteInProgress, pollInstanceDeleteStatus, GetServiceOfferingGUID, DeregisterBroker, cfVars
  <1> QED BY <1>1, <1>2, <1>3 DEF PurgerNext

\* When the errand stays where it is, what is kept keeps the rest.
LEMMA KeptIsEnough ==
  ASSUME DeletionInv, Kept, PlansStay', UNCHANGED errand PROVE DeletionInv'
  BY DEF DeletionInv, Kept, DeletedMeansGone, Succeeded

\* The steps of an errand that are not about its list neither end it well nor turn pages.
LEMMA DeletionSteps ==
  ASSUME IInv, DeletionInv, PurgerNext PROVE DeletionInv'
  <1>0. /\ CFTypeOK /\ errand \in Errand /\ PlansStay' /\ Kept /\ NothingUnregistered
        /\ errand.known \subseteq used
    BY ErrandsKeep DEF IInv, ErrandOK, DeletionInv
  <1>1. ASSUME errand'.known = errand.known,
               errand'.kind = "delete-all" => errand'.at \notin {"ok", "page", "find", "deregister"}
        PROVE  DeletionInv'
    BY <1>0, <1>1 DEF DeletionInv, Kept, DeletedMeansGone, Succeeded
  <1>2. CASE ListPlans
    <2>1. instances' = instances /\ errand'.known = errand.known /\ errand'.kind = errand.kind
      BY <1>0, <1>2 DEF ListPlans, cfVars, instanceVars, Errand
    <2>2. CASE ~registered
      <3>1. DOMAIN instances' = {}
        BY <1>0, <2>1, <2>2 DEF NothingUnregistered
      <3>2. errand'.kind = "delete-all" => errand'.at = "ok"
        BY <1>0, <1>2, <2>1, <2>2 DEF ListPlans, getPlansForServiceID, Listed, Errand
      <3> QED BY <1>0, <2>1, <3>1, <3>2 DEF DeletionInv, DeletedMeansGone, Kept
    <2>3. CASE registered
      <3>1. errand'.at = "page" /\ errand'.plans = Plans
        BY <1>0, <1>2, <2>3, CloudFoundryAssumption DEF ListPlans, getPlansForServiceID, Errand
      <3>2. \A i \in DOMAIN instances' : instances'[i].plan \in Plans
        BY <1>0, <2>1 DEF CFTypeOK, Instance
      <3> QED BY <1>0, <2>1, <3>1, <3>2 DEF DeletionInv, DeletedMeansGone, Succeeded, Kept
    <2> QED BY <2>2, <2>3
  <1>3. ASSUME NEW p \in Plans, GetServiceInstances(p) PROVE DeletionInv'
    <2> DEFINE found == errand.found \cup {i \in DOMAIN instances : instances[i].plan = p}
    <2>1. /\ instances' = instances /\ errand'.known = errand.known /\ errand'.kind = errand.kind
          /\ errand'.found = found /\ errand'.plans = errand.plans \ {p} /\ errand.at = "page"
          /\ errand'.at = IF errand.plans = {p} THEN Listed(found) ELSE "page"
      BY <1>0, <1>3 DEF GetServiceInstances, cfVars, instanceVars, Errand
    <2>2. errand.kind = "delete-all" =>
            \A i \in errand.known \cap DOMAIN instances :
              i \in found \/ instances[i].plan \in errand.plans \ {p}
      BY <2>1 DEF DeletionInv
    <2> HIDE DEF found
    <2>3. /\ errand'.at = "ok" => errand.plans = {p} /\ found = {}
          /\ errand.kind = "delete-all" => errand'.at \notin {"find", "deregister"}
      BY <2>1 DEF Listed
    <2>4. DeletedMeansGone'
      BY <2>1, <2>2, <2>3 DEF DeletedMeansGone, Succeeded
    <2> QED BY <1>0, <2>1, <2>2, <2>3, <2>4 DEF DeletionInv, Kept
  <1>4. CASE CallFails \/ GetPlansToDisable \/ GetServiceKeysForInstance \/ deleteInProgress
             \/ (\E p \in Plans : DisableServiceAccessForAllPlans(p))
             \/ (\E i \in Guids : GetBindingsForInstance(i))
             \/ (\E b : deleteBindings(b) \/ deleteServiceKeys(b))
             \/ deleteServiceInstance \/ pollInstanceDeleteStatus
    <2>1. errand'.known = errand.known /\ errand'.at \notin {"ok", "page", "find", "deregister"}
      BY <1>0, <1>4 DEF CallFails, GetPlansToDisable, GetServiceKeysForInstance, deleteInProgress,
           DisableServiceAccessForAllPlans, GetBindingsForInstance, deleteBindings,
           deleteServiceKeys, deleteServiceInstance, pollInstanceDeleteStatus, Goto, End, NoErrand,
           Errand, Deleted, UnexpectedOperation, DeleteFailed
    <2> QED BY <1>1, <2>1
  <1>5. CASE GetServiceOfferingGUID \/ DeregisterBroker
    <2>1. errand.kind # "delete-all"
      BY <1>5 DEF DeletionInv, GetServiceOfferingGUID, DeregisterBroker
    <2>2. errand'.known = errand.known /\ errand'.kind = errand.kind
      BY <1>0, <1>5 DEF GetServiceOfferingGUID, DeregisterBroker, Goto, End, NoErrand, Errand
    <2> QED BY <1>1, <2>1, <2>2
  <1> QED BY <1>1, <1>2, <1>3, <1>4, <1>5 DEF PurgerNext

\* A successful deletion of all leaves none of the instances that were there when it began, for any
\* number of instances and whatever users did meanwhile, when they do not move them between plans
\* (deleter.go:65).
THEOREM AllDeleted ==
  ASSUME PlanChanges = FALSE PROVE Spec => []DeletedMeansGone
  <1>1. Init => DeletionInv
    BY DEF Init, CFInit, NoErrand, DeletionInv, PlansStay, DeletedMeansGone, Succeeded
  <1>2. ASSUME IInv, DeletionInv, [Next]_platformVars PROVE DeletionInv'
    <2>0. CFTypeOK /\ PlansStay
      BY <1>2 DEF IInv, DeletionInv
    <2>1. ASSUME NEW kind \in ErrandKinds, StartErrand(kind) PROVE DeletionInv'
      <3>1. PlansStay' /\ Kept
        BY <2>0, <2>1, SameKept DEF StartErrand, Start, cfVars
      <3>2. /\ errand'.at \notin {"ok", "page"} /\ errand'.known \subseteq DOMAIN instances
            /\ errand'.kind = "delete-all" => errand'.at = "list"
        BY <2>1 DEF StartErrand, Start, ErrandKinds
      <3> QED BY <2>0, <3>1, <3>2 DEF DeletionInv, DeletedMeansGone, Succeeded, Kept, CFTypeOK
    <2>2. ASSUME NEW config \in Configs, StartRegistration(config) PROVE DeletionInv'
      <3>1. PlansStay' /\ Kept
        BY <2>0, <2>2, SameKept DEF StartRegistration, Run, cfVars
      <3> QED BY <2>2, <3>1 DEF StartRegistration, NoErrand, DeletionInv, DeletedMeansGone, Succeeded
    <2>3. CASE CFNext /\ UNCHANGED <<errand, registration, runs>>
      BY <1>2, <2>0, <2>3, UsersKeep, KeptIsEnough
    <2>4. CASE PurgerNext
      BY <1>2, <2>4, DeletionSteps
    <2>5. CASE RegistrarNext /\ UNCHANGED <<errand, runs>>
      <3>1. UNCHANGED instanceVars
        BY <2>5 DEF RegistrarNext, RegistrationFails, ServiceBrokers, createOrUpdateBroker,
                    setAccessForPlan, getServicePlanVisibilities, deleteServicePlanVisibilities,
                    CreateServicePlanVisibility, cfVars
      <3> QED BY <1>2, <2>0, <2>5, <3>1, SameKept, KeptIsEnough
    <2>6. CASE UNCHANGED platformVars
      BY <1>2, <2>0, <2>6, SameKept, KeptIsEnough DEF platformVars, cfVars
    <2> QED BY <1>2, <2>1, <2>2, <2>3, <2>4, <2>5, <2>6 DEF Next
  <1>3. DeletionInv => DeletedMeansGone
    BY DEF DeletionInv
  <1> QED BY <1>1, <1>2, <1>3, IInvHolds, PTL DEF Spec
=============================================================================
