-------------------------------- MODULE Quotas --------------------------------
(***************************************************************************)
(* Quotas on instances and on one kind of resource, checked by Provision   *)
(* and by an Update that changes the plan.  The counts come from Cloud     *)
(* Foundry, plan by plan, and Cloud Foundry only counts an instance some   *)
(* time after the broker accepted it.  Kinds of resources are checked      *)
(* independently of one another: one stands for all.                       *)
(***************************************************************************)
EXTENDS Integers, FiniteSets

CONSTANTS Plans,            \* plans of the service offering
          Workers,          \* Cloud Foundry's workers: one request at a time each
          NoWorker,         \* nobody holds the lock
          NoLimit,          \* a quota that is not set
          InstanceLimits,   \* values of the instance limits
          PlanResourceLimits,   \* values of a plan's resource limit, 0: none
          GlobalResourceLimits, \* values of the global resource limit
          Costs,            \* values of a plan's cost
          MaxInstances      \* bound on the instances of a plan

ASSUME QuotasAssumption ==
  /\ IsFiniteSet(Plans) /\ Plans # {}
  /\ IsFiniteSet(Workers) /\ Workers # {} /\ NoWorker \notin Workers
  /\ NoLimit \notin Nat
  /\ InstanceLimits \subseteq Nat \cup {NoLimit}
  /\ PlanResourceLimits \subseteq Nat
  /\ GlobalResourceLimits \subseteq Nat \cup {NoLimit}
  /\ Costs \subseteq Nat /\ MaxInstances \in Nat

VARIABLES planLimit,      \* service_instance_limit of each plan
          globalLimit,    \* global service_instance_limit
          planResources,  \* resource limit of each plan
          globalResources,\* global resource limit
          cost,           \* what an instance of each plan costs
          counts,         \* instances of each plan Cloud Foundry has on record
          lock,           \* holder of deploymentLock
          request         \* what each worker is waiting for

quotas    == <<planLimit, globalLimit, planResources, globalResources, cost>>
quotaVars == <<quotas, counts, lock, request>>
-----------------------------------------------------------------------------
\* A create has from = to.  seen holds the counts the handler has read so far.
Request == [at : {"idle", "lock", "count", "accepted"}, op : {"create", "update"},
            from : Plans, to : Plans, seen : [Plans -> -1..MaxInstances]]
NotSeen == [p \in Plans |-> -1]
Idle    == [at |-> "idle", op |-> "create", from |-> CHOOSE p \in Plans : TRUE,
            to |-> CHOOSE p \in Plans : TRUE, seen |-> NotSeen]

\* The sum of f over the plans: the size of a set that has f[p] elements of plan p.
TotalOf(f) == Cardinality(UNION {{p} \X (1..f[p]) : p \in Plans})

(* The four checks: TRUE when the quota would be exceeded. *)

\* A plan Cloud Foundry does not list would not be limited; it lists the plans it asks for.
checkPlanServiceCount_OffByOne(plan, planCounts) ==
  planLimit[plan] # NoLimit /\ planCounts[plan] > planLimit[plan]
checkPlanServiceCount(plan, planCounts) ==
  planLimit[plan] # NoLimit /\ planCounts[plan] >= planLimit[plan]

checkGlobalServiceCount_OnePlan(plan, planCounts) ==
  globalLimit # NoLimit /\ planCounts[plan] >= globalLimit
checkGlobalServiceCount(plan, planCounts) ==
  globalLimit # NoLimit /\ TotalOf(planCounts) >= globalLimit

\* Every plan's cost times the number of instances of the plan asked for.
checkGlobalResourceQuotaNotExceeded(plan, planCounts) ==
  /\ globalResources # NoLimit
  /\ TotalOf([p \in Plans |-> cost[p] * planCounts[plan]]) + cost[plan] > globalResources

\* A limit of 0 means none here, though not above.
checkPlanResourceQuotaNotExceeded(plan, planCounts) ==
  /\ planResources[plan] # 0
  /\ cost[plan] * planCounts[plan] + cost[plan] > planResources[plan]

checkQuotas(plan, planCounts) ==
  /\ ~checkPlanServiceCount(plan, planCounts)
  /\ ~checkGlobalServiceCount(plan, planCounts)
  /\ ~checkGlobalResourceQuotaNotExceeded(plan, planCounts)
  /\ ~checkPlanResourceQuotaNotExceeded(plan, planCounts)
-----------------------------------------------------------------------------
\* Requests for plan p and updates away from it that are under way.
Towards(p)  == {w \in Workers : request[w].at # "idle" /\ request[w].to = p}
Updating(p) == {w \in Workers : request[w].at # "idle" /\ request[w].op = "update"
                                /\ request[w].from = p}

Send(w, op, p, q) ==
  /\ request[w].at = "idle"
  /\ counts[q] + Cardinality(Towards(q)) < MaxInstances
  /\ request' = [request EXCEPT ![w] = [at |-> "lock", op |-> op, from |-> p, to |-> q,
                                        seen |-> NotSeen]]
  /\ UNCHANGED <<quotas, counts, lock>>

SendCreate(w, p) == Send(w, "create", p, p)

\* Cloud Foundry runs one operation of an instance at a time.
SendUpdate_OfBusyInstance(w, p, q) == counts[p] > 0 /\ Send(w, "update", p, q)
SendUpdate(w, p, q) == counts[p] > Cardinality(Updating(p)) /\ Send(w, "update", p, q)

\* An update that keeps the plan is not checked.
validateQuotasForUpdate(w) == request[w].op = "update" => request[w].from # request[w].to

Acquire(w) ==
  /\ request[w].at = "lock" /\ lock = NoWorker
  /\ IF validateQuotasForUpdate(w)
     THEN /\ lock' = w
          /\ request' = [request EXCEPT ![w].at = "count"]
     ELSE /\ UNCHANGED lock
          /\ request' = [request EXCEPT ![w].at = "accepted"]
  /\ UNCHANGED <<quotas, counts>>

\* One call for the number of instances of each plan.
CountInstancesOfServiceOffering(w, p) ==
  /\ request[w].at = "count" /\ request[w].seen[p] = -1
  /\ request' = [request EXCEPT ![w].seen[p] = counts[p]]
  /\ UNCHANGED <<quotas, counts, lock>>

\* With all counts the handler decides, goes on to deploy, and answers.
Accept(w) ==
  /\ request[w].at = "count" /\ \A p \in Plans : request[w].seen[p] # -1
  /\ checkQuotas(request[w].to, request[w].seen)
  /\ request' = [request EXCEPT ![w].at = "accepted"]
  /\ lock' = NoWorker
  /\ UNCHANGED <<quotas, counts>>

\* A quota would be exceeded, or a later call of the handler fails.
Refuse(w) ==
  /\ request[w].at = "count"
  /\ request' = [request EXCEPT ![w] = Idle]
  /\ lock' = NoWorker
  /\ UNCHANGED <<quotas, counts>>

\* Cloud Foundry records the new instance; of an update, once it succeeded, the plan.
Record(w) ==
  /\ request[w].at = "accepted"
  /\ request' = [request EXCEPT ![w] = Idle]
  /\ LET from == request[w].from
         to   == request[w].to
     IN  \/ request[w].op = "create" /\ counts' = [counts EXCEPT ![to] = @ + 1]
         \/ /\ request[w].op = "update"
            /\ counts' = [[counts EXCEPT ![from] = @ - 1] EXCEPT ![to] = @ + 1]
         \/ request[w].op = "update" /\ UNCHANGED counts
  /\ UNCHANGED <<quotas, lock>>

DeleteInstance(p) ==
  /\ counts[p] > Cardinality(Updating(p))
  /\ counts' = [counts EXCEPT ![p] = @ - 1]
  /\ UNCHANGED <<quotas, lock, request>>

Init ==
  /\ planLimit \in [Plans -> InstanceLimits] /\ globalLimit \in InstanceLimits
  /\ planResources \in [Plans -> PlanResourceLimits] /\ globalResources \in GlobalResourceLimits
  /\ cost \in [Plans -> Costs]
  /\ counts = [p \in Plans |-> 0]
  /\ lock = NoWorker
  /\ request = [w \in Workers |-> Idle]

Next ==
  \/ \E w \in Workers, p \in Plans : SendCreate(w, p)
  \/ \E w \in Workers, p, q \in Plans : SendUpdate(w, p, q)
  \/ \E w \in Workers : Acquire(w)
  \/ \E w \in Workers, p \in Plans : CountInstancesOfServiceOffering(w, p)
  \/ \E w \in Workers : Accept(w)
  \/ \E w \in Workers : Refuse(w)
  \/ \E w \in Workers : Record(w)
  \/ \E p \in Plans : DeleteInstance(p)

Spec == Init /\ [][Next]_quotaVars
-----------------------------------------------------------------------------
\* TypeOK: every variable stays in its domain.
TypeOK ==
  /\ planLimit \in [Plans -> InstanceLimits] /\ globalLimit \in InstanceLimits
  /\ planResources \in [Plans -> PlanResourceLimits] /\ globalResources \in GlobalResourceLimits
  /\ cost \in [Plans -> Costs]
  /\ counts \in [Plans -> 0..MaxInstances]
  /\ lock \in Workers \cup {NoWorker}
  /\ request \in [Workers -> Request]

\* Instances of a plan the broker has accepted, recorded or not.
Unrecorded(p) ==
  {w \in Workers : request[w].at = "accepted" /\ request[w].to = p
                   /\ (request[w].op = "update" => request[w].from # p)}
Instances == [p \in Plans |-> counts[p] + Cardinality(Unrecorded(p))]
Created   == {w \in Workers : request[w].at = "accepted" /\ request[w].op = "create"}

\* Requests that may be accepted but not recorded while another one is checked.
Slack == Cardinality(Workers) - 1

\* PlanLimitKept: a plan's instance limit is exceeded at most by the requests
\* Cloud Foundry runs beside the one that is checked (quotas.go:65).
PlanLimitKept ==
  \A p \in Plans : planLimit[p] # NoLimit => Instances[p] <= planLimit[p] + Slack

\* GlobalLimitKept: so is the global limit, although the plans are counted one
\* after the other while instances change plans (quotas.go:73).
GlobalLimitKept ==
  globalLimit # NoLimit => TotalOf(counts) + Cardinality(Created) <= globalLimit + Slack

\* PlanResourcesKept: and a plan's limit on a resource (quotas.go:124).
PlanResourcesKept ==
  \A p \in Plans : planResources[p] # 0 =>
    cost[p] * Instances[p] <= planResources[p] + cost[p] * Slack

\* PlanQuotasKept: both limits of a plan together.
PlanQuotasKept == PlanLimitKept /\ PlanResourcesKept

\* GlobalResourcesKept: with one request at a time no more than the global
\* limit of a resource is in use (update_test.go:643 "fails if the instance
\* would exceed the global resource limit").
GlobalResourcesKept ==
  globalResources # NoLimit /\ Slack = 0 =>
    TotalOf([p \in Plans |-> cost[p] * Instances[p]]) <= globalResources
=============================================================================
