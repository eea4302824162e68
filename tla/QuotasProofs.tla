----------------------------- MODULE QuotasProofs -----------------------------
(***************************************************************************)
(* Theorems about the quotas: type correctness, and that the limits of a   *)
(* plan and of the service are exceeded by no more than the requests under *)
(* way; for any plans, limits, costs and number of requests at a time.     *)
(***************************************************************************)
EXTENDS Quotas, FiniteSetTheorems, TLAPS

\* What a worker's request r counts for: on its way to plan p, an update away from it, or
\* accepted for it and not recorded.
To(r, p)   == r.at # "idle" /\ r.to = p
From(r, p) == r.at # "idle" /\ r.op = "update" /\ r.from = p
New(r, p)  == r.at = "accepted" /\ r.to = p /\ (r.op = "update" => r.from # p)
One(b)     == IF b THEN 1 ELSE 0

\* The numbers of them, by plan.
Arriving == [p \in Plans |-> Cardinality(Towards(p))]
Leaving  == [p \in Plans |-> Cardinality(Updating(p))]
Waiting  == [p \in Plans |-> Cardinality(Unrecorded(p))]

\* Who counts holds the lock.
CountsLocked == \A w \in Workers : request[w].at = "count" => lock = w

\* Requests find the instances they are about, and room for those they ask for.
Room == \A p \in Plans : counts[p] + Arriving[p] <= MaxInstances /\ Leaving[p] <= counts[p]

\* A count is behind by at most the requests that were accepted when it was taken: while the
\* lock is held, no more are accepted that add to a plan.
Recent(r) == /\ r.at = "lock" => r.seen = NotSeen
             /\ r.at = "count" => \A p \in Plans : r.seen[p] # -1 => Instances[p] <= r.seen[p] + Slack
SeenRecently == \A w \in Workers : Recent(request[w])

IInv == TypeOK /\ CountsLocked /\ Room /\ SeenRecently /\ PlanQuotasKept
-----------------------------------------------------------------------------
LEMMA WorkersFinite ==
  ASSUME NEW S \in SUBSET Workers
  PROVE  IsFiniteSet(S) /\ Cardinality(S) \in Nat /\ Cardinality(S) <= Cardinality(Workers)
  BY QuotasAssumption, FS_Subset, FS_CardinalityType

\* Two sets of workers that differ in one worker only.
LEMMA Differ ==
  ASSUME NEW S \in SUBSET Workers, NEW T \in SUBSET Workers, NEW w \in Workers,
         \A v \in Workers \ {w} : v \in S <=> v \in T
  PROVE  Cardinality(T) = Cardinality(S) - One(w \in S) + One(w \in T)
  <1>1. S \ {w} = T \ {w}
    OBVIOUS
  <1>2. Cardinality(S \ {w}) = Cardinality(S) - One(w \in S)
    BY WorkersFinite, FS_RemoveElement DEF One
  <1>3. Cardinality(T \ {w}) = Cardinality(T) - One(w \in T)
    BY WorkersFinite, FS_RemoveElement DEF One
  <1>4. Cardinality(S) \in Nat /\ Cardinality(T) \in Nat
    BY WorkersFinite
  <1> QED BY <1>1, <1>2, <1>3, <1>4 DEF One

\* What there is to count.
LEMMA Counts ==
  ASSUME NEW p \in Plans
  PROVE  /\ Arriving[p] \in Nat /\ Leaving[p] \in Nat /\ Waiting[p] \in Nat
         /\ Instances[p] = counts[p] + Waiting[p]
  BY WorkersFinite DEF Towards, Updating, Unrecorded, Instances, Arriving, Leaving, Waiting
LEMMA CountsNext ==
  ASSUME NEW p \in Plans
  PROVE  /\ Arriving'[p] \in Nat /\ Leaving'[p] \in Nat /\ Waiting'[p] \in Nat
         /\ Instances'[p] = counts'[p] + Waiting'[p]
  BY WorkersFinite DEF Towards, Updating, Unrecorded, Instances, Arriving, Leaving, Waiting

\* How many instances a plan has.
LEMMA Numbers ==
  ASSUME TypeOK, NEW p \in Plans
  PROVE  counts[p] \in Nat /\ Instances[p] \in Nat /\ cost[p] \in Nat
  <1>1. counts[p] \in 0..MaxInstances /\ cost[p] \in Costs
    BY DEF TypeOK
  <1>2. MaxInstances \in Nat /\ Costs \subseteq Nat
    BY QuotasAssumption
  <1>3. counts[p] \in Nat
    BY <1>1, <1>2
  <1>4. cost[p] \in Nat
    BY <1>1, <1>2
  <1> QED BY <1>3, <1>4, Counts
LEMMA NumbersNext ==
  ASSUME TypeOK', NEW p \in Plans
  PROVE  counts'[p] \in Nat /\ Instances'[p] \in Nat
  <1>1. counts'[p] \in 0..MaxInstances
    BY DEF TypeOK
  <1>2. MaxInstances \in Nat
    BY QuotasAssumption
  <1>3. counts'[p] \in Nat
    BY <1>1, <1>2
  <1> QED BY <1>3, CountsNext

LEMMA SlackIsNat == ASSUME NEW w \in Workers PROVE Slack \in Nat /\ Cardinality(Workers) = Slack + 1
  <1>1. Cardinality(Workers) \in Nat /\ Cardinality({w}) = 1 /\ Cardinality({w}) <= Cardinality(Workers)
    BY WorkersFinite, FS_Singleton
  <1> QED BY <1>1 DEF Slack

\* One worker's request changes from what it was to r.
LEMMA Moves ==
  ASSUME TypeOK, NEW w \in Workers, NEW r \in Request, request' = [request EXCEPT ![w] = r], NEW p \in Plans
  PROVE  /\ Arriving'[p] = Arriving[p] - One(To(request[w], p)) + One(To(r, p))
         /\ Leaving'[p] = Leaving[p] - One(From(request[w], p)) + One(From(r, p))
         /\ Waiting'[p] = Waiting[p] - One(New(request[w], p)) + One(New(r, p))
  <1>1. request'[w] = r /\ \A v \in Workers \ {w} : request'[v] = request[v]
    BY DEF TypeOK
  <1>2. Arriving'[p] = Arriving[p] - One(To(request[w], p)) + One(To(r, p))
    <2>1. \A v \in Workers \ {w} : v \in Towards(p) <=> v \in Towards(p)'
      BY <1>1 DEF Towards
    <2>2. (w \in Towards(p) <=> To(request[w], p)) /\ (w \in Towards(p)' <=> To(r, p))
      BY <1>1 DEF Towards, To
    <2>3. Towards(p) \in SUBSET Workers /\ Towards(p)' \in SUBSET Workers
      BY DEF Towards
    <2> QED BY <2>1, <2>2, <2>3, Differ DEF One, Arriving
  <1>3. Leaving'[p] = Leaving[p] - One(From(request[w], p)) + One(From(r, p))
    <2>1. \A v \in Workers \ {w} : v \in Updating(p) <=> v \in Updating(p)'
      BY <1>1 DEF Updating
    <2>2. (w \in Updating(p) <=> From(request[w], p)) /\ (w \in Updating(p)' <=> From(r, p))
      BY <1>1 DEF Updating, From
    <2>3. Updating(p) \in SUBSET Workers /\ Updating(p)' \in SUBSET Workers
      BY DEF Updating
    <2> QED BY <2>1, <2>2, <2>3, Differ DEF One, Leaving
  <1>4. Waiting'[p] = Waiting[p] - One(New(request[w], p)) + One(New(r, p))
    <2>1. \A v \in Workers \ {w} : v \in Unrecorded(p) <=> v \in Unrecorded(p)'
      BY <1>1 DEF Unrecorded
    <2>2. (w \in Unrecorded(p) <=> New(request[w], p)) /\ (w \in Unrecorded(p)' <=> New(r, p))
      BY <1>1 DEF Unrecorded, New
    <2>3. Unrecorded(p) \in SUBSET Workers /\ Unrecorded(p)' \in SUBSET Workers
      BY DEF Unrecorded
    <2> QED BY <2>1, <2>2, <2>3, Differ DEF One, Waiting
  <1> QED BY <1>2, <1>3, <1>4

\* Products of costs and numbers of instances.
LEMMA Product == ASSUME NEW c \in Nat, NEW x \in Nat, NEW y \in Nat, x <= y PROVE c * x <= c * y
  <1>1. c * (y - x) >= 0
    <2> DEFINE d == y - x
    <2>1. d \in Nat
      OBVIOUS
    <2> HIDE DEF d
    <2>2. c * d \in Nat
      BY <2>1
    <2> QED BY <2>2 DEF d
  <1>2. c * (y - x) = c * y - c * x
    OBVIOUS
  <1>3. c * x \in Int /\ c * y \in Int
    OBVIOUS
  <1> QED BY <1>1, <1>2, <1>3

\* Quotas stay kept when no plan gets more instances.
LEMMA NoMore ==
  ASSUME TypeOK, TypeOK', PlanQuotasKept, UNCHANGED quotas,
         \A p \in Plans : Instances'[p] <= Instances[p]
  PROVE  PlanQuotasKept'
  <1>1. ASSUME NEW p \in Plans
        PROVE  Instances[p] \in Nat /\ Instances'[p] \in Nat /\ cost[p] \in Nat /\ cost'[p] = cost[p]
               /\ planLimit'[p] = planLimit[p] /\ planResources'[p] = planResources[p]
    BY Numbers, NumbersNext DEF quotas
  <1>2. Slack \in Int
    BY WorkersFinite DEF Slack
  <1>3. ASSUME NEW p \in Plans, planLimit[p] # NoLimit PROVE Instances'[p] <= planLimit[p] + Slack
    <2>1. planLimit[p] \in Nat
      BY <1>3, QuotasAssumption DEF TypeOK
    <2>2. Instances[p] <= planLimit[p] + Slack
      BY <1>3 DEF PlanQuotasKept, PlanLimitKept
    <2> QED BY <1>1, <1>2, <2>1, <2>2
  <1>4. ASSUME NEW p \in Plans, planResources[p] # 0
        PROVE  cost[p] * Instances'[p] <= planResources[p] + cost[p] * Slack
    <2>1. planResources[p] \in Nat
      BY QuotasAssumption DEF TypeOK
    <2>2. cost[p] * Instances[p] <= planResources[p] + cost[p] * Slack
      BY <1>4 DEF PlanQuotasKept, PlanResourcesKept
    <2>3. cost[p] * Instances'[p] <= cost[p] * Instances[p]
      BY <1>1, Product
    <2> DEFINE a == cost[p] * Instances'[p]
               b == cost[p] * Instances[p]
               c == cost[p] * Slack
    <2>4. a \in Int /\ b \in Int /\ c \in Int
      BY <1>1, <1>2
    <2> HIDE DEF a, b, c
    <2>5. a <= b /\ b <= planResources[p] + c
      BY <2>2, <2>3 DEF a, b, c
    <2>6. a <= planResources[p] + c
      BY <2>1, <2>4, <2>5
    <2> QED BY <2>6 DEF a, c
  <1>5. Slack' = Slack
    BY DEF Slack
  <1>6. PlanLimitKept'
    BY <1>1, <1>3, <1>5 DEF PlanLimitKept
  <1>7. PlanResourcesKept'
    BY <1>1, <1>4, <1>5 DEF PlanResourcesKept
  <1> QED BY <1>6, <1>7 DEF PlanQuotasKept

-----------------------------------------------------------------------------
\* There stays room when a request counts for no more than before.
LEMMA Same ==
  ASSUME TypeOK, Room, UNCHANGED counts, NEW w \in Workers, NEW r \in Request,
         request' = [request EXCEPT ![w] = r],
         \A p \in Plans : (To(r, p) => To(request[w], p)) /\ (From(r, p) => From(request[w], p))
  PROVE  Room'
  <1> SUFFICES ASSUME NEW p \in Plans
               PROVE  counts[p] + Arriving'[p] <= MaxInstances /\ Leaving'[p] <= counts[p]
    BY DEF Room
  <1>1. MaxInstances \in Nat
    BY QuotasAssumption
  <1>2. Arriving'[p] <= Arriving[p] /\ Leaving'[p] <= Leaving[p]
    <2>1. Arriving'[p] = Arriving[p] - One(To(request[w], p)) + One(To(r, p))
      BY Moves
    <2>2. Leaving'[p] = Leaving[p] - One(From(request[w], p)) + One(From(r, p))
      BY Moves
    <2> QED BY <2>1, <2>2, Counts DEF One
  <1>3. counts[p] + Arriving[p] <= MaxInstances /\ Leaving[p] <= counts[p]
    BY DEF Room
  <1> QED BY <1>1, <1>2, <1>3, Counts, CountsNext, Numbers

\* A plan has no more instances, unless w's request is accepted for it now.
LEMMA SameInstances ==
  ASSUME TypeOK, NEW w \in Workers, NEW r \in Request, request' = [request EXCEPT ![w] = r],
         UNCHANGED counts, \A p \in Plans : ~New(r, p)
  PROVE  \A p \in Plans : Instances'[p] <= Instances[p]
  <1> TAKE p \in Plans
  <1>1. Waiting'[p] <= Waiting[p]
    <2>1. Waiting'[p] = Waiting[p] - One(New(request[w], p)) + One(New(r, p))
      BY Moves
    <2> QED BY <2>1, Counts DEF One
  <1> QED BY <1>1, Counts, CountsNext, Numbers

\* What was counted stays recent.
LEMMA StaysRecent ==
  ASSUME TypeOK, TypeOK', \A p \in Plans : Instances'[p] <= Instances[p],
         \A w \in Workers : Recent(request'[w])
  PROVE  SeenRecently'
  <1> SUFFICES ASSUME NEW w \in Workers, request'[w].at = "count", NEW p \in Plans, request'[w].seen[p] # -1
               PROVE  Instances'[p] <= request'[w].seen[p] + Slack
    <2>1. Slack' = Slack /\ NotSeen' = NotSeen
      BY DEF Slack, NotSeen
    <2> QED BY <2>1 DEF SeenRecently, Recent
  <1>1. Instances[p] <= request'[w].seen[p] + Slack
    BY DEF Recent
  <1>2. request'[w].seen[p] \in Int /\ Slack \in Int
    <2>1. request'[w].seen \in [Plans -> -1..MaxInstances]
      BY DEF TypeOK, Request
    <2>2. MaxInstances \in Nat
      BY QuotasAssumption
    <2> QED BY <2>1, <2>2, SlackIsNat
  <1> QED BY <1>1, <1>2, Numbers, NumbersNext

\* What every step but Accept does.
LEMMA Keeps ==
  ASSUME IInv, TypeOK', CountsLocked', Room', UNCHANGED quotas,
         \A p \in Plans : Instances'[p] <= Instances[p], \A w \in Workers : Recent(request'[w])
  PROVE  IInv'
  BY NoMore, StaysRecent DEF IInv

\* A step that changes one request only.
LEMMA KeepsOthers ==
  ASSUME IInv, NEW w \in Workers, NEW r \in Request, request' = [request EXCEPT ![w] = r],
         UNCHANGED <<quotas, counts>>, lock' \in Workers \cup {NoWorker}, CountsLocked', Room',
         \A p \in Plans : ~New(r, p), Recent(r)
  PROVE  IInv'
  <1>1. TypeOK'
    BY DEF IInv, TypeOK, quotas
  <1>2. \A p \in Plans : Instances'[p] <= Instances[p]
    BY SameInstances DEF IInv
  <1>3. \A v \in Workers : Recent(request'[v])
    <2>1. \A v \in Workers : request'[v] = r \/ request'[v] = request[v]
      BY DEF IInv, TypeOK
    <2> QED BY <2>1 DEF IInv, SeenRecently
  <1> QED BY <1>1, <1>2, <1>3, Keeps
-----------------------------------------------------------------------------
(* The actions. *)

LEMMA IdleIsRequest == Idle \in Request /\ Idle.at = "idle" /\ Idle.seen = NotSeen
  <1>1. -1 \in -1..MaxInstances
    BY QuotasAssumption
  <1>2. NotSeen \in [Plans -> -1..MaxInstances]
    BY <1>1 DEF NotSeen
  <1>3. (CHOOSE p \in Plans : TRUE) \in Plans
    BY QuotasAssumption
  <1> QED BY <1>2, <1>3 DEF Request, Idle

LEMMA Sends ==
  ASSUME IInv, NEW w \in Workers, NEW p \in Plans, NEW q \in Plans, NEW op \in {"create", "update"},
         Send(w, op, p, q), op = "update" => counts[p] > Cardinality(Updating(p))
  PROVE  IInv'
  <1> DEFINE r == [at |-> "lock", op |-> op, from |-> p, to |-> q, seen |-> NotSeen]
  <1>1. r \in Request
    <2>1. -1 \in -1..MaxInstances
      BY QuotasAssumption
    <2>2. NotSeen \in [Plans -> -1..MaxInstances]
      BY <2>1 DEF NotSeen
    <2> QED BY <2>2 DEF Request
  <1>2. request' = [request EXCEPT ![w] = r] /\ UNCHANGED <<quotas, counts, lock>> /\ request[w].at = "idle"
        /\ counts[q] + Arriving[q] < MaxInstances /\ (op = "update" => counts[p] > Leaving[p])
    BY DEF Send, Arriving, Leaving
  <1>3. r.at = "lock" /\ r.op = op /\ r.from = p /\ r.to = q /\ r.seen = NotSeen
    OBVIOUS
  <1> HIDE DEF r
  <1>4. Room'
    <2> SUFFICES ASSUME NEW x \in Plans
                 PROVE  counts[x] + Arriving'[x] <= MaxInstances /\ Leaving'[x] <= counts[x]
      BY <1>2 DEF Room
    <2>1. Arriving'[x] = Arriving[x] - One(To(request[w], x)) + One(To(r, x))
      BY <1>1, <1>2, Moves DEF IInv
    <2>2. Leaving'[x] = Leaving[x] - One(From(request[w], x)) + One(From(r, x))
      BY <1>1, <1>2, Moves DEF IInv
    <2>3. Arriving'[x] = Arriving[x] + (IF x = q THEN 1 ELSE 0)
      BY <1>2, <1>3, <2>1, Counts DEF One, To
    <2>4. Leaving'[x] = Leaving[x] + (IF op = "update" /\ x = p THEN 1 ELSE 0)
      BY <1>2, <1>3, <2>2, Counts DEF One, From
    <2>5. counts[x] + Arriving[x] <= MaxInstances /\ Leaving[x] <= counts[x]
      BY DEF IInv, Room
    <2>6. MaxInstances \in Nat /\ counts[x] \in Nat
      BY QuotasAssumption, Numbers DEF IInv
    <2> QED BY <1>2, <2>3, <2>4, <2>5, <2>6, Counts
  <1>5. CountsLocked'
    BY <1>2, <1>3 DEF IInv, TypeOK, CountsLocked
  <1>6. lock' \in Workers \cup {NoWorker}
    BY <1>2 DEF IInv, TypeOK
  <1> QED BY <1>1, <1>2, <1>3, <1>4, <1>5, <1>6, KeepsOthers DEF Recent, New

LEMMA Acquires ==
  ASSUME IInv, NEW w \in Workers, Acquire(w)
  PROVE  IInv'
  <1>1. request[w] \in Request /\ request[w].at = "lock" /\ request[w].seen = NotSeen
    BY DEF IInv, TypeOK, Acquire, SeenRecently, Recent
  <1>2. \A v \in Workers : request[v].at # "count"
    BY QuotasAssumption DEF IInv, CountsLocked, Acquire
  <1>3. CASE validateQuotasForUpdate(w)
    <2> DEFINE r == [request[w] EXCEPT !.at = "count"]
    <2>1. r \in Request /\ r.at = "count" /\ r.op = request[w].op /\ r.from = request[w].from
          /\ r.to = request[w].to /\ r.seen = NotSeen
      BY <1>1 DEF Request
    <2>2. request' = [request EXCEPT ![w] = r] /\ lock' = w /\ UNCHANGED <<quotas, counts>>
      BY <1>3 DEF Acquire
    <2> HIDE DEF r
    <2>3. Room'
      BY <1>1, <2>1, <2>2, Same DEF IInv, To, From
    <2>4. CountsLocked'
      BY <1>2, <2>2 DEF IInv, TypeOK, CountsLocked
    <2>5. Recent(r)
      BY <2>1 DEF Recent, NotSeen
    <2> QED BY <2>1, <2>2, <2>3, <2>4, <2>5, KeepsOthers DEF New
  <1>4. CASE ~validateQuotasForUpdate(w)
    <2> DEFINE r == [request[w] EXCEPT !.at = "accepted"]
    <2>1. r \in Request /\ r.at = "accepted" /\ r.op = request[w].op /\ r.from = request[w].from
          /\ r.to = request[w].to
      BY <1>1 DEF Request
    <2>2. request' = [request EXCEPT ![w] = r] /\ UNCHANGED <<quotas, counts, lock>>
      BY <1>4 DEF Acquire
    <2>3. r.op = "update" /\ r.from = r.to
      BY <1>4, <2>1 DEF validateQuotasForUpdate
    <2> HIDE DEF r
    <2>4. Room'
      BY <1>1, <2>1, <2>2, Same DEF IInv, To, From
    <2>5. CountsLocked'
      BY <1>2, <2>1, <2>2 DEF IInv, TypeOK, CountsLocked
    <2>6. lock' \in Workers \cup {NoWorker} /\ Recent(r)
      BY <2>1, <2>2 DEF IInv, TypeOK, Recent
    <2> QED BY <2>1, <2>2, <2>3, <2>4, <2>5, <2>6, KeepsOthers DEF New
  <1> QED BY <1>3, <1>4

LEMMA CountsInstances ==
  ASSUME IInv, NEW w \in Workers, NEW p \in Plans, CountInstancesOfServiceOffering(w, p)
  PROVE  IInv'
  <1> DEFINE r == [request[w] EXCEPT !.seen[p] = counts[p]]
  <1>1. request[w] \in Request /\ request[w].at = "count" /\ counts[p] \in 0..MaxInstances
    BY DEF IInv, TypeOK, CountInstancesOfServiceOffering
  <1>2. request' = [request EXCEPT ![w] = r] /\ UNCHANGED <<quotas, counts, lock>>
    BY DEF CountInstancesOfServiceOffering
  <1>3. counts[p] \in -1..MaxInstances
    BY <1>1
  <1>4. r \in Request /\ r.at = "count" /\ r.op = request[w].op /\ r.from = request[w].from
        /\ r.to = request[w].to /\ r.seen = [request[w].seen EXCEPT ![p] = counts[p]]
    BY <1>1, <1>3 DEF Request
  <1> HIDE DEF r
  <1>5. Instances[p] <= counts[p] + Slack
    <2>1. Unrecorded(p) \subseteq Workers \ {w}
      BY <1>1 DEF Unrecorded
    <2>2. IsFiniteSet(Workers \ {w}) /\ Cardinality(Workers \ {w}) = Slack
      BY QuotasAssumption, FS_RemoveElement DEF Slack
    <2>3. Waiting[p] <= Slack
      BY <2>1, <2>2, FS_Subset DEF Waiting
    <2> QED BY <2>3, Counts, Numbers, SlackIsNat DEF IInv
  <1>6. Recent(r)
    <2>1. request[w].seen \in [Plans -> -1..MaxInstances]
      BY <1>1 DEF Request
    <2> SUFFICES ASSUME NEW q \in Plans, r.seen[q] # -1 PROVE Instances[q] <= r.seen[q] + Slack
      BY <1>4 DEF Recent
    <2>2. CASE q = p
      BY <1>4, <1>5, <2>1, <2>2
    <2>3. CASE q # p
      BY <1>1, <1>4, <2>1, <2>3 DEF IInv, SeenRecently, Recent
    <2> QED BY <2>2, <2>3
  <1>7. Room'
    BY <1>1, <1>2, <1>4, Same DEF IInv, To, From
  <1>8. CountsLocked'
    BY <1>1, <1>2 DEF IInv, TypeOK, CountsLocked
  <1>9. lock' \in Workers \cup {NoWorker}
    BY <1>2 DEF IInv, TypeOK
  <1> QED BY <1>2, <1>4, <1>6, <1>7, <1>8, <1>9, KeepsOthers DEF New

LEMMA Refuses ==
  ASSUME IInv, NEW w \in Workers, Refuse(w)
  PROVE  IInv'
  <1>1. Idle \in Request /\ Idle.at = "idle"
    BY IdleIsRequest
  <1>2. request' = [request EXCEPT ![w] = Idle] /\ lock' = NoWorker /\ UNCHANGED <<quotas, counts>>
        /\ request[w].at = "count"
    BY DEF Refuse
  <1>3. Room'
    BY <1>1, <1>2, Same DEF IInv, To, From
  <1>4. CountsLocked'
    BY <1>1, <1>2 DEF IInv, TypeOK, CountsLocked
  <1> QED BY <1>1, <1>2, <1>3, <1>4, KeepsOthers DEF New, Recent

\* An accepted request is one more instance of its plan, within the limits.
LEMMA Accepts ==
  ASSUME IInv, NEW w \in Workers, Accept(w)
  PROVE  IInv'
  <1> DEFINE r == [request[w] EXCEPT !.at = "accepted"]
             seen == request[w].seen
             to == request[w].to
  <1>1. request[w] \in Request /\ request[w].at = "count" /\ lock = w
        /\ (\A p \in Plans : seen[p] # -1) /\ checkQuotas(to, seen)
    BY DEF IInv, TypeOK, Accept, CountsLocked
  <1>2. request' = [request EXCEPT ![w] = r] /\ lock' = NoWorker /\ UNCHANGED <<quotas, counts>>
    BY DEF Accept
  <1>3. r \in Request /\ r.at = "accepted" /\ r.op = request[w].op /\ r.from = request[w].from /\ r.to = to
    BY <1>1 DEF Request
  <1>4. to \in Plans /\ seen \in [Plans -> -1..MaxInstances]
    BY <1>1 DEF Request
  <1>5. \A p \in Plans : Instances[p] <= seen[p] + Slack
    BY <1>1 DEF IInv, SeenRecently, Recent
  <1> HIDE DEF r
  <1>6. \A v \in Workers : request'[v].at # "count"
    <2>1. \A v \in Workers \ {w} : request'[v] = request[v]
      BY <1>2 DEF IInv, TypeOK
    <2>2. request'[w] = r
      BY <1>2 DEF IInv, TypeOK
    <2> QED BY <1>1, <1>3, <2>1, <2>2 DEF IInv, CountsLocked
  <1>7. TypeOK'
    BY <1>2, <1>3 DEF IInv, TypeOK, quotas
  <1>8. CountsLocked'
    BY <1>6 DEF CountsLocked
  <1>9. Room'
    BY <1>1, <1>2, <1>3, Same DEF IInv, To, From
  <1>10. SeenRecently'
    <2>1. \A v \in Workers : request'[v].at = "lock" => request'[v].seen = NotSeen
      BY <1>2, <1>3 DEF IInv, TypeOK, SeenRecently, Recent
    <2> QED BY <1>6, <2>1 DEF SeenRecently, Recent, NotSeen
  <1>11. ASSUME NEW p \in Plans, p # to PROVE Instances'[p] <= Instances[p]
    <2>1. Waiting'[p] = Waiting[p] - One(New(request[w], p)) + One(New(r, p))
      BY <1>2, <1>3, Moves DEF IInv
    <2>2. Waiting'[p] <= Waiting[p]
      BY <1>3, <1>11, <2>1, Counts DEF One, New
    <2> QED BY <1>2, <2>2, Counts, CountsNext, Numbers DEF IInv
  <1>12. Instances'[to] <= Instances[to] + 1
    <2>1. Waiting'[to] = Waiting[to] - One(New(request[w], to)) + One(New(r, to))
      BY <1>2, <1>3, <1>4, Moves DEF IInv
    <2>2. Waiting'[to] <= Waiting[to] + 1
      BY <1>4, <2>1, Counts DEF One
    <2>3. counts'[to] = counts[to] /\ counts[to] \in Nat
      BY <1>2, <1>4, Numbers DEF IInv
    <2>4. Waiting[to] \in Nat /\ Waiting'[to] \in Nat
      BY <1>4, Counts, CountsNext
    <2>5. Instances[to] = counts[to] + Waiting[to] /\ Instances'[to] = counts'[to] + Waiting'[to]
      BY <1>4, Counts, CountsNext
    <2> QED BY <2>2, <2>3, <2>4, <2>5
  <1>13. seen[to] \in Nat /\ Slack \in Nat /\ Instances[to] \in Nat /\ Instances'[to] \in Nat /\ cost[to] \in Nat
    <2>1. MaxInstances \in Nat /\ seen[to] \in -1..MaxInstances /\ seen[to] # -1
      BY <1>1, <1>4, QuotasAssumption
    <2>2. seen[to] \in Nat
      BY <2>1
    <2> QED BY <1>4, <1>7, <2>2, SlackIsNat, Numbers, NumbersNext DEF IInv
  <1>14. Instances'[to] <= (seen[to] + 1) + Slack
    BY <1>4, <1>5, <1>12, <1>13
  <1>15. Slack' = Slack /\ planLimit' = planLimit /\ planResources' = planResources /\ cost' = cost
    BY <1>2 DEF Slack, quotas
  <1>16. PlanLimitKept'
    <2> SUFFICES ASSUME NEW p \in Plans, planLimit[p] # NoLimit PROVE Instances'[p] <= planLimit[p] + Slack
      BY <1>15 DEF PlanLimitKept
    <2>1. planLimit[p] \in Nat
      BY QuotasAssumption DEF IInv, TypeOK
    <2>2. Instances[p] <= planLimit[p] + Slack
      BY DEF IInv, PlanQuotasKept, PlanLimitKept
    <2>3. CASE p # to
      BY <1>7, <1>11, <1>13, <2>1, <2>2, <2>3, Numbers, NumbersNext DEF IInv
    <2>4. CASE p = to
      <3>1. ~(seen[to] >= planLimit[to])
        BY <1>1, <2>4 DEF checkQuotas, checkPlanServiceCount
      <3> QED BY <1>13, <1>14, <2>1, <2>4, <3>1
    <2> QED BY <2>3, <2>4
  <1>17. PlanResourcesKept'
    <2> SUFFICES ASSUME NEW p \in Plans, planResources[p] # 0
                 PROVE  cost[p] * Instances'[p] <= planResources[p] + cost[p] * Slack
      BY <1>15 DEF PlanResourcesKept
    <2>1. planResources[p] \in Nat
      BY QuotasAssumption DEF IInv, TypeOK
    <2>2. CASE p # to
      <3>1. cost[p] * Instances[p] <= planResources[p] + cost[p] * Slack
        BY DEF IInv, PlanQuotasKept, PlanResourcesKept
      <3>2. cost[p] * Instances'[p] <= cost[p] * Instances[p]
        BY <1>7, <1>11, <2>2, Product, Numbers, NumbersNext DEF IInv
      <3> DEFINE a == cost[p] * Instances'[p]
                 b == cost[p] * Instances[p]
                 c == cost[p] * Slack
      <3>3. a \in Int /\ b \in Int /\ c \in Int
        BY <1>7, <1>13, Numbers, NumbersNext DEF IInv
      <3>4. a <= b /\ b <= planResources[p] + c
        BY <3>1, <3>2
      <3> HIDE DEF a, b, c
      <3>5. a <= planResources[p] + c
        BY <2>1, <3>3, <3>4
      <3> QED BY <3>5 DEF a, c
    <2>3. CASE p = to
      <3> DEFINE a == cost[to] * Instances'[to]
                 b == cost[to] * (seen[to] + 1 + Slack)
                 c == cost[to] * Slack
                 d == cost[to] * seen[to]
      <3>1. ~(d + cost[to] > planResources[to])
        BY <1>1, <2>3 DEF checkQuotas, checkPlanResourceQuotaNotExceeded
      <3>2. a <= b
        BY <1>13, <1>14, Product
      <3>3. b = d + cost[to] + c
        BY <1>13
      <3>4. a \in Int /\ b \in Int /\ c \in Int /\ d \in Int
        BY <1>13
      <3> HIDE DEF a, b, c, d
      <3>5. a <= planResources[to] + c
        BY <1>13, <2>1, <2>3, <3>1, <3>2, <3>3, <3>4
      <3> QED BY <2>3, <3>5 DEF a, c
    <2> QED BY <2>2, <2>3
  <1> QED BY <1>7, <1>8, <1>9, <1>10, <1>16, <1>17 DEF IInv, PlanQuotasKept

LEMMA Records ==
  ASSUME IInv, NEW w \in Workers, Record(w)
  PROVE  IInv'
  <1> DEFINE from == request[w].from
             to   == request[w].to
  <1>1. request[w] \in Request /\ request[w].at = "accepted" /\ from \in Plans /\ to \in Plans
    BY DEF IInv, TypeOK, Record, Request
  <1>2. Idle \in Request /\ Idle.at = "idle"
    BY IdleIsRequest
  <1>3. request' = [request EXCEPT ![w] = Idle] /\ UNCHANGED <<quotas, lock>>
    BY DEF Record
  <1>4. ASSUME NEW p \in Plans
        PROVE  /\ Arriving'[p] = Arriving[p] - One(p = to)
               /\ Leaving'[p] = Leaving[p] - One(request[w].op = "update" /\ p = from)
               /\ Waiting'[p] = Waiting[p] - One(New(request[w], p))
    <2>1. /\ Arriving'[p] = Arriving[p] - One(To(request[w], p)) + One(To(Idle, p))
          /\ Leaving'[p] = Leaving[p] - One(From(request[w], p)) + One(From(Idle, p))
          /\ Waiting'[p] = Waiting[p] - One(New(request[w], p)) + One(New(Idle, p))
      BY <1>2, <1>3, Moves DEF IInv
    <2>2. ~To(Idle, p) /\ ~From(Idle, p) /\ ~New(Idle, p)
      BY <1>2 DEF To, From, New
    <2>3. (To(request[w], p) <=> p = to) /\ (From(request[w], p) <=> request[w].op = "update" /\ p = from)
      BY <1>1 DEF To, From
    <2>4. One(To(request[w], p)) = One(p = to)
          /\ One(From(request[w], p)) = One(request[w].op = "update" /\ p = from)
      BY <2>3 DEF One
    <2>5. One(New(request[w], p)) \in Int
      BY DEF One
    <2>6. One(p = to) \in Int /\ One(request[w].op = "update" /\ p = from) \in Int
      BY DEF One
    <2>7. One(To(Idle, p)) = 0 /\ One(From(Idle, p)) = 0 /\ One(New(Idle, p)) = 0
      BY <2>2 DEF One
    <2> QED BY <2>1, <2>4, <2>5, <2>6, <2>7, Counts
  <1>5. ASSUME NEW p \in Plans
        PROVE  /\ counts[p] \in Nat /\ MaxInstances \in Nat /\ counts[p] + Arriving[p] <= MaxInstances
               /\ Leaving[p] <= counts[p] /\ Arriving[p] \in Nat /\ Leaving[p] \in Nat /\ Waiting[p] \in Nat
               /\ Arriving'[p] \in Nat /\ Leaving'[p] \in Nat /\ Waiting'[p] \in Nat
    BY QuotasAssumption, Numbers, Counts, CountsNext DEF IInv, Room
  \* What becomes of the counts, and that every plan has as many instances as before at most.
  <1>6. /\ counts' \in [Plans -> 0..MaxInstances]
        /\ \A p \in Plans : /\ counts'[p] + Arriving'[p] <= MaxInstances /\ Leaving'[p] <= counts'[p]
                            /\ counts'[p] + Waiting'[p] <= counts[p] + Waiting[p]
    <2>1. counts \in [Plans -> 0..MaxInstances]
      BY DEF IInv, TypeOK
    <2>2. CASE request[w].op = "create" /\ counts' = [counts EXCEPT ![to] = @ + 1]
      <3>1. ASSUME NEW p \in Plans PROVE counts'[p] = counts[p] + One(p = to)
        BY <1>5, <2>1, <2>2 DEF One
      <3>2. ASSUME NEW p \in Plans PROVE New(request[w], p) <=> p = to
        BY <1>1, <2>2 DEF New
      <3>3. ASSUME NEW p \in Plans
            PROVE  /\ counts'[p] \in 0..MaxInstances
                   /\ counts'[p] + Arriving'[p] <= MaxInstances /\ Leaving'[p] <= counts'[p]
                   /\ counts'[p] + Waiting'[p] <= counts[p] + Waiting[p]
        BY <1>4, <1>5, <2>2, <3>1, <3>2 DEF One
      <3>4. counts' = [p \in Plans |-> counts'[p]]
        BY <2>1, <2>2
      <3> QED BY <3>3, <3>4
    <2>3. CASE request[w].op = "update" /\ counts' = [[counts EXCEPT ![from] = @ - 1] EXCEPT ![to] = @ + 1]
      <3>1. ASSUME NEW p \in Plans PROVE counts'[p] = counts[p] - One(p = from) + One(p = to)
        BY <1>1, <1>5, <2>1, <2>3 DEF One
      <3>2. ASSUME NEW p \in Plans PROVE New(request[w], p) <=> p = to /\ from # p
        BY <1>1, <2>3 DEF New
      <3>3. ASSUME NEW p \in Plans
            PROVE  /\ counts'[p] \in 0..MaxInstances
                   /\ counts'[p] + Arriving'[p] <= MaxInstances /\ Leaving'[p] <= counts'[p]
                   /\ counts'[p] + Waiting'[p] <= counts[p] + Waiting[p]
        <4>1. counts'[p] = counts[p] - One(p = from) + One(p = to)
              /\ Arriving'[p] = Arriving[p] - One(p = to) /\ Leaving'[p] = Leaving[p] - One(p = from)
              /\ Waiting'[p] = Waiting[p] - One(p = to /\ from # p)
          BY <1>4, <2>3, <3>1, <3>2 DEF One
        <4>2. /\ counts[p] \in Nat /\ MaxInstances \in Nat /\ counts[p] + Arriving[p] <= MaxInstances
              /\ Leaving[p] <= counts[p] /\ Arriving[p] \in Nat /\ Leaving[p] \in Nat /\ Waiting[p] \in Nat
              /\ Arriving'[p] \in Nat /\ Leaving'[p] \in Nat /\ Waiting'[p] \in Nat
          BY <1>5
        <4>3. CASE p = from /\ p = to
          BY <4>1, <4>2, <4>3 DEF One
        <4>4. CASE p = from /\ p # to
          BY <4>1, <4>2, <4>4 DEF One
        <4>5. CASE p # from
          BY <4>1, <4>2, <4>5 DEF One
        <4> QED BY <4>3, <4>4, <4>5
      <3>4. counts' = [p \in Plans |-> counts'[p]]
        BY <2>1, <2>3
      <3> QED BY <3>3, <3>4
    <2>4. CASE request[w].op = "update" /\ UNCHANGED counts
      <3>1. ASSUME NEW p \in Plans
            PROVE  /\ counts[p] + Arriving'[p] <= MaxInstances /\ Leaving'[p] <= counts[p]
                   /\ counts[p] + Waiting'[p] <= counts[p] + Waiting[p]
        BY <1>4, <1>5 DEF One
      <3> QED BY <2>1, <2>4, <3>1
    <2> QED BY <2>2, <2>3, <2>4 DEF Record
  <1>7. TypeOK'
    BY <1>2, <1>3, <1>6 DEF IInv, TypeOK, quotas
  <1>8. Room'
    BY <1>6 DEF Room
  <1>9. CountsLocked'
    BY <1>2, <1>3 DEF IInv, TypeOK, CountsLocked
  <1>10. \A p \in Plans : Instances'[p] <= Instances[p]
    BY <1>6, Counts, CountsNext
  <1>11. \A v \in Workers : Recent(request'[v])
    <2>1. \A v \in Workers : request'[v] = Idle \/ request'[v] = request[v]
      BY <1>3 DEF IInv, TypeOK
    <2>2. Recent(Idle)
      BY <1>2 DEF Recent
    <2> QED BY <2>1, <2>2 DEF IInv, SeenRecently
  <1> QED BY <1>3, <1>7, <1>8, <1>9, <1>10, <1>11, Keeps

LEMMA Deletes ==
  ASSUME IInv, NEW p \in Plans, DeleteInstance(p)
  PROVE  IInv'
  <1>1. counts[p] > Leaving[p] /\ counts' = [counts EXCEPT ![p] = @ - 1] /\ UNCHANGED <<quotas, lock, request>>
    BY DEF DeleteInstance, Leaving
  <1>2. UNCHANGED <<Arriving, Leaving, Waiting>>
    BY <1>1 DEF Arriving, Leaving, Waiting, Towards, Updating, Unrecorded
  <1>3. ASSUME NEW q \in Plans
        PROVE  /\ counts'[q] \in 0..MaxInstances /\ counts'[q] <= counts[q]
               /\ counts'[q] + Arriving[q] <= MaxInstances /\ Leaving[q] <= counts'[q]
    <2>1. counts[q] \in Nat /\ MaxInstances \in Nat /\ counts[q] + Arriving[q] <= MaxInstances
          /\ Leaving[q] <= counts[q] /\ Arriving[q] \in Nat /\ Leaving[q] \in Nat
      BY QuotasAssumption, Numbers, Counts DEF IInv, Room
    <2>2. CASE q = p
      <3>1. counts'[q] = counts[q] - 1 /\ counts[q] > Leaving[q]
        BY <1>1, <2>2 DEF IInv, TypeOK
      <3> QED BY <2>1, <3>1
    <2>3. CASE q # p
      <3>1. counts'[q] = counts[q]
        BY <1>1, <2>3 DEF IInv, TypeOK
      <3> QED BY <2>1, <3>1
    <2> QED BY <2>2, <2>3
  <1>4. TypeOK'
    <2>1. counts' = [q \in Plans |-> counts'[q]]
      BY <1>1 DEF IInv, TypeOK
    <2> QED BY <1>1, <1>3, <2>1 DEF IInv, TypeOK, quotas
  <1>5. Room'
    BY <1>2, <1>3 DEF Room
  <1>6. CountsLocked' /\ \A v \in Workers : Recent(request'[v])
    BY <1>1 DEF IInv, CountsLocked, SeenRecently
  <1>7. \A q \in Plans : Instances'[q] <= Instances[q]
    BY <1>2, <1>3, <1>4, Counts, CountsNext, Numbers, NumbersNext DEF IInv
  <1> QED BY <1>1, <1>4, <1>5, <1>6, <1>7, Keeps
-----------------------------------------------------------------------------
LEMMA Starts == ASSUME Init PROVE IInv
  <1>1. Idle \in Request /\ Idle.at = "idle" /\ Idle.seen = NotSeen
    BY IdleIsRequest
  <1>2. TypeOK
    <2>1. 0 \in 0..MaxInstances
      BY QuotasAssumption
    <2> QED BY <1>1, <2>1 DEF Init, TypeOK
  <1>3. \A w \in Workers : request[w] = Idle
    BY DEF Init
  <1>4. ASSUME NEW p \in Plans
        PROVE  counts[p] = 0 /\ Arriving[p] = 0 /\ Leaving[p] = 0 /\ Waiting[p] = 0
    <2>1. Towards(p) = {} /\ Updating(p) = {} /\ Unrecorded(p) = {}
      BY <1>1, <1>3 DEF Towards, Updating, Unrecorded
    <2> QED BY <2>1, FS_EmptySet DEF Init, Arriving, Leaving, Waiting
  <1>5. Room /\ CountsLocked /\ SeenRecently
    BY <1>1, <1>3, <1>4, QuotasAssumption DEF Room, CountsLocked, SeenRecently, Recent
  <1>6. Slack \in Nat
    BY QuotasAssumption, SlackIsNat
  <1>7. ASSUME NEW p \in Plans PROVE Instances[p] = 0 /\ cost[p] \in Nat
    BY <1>2, <1>4, Counts, Numbers
  <1>8. PlanLimitKept
    <2> SUFFICES ASSUME NEW p \in Plans, planLimit[p] # NoLimit PROVE Instances[p] <= planLimit[p] + Slack
      BY DEF PlanLimitKept
    <2>1. planLimit[p] \in Nat
      BY <1>2, QuotasAssumption DEF TypeOK
    <2> QED BY <1>6, <1>7, <2>1
  <1>9. PlanResourcesKept
    <2> SUFFICES ASSUME NEW p \in Plans
                 PROVE  cost[p] * Instances[p] <= planResources[p] + cost[p] * Slack
      BY DEF PlanResourcesKept
    <2>1. planResources[p] \in Nat
      BY <1>2, QuotasAssumption DEF TypeOK
    <2>2. cost[p] * Instances[p] = 0 /\ cost[p] * Slack \in Nat
      BY <1>6, <1>7
    <2> QED BY <2>1, <2>2
  <1> QED BY <1>2, <1>5, <1>8, <1>9 DEF IInv, PlanQuotasKept

LEMMA Steps == ASSUME IInv, Next PROVE IInv'
  <1>1. CASE \E w \in Workers, p \in Plans : SendCreate(w, p)
    BY <1>1, Sends DEF SendCreate
  <1>2. CASE \E w \in Workers, p, q \in Plans : SendUpdate(w, p, q)
    BY <1>2, Sends DEF SendUpdate
  <1>3. CASE \E w \in Workers : Acquire(w)
    BY <1>3, Acquires
  <1>4. CASE \E w \in Workers, p \in Plans : CountInstancesOfServiceOffering(w, p)
    BY <1>4, CountsInstances
  <1>5. CASE \E w \in Workers : Accept(w)
    BY <1>5, Accepts
  <1>6. CASE \E w \in Workers : Refuse(w)
    BY <1>6, Refuses
  <1>7. CASE \E w \in Workers : Record(w)
    BY <1>7, Records
  <1>8. CASE \E p \in Plans : DeleteInstance(p)
    BY <1>8, Deletes
  <1> QED BY <1>1, <1>2, <1>3, <1>4, <1>5, <1>6, <1>7, <1>8 DEF Next

LEMMA Stutters == ASSUME IInv, UNCHANGED quotaVars PROVE IInv'
  <1>1. UNCHANGED <<Instances, planLimit, planResources, cost, Slack, NotSeen, Arriving, Leaving>>
    BY DEF quotaVars, quotas, Instances, Unrecorded, Slack, NotSeen, Arriving, Leaving, Towards, Updating
  <1>2. TypeOK' /\ CountsLocked'
    BY DEF IInv, TypeOK, CountsLocked, quotaVars, quotas
  <1>3. Room' /\ SeenRecently'
    BY <1>1 DEF IInv, Room, SeenRecently, Recent, quotaVars
  <1>4. PlanQuotasKept'
    BY <1>1 DEF IInv, PlanQuotasKept, PlanLimitKept, PlanResourcesKept
  <1> QED BY <1>2, <1>3, <1>4 DEF IInv

\* IInvHolds: handlers that count hold the lock (provision.go:41, update.go:94), so what they have
\* counted is behind by no more than the requests accepted before.
THEOREM IInvHolds == Spec => []IInv
  <1>1. IInv /\ [Next]_quotaVars => IInv'
    BY Steps, Stutters
  <1> QED BY <1>1, Starts, PTL DEF Spec

\* TypeCorrect: every variable stays in its domain.  In particular Cloud Foundry's counts never
\* go below 0, whatever updates and deletes it runs beside one another.
THEOREM TypeCorrect == Spec => []TypeOK
  BY IInvHolds, PTL DEF IInv

\* PlanQuotasHold: the limits of a plan on its instances and on their resources (quotas.go:65,
\* quotas.go:124) are exceeded by no more than the other requests under way.
THEOREM PlanQuotasHold == Spec => []PlanQuotasKept
  BY IInvHolds, PTL DEF IInv
-----------------------------------------------------------------------------
(***************************************************************************)
(* The global limit.  Here all plans count together, and what moves from   *)
(* one plan to another may be missed in both: counted in neither or, being *)
(* counted in both, hide a third one.                                      *)
(***************************************************************************)

\* An accepted request that still adds to a plan.
Mover(r)  == r.at = "accepted" /\ (r.op = "update" => r.from # r.to)
Movers    == {w \in Workers : Mover(request[w])}
Creator(r) == r.at = "accepted" /\ r.op = "create"

\* The instances n of those plans that were counted (s).
Among(s, n) == [p \in Plans |-> IF s[p] = -1 THEN 0 ELSE n[p]]

\* In the plans counted so far there are more instances than were seen only as far as other
\* requests were recorded meanwhile; those that still wait to be recorded can add no more than that.
Behind(r)  == r.at = "count" => TotalOf(Among(r.seen, counts)) + Cardinality(Movers) <= TotalOf(r.seen) + Slack
TotalSeen  == \A w \in Workers : Behind(request[w])

\* The inductive invariant of the global limit.
GInv == IInv /\ TotalSeen /\ GlobalLimitKept
-----------------------------------------------------------------------------
(* Sums over the plans. *)

Tallies  == [Plans -> -1..MaxInstances + 1]
Units(f) == UNION {{p} \X (1..f[p]) : p \in Plans}

\* What is in the set whose size is the sum.
LEMMA UnitsAre ==
  ASSUME NEW f \in Tallies
  PROVE  Units(f) = {u \in Plans \X (1..MaxInstances + 1) : u[2] <= f[u[1]]}
  <1>1. MaxInstances \in Nat
    BY QuotasAssumption
  <1>2. \A p \in Plans : f[p] \in -1..MaxInstances + 1
    BY DEF Tallies
  <1>3. ASSUME NEW p \in Plans, NEW k \in 1..f[p]
        PROVE  k \in 1..MaxInstances + 1 /\ k <= f[p]
    BY <1>1, <1>2
  <1>4. ASSUME NEW p \in Plans, NEW k \in 1..MaxInstances + 1, k <= f[p]
        PROVE  k \in 1..f[p]
    BY <1>1, <1>2, <1>4
  <1>5. ASSUME NEW u \in Units(f)
        PROVE  u \in {v \in Plans \X (1..MaxInstances + 1) : v[2] <= f[v[1]]}
    <2>1. PICK p \in Plans : u \in {p} \X (1..f[p])
      BY DEF Units
    <2>2. u = <<p, u[2]>> /\ u[1] = p /\ u[2] \in 1..f[p]
      BY <2>1
    <2> QED BY <1>3, <2>2
  <1>6. ASSUME NEW u \in Plans \X (1..MaxInstances + 1), u[2] <= f[u[1]]
        PROVE  u \in Units(f)
    <2>1. u[1] \in Plans /\ u[2] \in 1..f[u[1]] /\ u = <<u[1], u[2]>>
      BY <1>4, <1>6
    <2> QED BY <2>1 DEF Units
  <1> QED BY <1>5, <1>6

\* It is finite.
LEMMA UnitsFinite ==
  ASSUME NEW f \in Tallies
  PROVE  IsFiniteSet(Units(f)) /\ TotalOf(f) = Cardinality(Units(f)) /\ TotalOf(f) \in Nat
  <1>1. IsFiniteSet(1..MaxInstances + 1)
    <2>1. 1 \in Int /\ MaxInstances + 1 \in Int
      BY QuotasAssumption
    <2> QED BY <2>1, FS_Interval
  <1>2. IsFiniteSet(Plans \X (1..MaxInstances + 1))
    BY <1>1, QuotasAssumption, FS_Product
  <1>3. Units(f) \in SUBSET (Plans \X (1..MaxInstances + 1))
    BY UnitsAre
  <1>4. IsFiniteSet(Units(f))
    BY <1>2, <1>3, FS_Subset
  <1>5. TotalOf(f) = Cardinality(Units(f))
    BY DEF TotalOf, Units
  <1> QED BY <1>4, <1>5, FS_CardinalityType

\* Where nothing is larger the sum is not.
LEMMA NoLarger ==
  ASSUME NEW f \in Tallies, NEW g \in Tallies, \A p \in Plans : f[p] <= g[p]
  PROVE  TotalOf(f) <= TotalOf(g)
  <1>1. Units(f) \subseteq Units(g)
    <2>1. ASSUME NEW u \in Plans \X (1..MaxInstances + 1), u[2] <= f[u[1]]
          PROVE  u[2] <= g[u[1]]
      <3>1. u[1] \in Plans /\ u[2] \in Int
        BY QuotasAssumption
      <3>2. f[u[1]] \in Int /\ g[u[1]] \in Int /\ f[u[1]] <= g[u[1]]
        BY <3>1, QuotasAssumption DEF Tallies
      <3> QED BY <2>1, <3>1, <3>2
    <2> QED BY <2>1, UnitsAre
  <1> QED BY <1>1, UnitsFinite, FS_Subset

\* One plan that had nothing gets n.
LEMMA Fill ==
  ASSUME NEW f \in Tallies, NEW g \in Tallies, NEW q \in Plans, f[q] <= 0, g[q] >= 0,
         \A p \in Plans \ {q} : g[p] = f[p]
  PROVE  TotalOf(g) = TotalOf(f) + g[q]
  <1> DEFINE N == {q} \X (1..g[q])
  <1>1. MaxInstances \in Nat
    BY QuotasAssumption
  <1>2. f[q] \in Int /\ g[q] \in Nat /\ g[q] <= MaxInstances + 1
    BY <1>1 DEF Tallies
  <1>3. IsFiniteSet(N) /\ Cardinality(N) = g[q]
    <2>1. IsFiniteSet(1..g[q]) /\ Cardinality(1..g[q]) = g[q]
      BY <1>2, FS_Interval
    <2>2. IsFiniteSet({q}) /\ Cardinality({q}) = 1
      BY FS_Singleton
    <2>3. IsFiniteSet(N) /\ Cardinality(N) = Cardinality({q}) * Cardinality(1..g[q])
      BY <2>1, <2>2, FS_Product, Zenon
    <2>4. Cardinality(N) = 1 * g[q]
      BY <2>1, <2>2, <2>3, Zenon
    <2>5. 1 * g[q] = g[q]
      BY <1>2
    <2> QED BY <2>3, <2>4, <2>5, Zenon
  <1>4. Units(g) = Units(f) \cup N
    <2>1. ASSUME NEW u \in Units(g) PROVE u \in Units(f) \cup N
      <3>1. PICK p \in Plans : u \in {p} \X (1..g[p])
        BY DEF Units
      <3>2. CASE p = q
        BY <3>1, <3>2
      <3>3. CASE p # q
        <4>1. u \in {p} \X (1..f[p])
          BY <3>1, <3>3
        <4> QED BY <4>1 DEF Units
      <3> QED BY <3>2, <3>3
    <2>2. N \subseteq Units(g)
      BY DEF Units
    <2>3. ASSUME NEW u \in Units(f) PROVE u \in Units(g)
      <3>1. PICK p \in Plans : u \in {p} \X (1..f[p])
        BY DEF Units
      <3>2. p # q
        <4>1. 1..f[q] = {}
          BY <1>2
        <4> QED BY <3>1, <4>1
      <3>3. u \in {p} \X (1..g[p])
        BY <3>1, <3>2
      <3> QED BY <3>3 DEF Units
    <2> QED BY <2>1, <2>2, <2>3
  <1>5. Units(f) \cap N = {}
    <2> SUFFICES ASSUME NEW u \in Units(f), u \in N PROVE FALSE
      OBVIOUS
    <2>1. u[1] = q /\ u[2] \in 1..g[q]
      OBVIOUS
    <2>2. u[2] \in Int /\ u[2] >= 1
      BY <1>2, <2>1
    <2>3. u[2] <= f[q]
      BY <2>1, UnitsAre
    <2> QED BY <1>2, <2>2, <2>3
  <1>6. Cardinality(Units(f) \cup N) = Cardinality(Units(f)) + Cardinality(N) - Cardinality(Units(f) \cap N)
    BY <1>3, UnitsFinite, FS_Union
  <1>7. Cardinality(Units(f) \cap N) = 0
    BY <1>5, FS_EmptySet
  <1>8. TotalOf(g) = Cardinality(Units(g)) /\ TotalOf(f) = Cardinality(Units(f)) /\ TotalOf(f) \in Nat
    BY UnitsFinite
  <1> HIDE DEF N
  <1>9. TotalOf(g) = TotalOf(f) + g[q] - 0
    BY <1>3, <1>4, <1>6, <1>7, <1>8
  <1> QED BY <1>2, <1>8, <1>9

\* One plan gets one more.
LEMMA Raise ==
  ASSUME NEW f \in Tallies, NEW g \in Tallies, NEW q \in Plans, f[q] >= 0, g[q] = f[q] + 1,
         \A p \in Plans \ {q} : g[p] = f[p]
  PROVE  TotalOf(g) = TotalOf(f) + 1
  <1>1. PICK e : e = [f EXCEPT ![q] = 0]
    OBVIOUS
  <1>2. MaxInstances \in Nat /\ f[q] \in Nat /\ g[q] \in Nat
    BY QuotasAssumption DEF Tallies
  <1>3. e \in Tallies /\ e[q] = 0 /\ \A p \in Plans \ {q} : e[p] = f[p]
    BY <1>1, <1>2 DEF Tallies
  <1>4. TotalOf(f) = TotalOf(e) + f[q]
    BY <1>2, <1>3, Fill
  <1>5. TotalOf(g) = TotalOf(e) + g[q]
    BY <1>2, <1>3, Fill
  <1>6. TotalOf(e) \in Nat
    BY <1>3, UnitsFinite
  <1> QED BY <1>2, <1>4, <1>5, <1>6

\* Nothing anywhere makes nothing.
LEMMA Nothing ==
  ASSUME NEW f \in Tallies, \A p \in Plans : f[p] <= 0
  PROVE  TotalOf(f) = 0
  <1>1. Units(f) = {}
    <2> SUFFICES ASSUME NEW u \in Units(f) PROVE FALSE
      OBVIOUS
    <2>1. u[1] \in Plans /\ u[2] \in 1..MaxInstances + 1 /\ u[2] <= f[u[1]]
      BY UnitsAre
    <2>2. MaxInstances \in Nat /\ f[u[1]] \in Int /\ f[u[1]] <= 0
      BY <2>1, QuotasAssumption DEF Tallies
    <2> QED BY <2>1, <2>2
  <1> QED BY <1>1, UnitsFinite, FS_EmptySet
-----------------------------------------------------------------------------
(* The steps. *)

\* What is counted and seen can be summed.
LEMMA CanBeSummed ==
  ASSUME TypeOK
  PROVE  /\ counts \in Tallies
         /\ \A w \in Workers : request[w].seen \in Tallies /\ Among(request[w].seen, counts) \in Tallies
  <1>1. MaxInstances \in Nat
    BY QuotasAssumption
  <1>2. counts \in [Plans -> 0..MaxInstances]
    BY DEF TypeOK
  <1>3. \A n \in 0..MaxInstances : n \in -1..MaxInstances + 1
    BY <1>1
  <1>4. \A n \in -1..MaxInstances : n \in -1..MaxInstances + 1
    BY <1>1
  <1>5. 0 \in -1..MaxInstances + 1
    BY <1>1
  <1>6. counts \in Tallies
    BY <1>2, <1>3 DEF Tallies
  <1>7. ASSUME NEW w \in Workers PROVE request[w].seen \in Tallies
    <2>1. request[w].seen \in [Plans -> -1..MaxInstances]
      BY DEF TypeOK, Request
    <2> QED BY <1>4, <2>1 DEF Tallies
  <1>8. ASSUME NEW s PROVE Among(s, counts) \in Tallies
    BY <1>2, <1>3, <1>5 DEF Among, Tallies
  <1> QED BY <1>6, <1>7, <1>8

\* One worker's request changes from what it was to r.
LEMMA MoversChange ==
  ASSUME TypeOK, NEW w \in Workers, NEW r \in Request, request' = [request EXCEPT ![w] = r]
  PROVE  /\ Cardinality(Movers') = Cardinality(Movers) - One(Mover(request[w])) + One(Mover(r))
         /\ Cardinality(Created') = Cardinality(Created) - One(Creator(request[w])) + One(Creator(r))
         /\ Cardinality(Movers) \in Nat /\ Cardinality(Created) \in Nat
         /\ Cardinality(Movers') \in Nat /\ Cardinality(Created') \in Nat
  <1>1. request'[w] = r /\ \A v \in Workers \ {w} : request'[v] = request[v]
    BY DEF TypeOK
  <1>2. /\ Movers \in SUBSET Workers /\ Movers' \in SUBSET Workers
        /\ Created \in SUBSET Workers /\ Created' \in SUBSET Workers
    BY DEF Movers, Created
  <1>3. /\ \A v \in Workers \ {w} : v \in Movers <=> v \in Movers'
        /\ (w \in Movers <=> Mover(request[w])) /\ (w \in Movers' <=> Mover(r))
    BY <1>1 DEF Movers
  <1>4. /\ \A v \in Workers \ {w} : v \in Created <=> v \in Created'
        /\ (w \in Created <=> Creator(request[w])) /\ (w \in Created' <=> Creator(r))
    BY <1>1 DEF Created, Creator
  <1>5. Cardinality(Movers') = Cardinality(Movers) - One(Mover(request[w])) + One(Mover(r))
    BY <1>2, <1>3, Differ DEF One
  <1>6. Cardinality(Created') = Cardinality(Created) - One(Creator(request[w])) + One(Creator(r))
    BY <1>2, <1>4, Differ DEF One
  <1> QED BY <1>2, <1>5, <1>6, WorkersFinite

\* Creates that are accepted add to a plan.
LEMMA CreatedMove ==
  /\ Cardinality(Created) \in Nat /\ Cardinality(Movers) \in Nat
  /\ Cardinality(Created) <= Cardinality(Movers)
  <1>1. Created \subseteq Movers /\ Movers \in SUBSET Workers /\ Created \in SUBSET Workers
    BY DEF Created, Movers, Mover
  <1> QED BY <1>1, WorkersFinite, FS_Subset

\* A worker that counts is not among those that move.
LEMMA OthersMove ==
  ASSUME NEW w \in Workers, request[w].at # "accepted"
  PROVE  Cardinality(Movers) <= Slack
  <1>1. Movers \in SUBSET (Workers \ {w})
    BY DEF Movers, Mover
  <1>2. IsFiniteSet(Workers \ {w}) /\ Cardinality(Workers \ {w}) = Cardinality(Workers) - 1
    BY QuotasAssumption, FS_RemoveElement
  <1> QED BY <1>1, <1>2, FS_Subset DEF Slack

\* A step that changes one request and neither what is counted nor who moves.
LEMMA Quiet ==
  ASSUME GInv, IInv', UNCHANGED <<quotas, counts>>, NEW w \in Workers, NEW r \in Request,
         request' = [request EXCEPT ![w] = r], Behind(r),
         Mover(r) <=> Mover(request[w]), Creator(r) <=> Creator(request[w])
  PROVE  GInv'
  <1>1. Cardinality(Movers') = Cardinality(Movers) /\ Cardinality(Created') = Cardinality(Created)
    <2>1. /\ Cardinality(Movers') = Cardinality(Movers) - One(Mover(request[w])) + One(Mover(r))
          /\ Cardinality(Created') = Cardinality(Created) - One(Creator(request[w])) + One(Creator(r))
          /\ Cardinality(Movers) \in Nat /\ Cardinality(Created) \in Nat
      BY MoversChange DEF GInv, IInv
    <2> QED BY <2>1 DEF One
  <1>2. Slack' = Slack /\ counts' = counts /\ globalLimit' = globalLimit
    BY DEF Slack, quotas
  <1>3. GlobalLimitKept'
    BY <1>1, <1>2 DEF GInv, GlobalLimitKept
  <1>4. TotalSeen'
    <2> SUFFICES ASSUME NEW v \in Workers, request'[v].at = "count"
                 PROVE  TotalOf(Among(request'[v].seen, counts')) + Cardinality(Movers')
                          <= TotalOf(request'[v].seen) + Slack'
      BY DEF TotalSeen, Behind
    <2>1. request'[v] = r \/ request'[v] = request[v]
      BY DEF GInv, IInv, TypeOK
    <2>2. Behind(request'[v])
      BY <2>1 DEF GInv, TotalSeen
    <2> QED BY <1>1, <1>2, <2>2 DEF Behind
  <1> QED BY <1>3, <1>4 DEF GInv

LEMMA SendsG ==
  ASSUME GInv, IInv', NEW w \in Workers, NEW p \in Plans, NEW q \in Plans, NEW op \in {"create", "update"},
         Send(w, op, p, q)
  PROVE  GInv'
  <1>1. PICK r : r = [at |-> "lock", op |-> op, from |-> p, to |-> q, seen |-> NotSeen]
    OBVIOUS
  <1>2. request' = [request EXCEPT ![w] = r] /\ UNCHANGED <<quotas, counts>> /\ request[w].at = "idle"
    BY <1>1 DEF Send
  <1>3. r \in Request
    BY <1>2 DEF GInv, IInv, TypeOK
  <1>4. r.at = "lock"
    BY <1>1
  <1> QED BY <1>2, <1>3, <1>4, Quiet DEF Behind, Mover, Creator

\* Who gets the lock has seen nothing yet, and is behind by the other requests.
LEMMA AcquiresG ==
  ASSUME GInv, IInv', NEW w \in Workers, Acquire(w)
  PROVE  GInv'
  <1>1. request[w] \in Request /\ request[w].at = "lock" /\ request[w].seen = NotSeen
    BY DEF GInv, IInv, TypeOK, Acquire, SeenRecently, Recent
  <1>2. CASE validateQuotasForUpdate(w)
    <2>1. PICK r : r = [request[w] EXCEPT !.at = "count"]
      OBVIOUS
    <2>2. request' = [request EXCEPT ![w] = r] /\ UNCHANGED <<quotas, counts>>
      BY <1>2, <2>1 DEF Acquire
    <2>3. r \in Request /\ r.at = "count" /\ r.seen = NotSeen
      BY <1>1, <2>1 DEF Request
    <2>4. Behind(r)
      <3>1. NotSeen \in Tallies /\ Among(NotSeen, counts) \in Tallies
        BY <1>1, CanBeSummed DEF GInv, IInv
      <3>2. \A p \in Plans : NotSeen[p] <= 0 /\ Among(NotSeen, counts)[p] <= 0
        BY DEF NotSeen, Among
      <3>3. TotalOf(NotSeen) = 0 /\ TotalOf(Among(NotSeen, counts)) = 0
        BY <3>1, <3>2, Nothing
      <3>4. Cardinality(Movers) <= Slack /\ Cardinality(Movers) \in Nat /\ Slack \in Nat
        BY <1>1, OthersMove, CreatedMove, SlackIsNat
      <3> QED BY <2>3, <3>3, <3>4 DEF Behind
    <2> QED BY <1>1, <2>2, <2>3, <2>4, Quiet DEF Mover, Creator
  <1>3. CASE ~validateQuotasForUpdate(w)
    <2>1. PICK r : r = [request[w] EXCEPT !.at = "accepted"]
      OBVIOUS
    <2>2. request' = [request EXCEPT ![w] = r] /\ UNCHANGED <<quotas, counts>>
      BY <1>3, <2>1 DEF Acquire
    <2>3. /\ r \in Request /\ r.at = "accepted"
          /\ r.op = request[w].op /\ r.from = request[w].from /\ r.to = request[w].to
      BY <1>1, <2>1 DEF Request
    <2>4. r.op = "update" /\ r.from = r.to
      BY <1>3, <2>3 DEF validateQuotasForUpdate
    <2> QED BY <1>1, <2>2, <2>3, <2>4, Quiet DEF Behind, Mover, Creator
  <1> QED BY <1>2, <1>3

\* A plan more is counted, as it is.
LEMMA CountsInstancesG ==
  ASSUME GInv, IInv', NEW w \in Workers, NEW p \in Plans, CountInstancesOfServiceOffering(w, p)
  PROVE  GInv'
  <1>1. request[w] \in Request /\ request[w].at = "count" /\ request[w].seen[p] = -1
    BY DEF GInv, IInv, TypeOK, CountInstancesOfServiceOffering
  <1>2. PICK s : s = request[w].seen
    OBVIOUS
  <1>3. PICK t : t = [s EXCEPT ![p] = counts[p]]
    OBVIOUS
  <1>4. PICK r : r = [request[w] EXCEPT !.seen = t]
    OBVIOUS
  <1>5. request' = [request EXCEPT ![w] = r] /\ UNCHANGED <<quotas, counts>>
    BY <1>2, <1>3, <1>4 DEF CountInstancesOfServiceOffering
  <1>6. s \in [Plans -> -1..MaxInstances] /\ r.seen = t /\ r.at = "count"
    BY <1>1, <1>2, <1>4 DEF Request
  <1>7. r \in Request /\ request'[w] = r
    BY <1>5 DEF GInv, IInv, TypeOK
  <1>8. Behind(r)
    <2>1. s \in Tallies /\ Among(s, counts) \in Tallies
      BY <1>2, CanBeSummed DEF GInv, IInv
    <2>2. t \in Tallies
      <3>1. counts[p] \in -1..MaxInstances + 1
        BY CanBeSummed DEF GInv, IInv, Tallies
      <3> QED BY <1>3, <2>1, <3>1 DEF Tallies
    <2>3. counts[p] \in Nat
      BY Numbers DEF GInv, IInv
    <2>4. t[p] = counts[p] /\ \A q \in Plans \ {p} : t[q] = s[q]
      BY <1>3, <1>6
    <2>5. s[p] = -1
      BY <1>1, <1>2
    <2>6. TotalOf(t) = TotalOf(s) + counts[p]
      <3>1. s[p] <= 0 /\ t[p] >= 0
        BY <2>3, <2>4, <2>5
      <3> QED BY <2>1, <2>2, <2>4, <3>1, Fill
    <2>7. Among(t, counts) \in Tallies
      BY <2>1, <2>3, <2>4, CanBeSummed DEF GInv, IInv, Among, Tallies
    <2>8. TotalOf(Among(t, counts)) = TotalOf(Among(s, counts)) + counts[p]
      <3>1. Among(s, counts)[p] = 0 /\ Among(t, counts)[p] = counts[p]
        BY <2>3, <2>4, <2>5 DEF Among
      <3>2. \A q \in Plans \ {p} : Among(t, counts)[q] = Among(s, counts)[q]
        BY <2>4 DEF Among
      <3>3. Among(s, counts)[p] <= 0 /\ Among(t, counts)[p] >= 0
        BY <2>3, <3>1
      <3> QED BY <2>1, <2>7, <3>1, <3>2, <3>3, Fill
    <2>9. TotalOf(Among(s, counts)) + Cardinality(Movers) <= TotalOf(s) + Slack
      BY <1>1, <1>2 DEF GInv, TotalSeen, Behind
    <2>10. TotalOf(Among(s, counts)) \in Nat /\ TotalOf(s) \in Nat /\ Cardinality(Movers) \in Nat /\ Slack \in Nat
      BY <2>1, UnitsFinite, CreatedMove, SlackIsNat
    <2> QED BY <1>6, <2>3, <2>6, <2>8, <2>9, <2>10 DEF Behind
  <1>9. Mover(r) = Mover(request[w]) /\ Creator(r) = Creator(request[w])
    BY <1>1, <1>6 DEF Mover, Creator
  <1> QED BY <1>5, <1>7, <1>8, <1>9, Quiet

LEMMA RefusesG ==
  ASSUME GInv, IInv', NEW w \in Workers, Refuse(w)
  PROVE  GInv'
  <1>1. request' = [request EXCEPT ![w] = Idle] /\ UNCHANGED <<quotas, counts>> /\ request[w].at = "count"
    BY DEF Refuse
  <1> QED BY <1>1, IdleIsRequest, Quiet DEF Behind, Mover, Creator

\* Accept: what was seen of all plans is below the limit, and there is no more than that, with the
\* requests that wait to be recorded, than the other requests are.  Nobody else counts.
LEMMA AcceptsG ==
  ASSUME GInv, IInv', NEW w \in Workers, Accept(w)
  PROVE  GInv'
  <1>1. /\ request[w] \in Request /\ request[w].at = "count"
        /\ \A p \in Plans : request[w].seen[p] # -1
        /\ checkQuotas(request[w].to, request[w].seen)
    BY DEF GInv, IInv, TypeOK, Accept
  <1>2. PICK r : r = [request[w] EXCEPT !.at = "accepted"]
    OBVIOUS
  <1>3. request' = [request EXCEPT ![w] = r] /\ UNCHANGED <<quotas, counts>>
    BY <1>2 DEF Accept
  <1>4. r \in Request /\ r.at = "accepted" /\ request'[w] = r
    BY <1>1, <1>2, <1>3 DEF Request, GInv, IInv, TypeOK
  <1>5. TotalSeen'
    <2>1. \A v \in Workers \ {w} : request'[v] = request[v] /\ request[v].at # "count"
      BY <1>1, <1>3, QuotasAssumption DEF GInv, IInv, TypeOK, CountsLocked
    <2> QED BY <1>4, <2>1 DEF TotalSeen, Behind
  <1>6. GlobalLimitKept'
    <2> SUFFICES ASSUME globalLimit # NoLimit
                 PROVE  TotalOf(counts) + Cardinality(Created') <= globalLimit + Slack
      BY <1>3 DEF GlobalLimitKept, Slack, quotas
    <2>1. Among(request[w].seen, counts) = counts
      BY <1>1 DEF Among, GInv, IInv, TypeOK
    <2>2. TotalOf(counts) + Cardinality(Movers) <= TotalOf(request[w].seen) + Slack
      BY <1>1, <2>1 DEF GInv, TotalSeen, Behind
    <2>3. ~(TotalOf(request[w].seen) >= globalLimit)
      BY <1>1 DEF checkQuotas, checkGlobalServiceCount
    <2>4. globalLimit \in Nat /\ Slack \in Nat
      BY QuotasAssumption, SlackIsNat DEF GInv, IInv, TypeOK
    <2>5. TotalOf(counts) \in Nat /\ TotalOf(request[w].seen) \in Nat
      BY CanBeSummed, UnitsFinite DEF GInv, IInv
    <2>6. /\ Cardinality(Created') <= Cardinality(Created) + 1 /\ Cardinality(Created) <= Cardinality(Movers)
          /\ Cardinality(Created') \in Nat /\ Cardinality(Created) \in Nat /\ Cardinality(Movers) \in Nat
      <3>1. Cardinality(Created') = Cardinality(Created) - One(Creator(request[w])) + One(Creator(r))
        BY <1>3, <1>4, MoversChange DEF GInv, IInv
      <3>2. Cardinality(Created') \in Nat
        BY <1>3, <1>4, MoversChange DEF GInv, IInv
      <3> QED BY <3>1, <3>2, CreatedMove DEF One
    <2> QED BY <2>2, <2>3, <2>4, <2>5, <2>6
  <1> QED BY <1>5, <1>6 DEF GInv

\* A step after which there is no more than before, in all and in the plans any request has counted.
LEMMA Recounts ==
  ASSUME GInv, IInv', UNCHANGED quotas,
         TotalOf(counts') + Cardinality(Created') <= TotalOf(counts) + Cardinality(Created),
         \A v \in Workers : request'[v].at = "count" =>
           /\ request'[v] = request[v]
           /\ TotalOf(Among(request[v].seen, counts')) + Cardinality(Movers')
                <= TotalOf(Among(request[v].seen, counts)) + Cardinality(Movers)
  PROVE  GInv'
  <1>1. Slack' = Slack /\ globalLimit' = globalLimit
    BY DEF Slack, quotas
  <1>2. GlobalLimitKept'
    <2> SUFFICES ASSUME globalLimit # NoLimit
                 PROVE  TotalOf(counts') + Cardinality(Created') <= globalLimit + Slack
      BY <1>1 DEF GlobalLimitKept
    <2>1. TotalOf(counts) + Cardinality(Created) <= globalLimit + Slack
      BY DEF GInv, GlobalLimitKept
    <2>2. TotalOf(counts) \in Nat /\ Cardinality(Created) \in Nat /\ Slack \in Int
      BY CanBeSummed, UnitsFinite, CreatedMove, WorkersFinite DEF GInv, IInv, Slack
    <2>3. TotalOf(counts') \in Nat
      <3>1. counts' \in Tallies
        BY QuotasAssumption DEF IInv, TypeOK, Tallies
      <3> QED BY <3>1, UnitsFinite
    <2>4. Cardinality(Created') \in Nat
      <3>1. Created' \in SUBSET Workers
        BY DEF Created
      <3> QED BY <3>1, WorkersFinite
    <2>5. globalLimit \in Nat
      BY QuotasAssumption DEF GInv, IInv, TypeOK
    <2> QED BY <2>1, <2>2, <2>3, <2>4, <2>5
  <1>3. TotalSeen'
    <2> SUFFICES ASSUME NEW v \in Workers, request'[v].at = "count"
                 PROVE  TotalOf(Among(request[v].seen, counts')) + Cardinality(Movers')
                          <= TotalOf(request[v].seen) + Slack
      BY <1>1 DEF TotalSeen, Behind
    <2>1. TotalOf(Among(request[v].seen, counts')) + Cardinality(Movers')
            <= TotalOf(Among(request[v].seen, counts)) + Cardinality(Movers)
      OBVIOUS
    <2>2. TotalOf(Among(request[v].seen, counts)) + Cardinality(Movers) <= TotalOf(request[v].seen) + Slack
      BY DEF GInv, TotalSeen, Behind
    <2>3. /\ TotalOf(Among(request[v].seen, counts)) \in Nat /\ TotalOf(request[v].seen) \in Nat
          /\ Cardinality(Movers) \in Nat /\ Slack \in Nat
      BY CanBeSummed, UnitsFinite, CreatedMove, SlackIsNat DEF GInv, IInv
    <2>4. Cardinality(Movers') \in Nat
      <3>1. Movers' \in SUBSET Workers
        BY DEF Movers
      <3> QED BY <3>1, WorkersFinite
    <2>5. TotalOf(Among(request[v].seen, counts')) \in Nat
      <3>1. request'[v].seen = request[v].seen
        OBVIOUS
      <3>2. Among(request[v].seen, counts') \in Tallies
        BY QuotasAssumption DEF IInv, TypeOK, Tallies, Among
      <3> QED BY <3>2, UnitsFinite
    <2> QED BY <2>1, <2>2, <2>3, <2>4, <2>5
  <1> QED BY <1>2, <1>3 DEF GInv

LEMMA DeletesG ==
  ASSUME GInv, IInv', NEW p \in Plans, DeleteInstance(p)
  PROVE  GInv'
  <1>1. counts' = [counts EXCEPT ![p] = @ - 1] /\ UNCHANGED <<quotas, request>>
    BY DEF DeleteInstance
  <1>2. Movers' = Movers /\ Created' = Created
    BY <1>1 DEF Movers, Created
  <1>3. counts \in Tallies /\ counts' \in Tallies
    BY CanBeSummed, QuotasAssumption DEF GInv, IInv, TypeOK, Tallies
  <1>4. \A q \in Plans : counts'[q] <= counts[q]
    BY <1>1, Numbers DEF GInv, IInv, TypeOK
  <1>5. TotalOf(counts') <= TotalOf(counts) /\ TotalOf(counts) \in Nat /\ TotalOf(counts') \in Nat
    BY <1>3, <1>4, NoLarger, UnitsFinite
  <1>6. ASSUME NEW v \in Workers
        PROVE  /\ TotalOf(Among(request[v].seen, counts')) <= TotalOf(Among(request[v].seen, counts))
               /\ TotalOf(Among(request[v].seen, counts')) \in Nat
               /\ TotalOf(Among(request[v].seen, counts)) \in Nat
    <2>1. Among(request[v].seen, counts) \in Tallies
      BY CanBeSummed DEF GInv, IInv
    <2>2. Among(request[v].seen, counts') \in Tallies
      BY <1>3, QuotasAssumption DEF Among, Tallies
    <2>3. \A q \in Plans : Among(request[v].seen, counts')[q] <= Among(request[v].seen, counts)[q]
      BY <1>4 DEF Among
    <2> QED BY <2>1, <2>2, <2>3, NoLarger, UnitsFinite
  <1>7. Cardinality(Movers) \in Nat /\ Cardinality(Created) \in Nat
    BY CreatedMove
  <1>8. TotalOf(counts') + Cardinality(Created') <= TotalOf(counts) + Cardinality(Created)
    BY <1>2, <1>5, <1>7
  <1>9. ASSUME NEW v \in Workers
        PROVE  TotalOf(Among(request[v].seen, counts')) + Cardinality(Movers')
                 <= TotalOf(Among(request[v].seen, counts)) + Cardinality(Movers)
    BY <1>2, <1>6, <1>7
  <1> QED BY <1>1, <1>8, <1>9, Recounts

\* One more instance of a plan is one more, at most, of what any request has counted.
LEMMA OneMore ==
  ASSUME TypeOK, TypeOK', NEW to \in Plans, NEW s,
         \A p \in Plans : counts'[p] <= counts[p] + One(p = to)
  PROVE  /\ TotalOf(Among(s, counts')) <= TotalOf(Among(s, counts)) + 1
         /\ TotalOf(Among(s, counts')) \in Nat /\ TotalOf(Among(s, counts)) \in Nat
  <1>1. PICK a : a = Among(s, counts)
    OBVIOUS
  <1>2. PICK b : b = Among(s, counts')
    OBVIOUS
  <1>3. PICK h : h = [a EXCEPT ![to] = @ + 1]
    OBVIOUS
  <1>4. MaxInstances \in Nat
    BY QuotasAssumption
  <1>5. ASSUME NEW p \in Plans
        PROVE  /\ a[p] \in 0..MaxInstances /\ b[p] \in 0..MaxInstances /\ b[p] <= a[p] + One(p = to)
    <2>1. counts[p] \in 0..MaxInstances /\ counts'[p] \in 0..MaxInstances
      BY DEF TypeOK
    <2>2. a[p] = (IF s[p] = -1 THEN 0 ELSE counts[p]) /\ b[p] = (IF s[p] = -1 THEN 0 ELSE counts'[p])
      BY <1>1, <1>2 DEF Among
    <2>3. counts'[p] <= counts[p] + One(p = to)
      OBVIOUS
    <2> QED BY <1>4, <2>1, <2>2, <2>3 DEF One
  <1>6. a = [p \in Plans |-> a[p]] /\ b = [p \in Plans |-> b[p]]
    BY <1>1, <1>2 DEF Among
  <1>7. \A n \in 0..MaxInstances : n \in -1..MaxInstances + 1 /\ n + 1 \in -1..MaxInstances + 1
    BY <1>4
  <1>8. a \in Tallies
    <2>1. a \in [Plans -> -1..MaxInstances + 1]
      BY <1>5, <1>6, <1>7
    <2> QED BY <2>1 DEF Tallies
  <1>9. b \in Tallies
    <2>1. b \in [Plans -> -1..MaxInstances + 1]
      BY <1>5, <1>6, <1>7
    <2> QED BY <2>1 DEF Tallies
  <1>10. h \in Tallies /\ h[to] = a[to] + 1 /\ \A p \in Plans \ {to} : h[p] = a[p]
    BY <1>3, <1>5, <1>7, <1>8 DEF Tallies
  <1>11. TotalOf(h) = TotalOf(a) + 1
    <2>1. a[to] >= 0
      BY <1>4, <1>5
    <2> QED BY <1>8, <1>10, <2>1, Raise
  <1>12. TotalOf(b) <= TotalOf(h)
    <2>1. ASSUME NEW p \in Plans PROVE b[p] <= h[p]
      <3>1. CASE p = to
        BY <1>4, <1>5, <1>10, <3>1 DEF One
      <3>2. CASE p # to
        BY <1>4, <1>5, <1>10, <3>2 DEF One
      <3> QED BY <3>1, <3>2
    <2> QED BY <1>9, <1>10, <2>1, NoLarger
  <1>13. TotalOf(a) \in Nat /\ TotalOf(b) \in Nat /\ TotalOf(h) \in Nat
    BY <1>8, <1>9, <1>10, UnitsFinite
  <1>14. TotalOf(b) <= TotalOf(a) + 1
    BY <1>11, <1>12, <1>13
  <1> QED BY <1>1, <1>2, <1>13, <1>14

\* A record of Cloud Foundry's: what it adds to a plan was accepted and waited for it.
LEMMA RecordsG ==
  ASSUME GInv, IInv', NEW w \in Workers, Record(w)
  PROVE  GInv'
  <1> DEFINE from == request[w].from
             to   == request[w].to
  <1>1. request[w] \in Request /\ request[w].at = "accepted" /\ from \in Plans /\ to \in Plans
    BY DEF GInv, IInv, TypeOK, Record, Request
  <1>2. Idle \in Request /\ Idle.at = "idle"
    BY IdleIsRequest
  <1>3. request' = [request EXCEPT ![w] = Idle] /\ UNCHANGED <<quotas, lock>>
    BY DEF Record
  <1>4. \A v \in Workers : request'[v].at = "count" => request'[v] = request[v]
    BY <1>2, <1>3 DEF GInv, IInv, TypeOK
  <1>5. /\ Cardinality(Movers') = Cardinality(Movers) - One(Mover(request[w]))
        /\ Cardinality(Created') = Cardinality(Created) - One(request[w].op = "create")
        /\ Cardinality(Movers) \in Nat /\ Cardinality(Created) \in Nat
        /\ Cardinality(Movers') \in Nat /\ Cardinality(Created') \in Nat
    <2>1. /\ Cardinality(Movers') = Cardinality(Movers) - One(Mover(request[w])) + One(Mover(Idle))
          /\ Cardinality(Created') = Cardinality(Created) - One(Creator(request[w])) + One(Creator(Idle))
          /\ Cardinality(Movers) \in Nat /\ Cardinality(Created) \in Nat
          /\ Cardinality(Movers') \in Nat /\ Cardinality(Created') \in Nat
      BY <1>2, <1>3, MoversChange DEF GInv, IInv
    <2>2. One(Mover(Idle)) = 0 /\ One(Creator(Idle)) = 0
      BY <1>2 DEF Mover, Creator, One
    <2>3. One(Creator(request[w])) = One(request[w].op = "create")
      BY <1>1 DEF Creator, One
    <2>4. One(Mover(request[w])) \in Int /\ One(request[w].op = "create") \in Int
      BY DEF One
    <2> QED BY <2>1, <2>2, <2>3, <2>4
  <1>6. counts \in Tallies /\ counts' \in Tallies /\ counts \in [Plans -> 0..MaxInstances]
    BY CanBeSummed, QuotasAssumption DEF GInv, IInv, TypeOK, Tallies
  <1>7. \A p \in Plans : counts[p] \in Nat
    BY Numbers DEF GInv, IInv
  <1>8. TotalOf(counts) \in Nat
    BY <1>6, UnitsFinite
  <1>9. CASE request[w].op = "create" /\ counts' = [counts EXCEPT ![to] = @ + 1]
    <2>1. counts'[to] = counts[to] + 1 /\ \A p \in Plans \ {to} : counts'[p] = counts[p]
      BY <1>1, <1>6, <1>9
    <2>2. TotalOf(counts') = TotalOf(counts) + 1
      <3>1. counts[to] >= 0
        BY <1>1, <1>7
      <3> QED BY <1>1, <1>6, <2>1, <3>1, Raise
    <2>3. One(Mover(request[w])) = 1 /\ One(request[w].op = "create") = 1
      BY <1>1, <1>9 DEF Mover, One
    <2>4. TotalOf(counts') + Cardinality(Created') <= TotalOf(counts) + Cardinality(Created)
      BY <1>5, <1>8, <2>2, <2>3
    <2>5. \A p \in Plans : counts'[p] <= counts[p] + One(p = to)
      BY <1>7, <2>1 DEF One
    <2>6. ASSUME NEW v \in Workers
          PROVE  TotalOf(Among(request[v].seen, counts')) + Cardinality(Movers')
                   <= TotalOf(Among(request[v].seen, counts)) + Cardinality(Movers)
      <3>1. /\ TotalOf(Among(request[v].seen, counts')) <= TotalOf(Among(request[v].seen, counts)) + 1
            /\ TotalOf(Among(request[v].seen, counts')) \in Nat /\ TotalOf(Among(request[v].seen, counts)) \in Nat
        BY <1>1, <2>5, OneMore DEF GInv, IInv
      <3> QED BY <1>5, <2>3, <3>1
    <2> QED BY <1>3, <1>4, <2>4, <2>6, Recounts
  <1>10. CASE /\ request[w].op = "update" /\ from # to
              /\ counts' = [[counts EXCEPT ![from] = @ - 1] EXCEPT ![to] = @ + 1]
    <2>1. PICK g : g = [counts EXCEPT ![from] = @ - 1]
      OBVIOUS
    <2>2. /\ g[from] = counts[from] - 1 /\ \A p \in Plans \ {from} : g[p] = counts[p]
          /\ counts'[to] = g[to] + 1 /\ \A p \in Plans \ {to} : counts'[p] = g[p]
      BY <1>1, <1>6, <1>10, <2>1
    <2>3. counts[from] \in Nat /\ counts[from] >= 1 /\ counts[from] <= MaxInstances /\ MaxInstances \in Nat
      <3>1. counts'[from] \in 0..MaxInstances /\ counts'[from] = counts[from] - 1
        BY <1>1, <1>10, <2>2 DEF IInv, TypeOK
      <3>2. counts[from] \in 0..MaxInstances
        BY <1>1, <1>6
      <3> QED BY <3>1, <3>2, QuotasAssumption
    <2>4. g \in Tallies
      <3>1. g[from] \in -1..MaxInstances + 1
        BY <2>2, <2>3
      <3> QED BY <1>6, <2>1, <2>2, <3>1 DEF Tallies
    <2>5. TotalOf(counts) = TotalOf(g) + 1
      <3>1. g[from] >= 0 /\ counts[from] = g[from] + 1
        BY <2>2, <2>3
      <3> QED BY <1>1, <1>6, <2>2, <2>4, <3>1, Raise
    <2>6. TotalOf(counts') = TotalOf(g) + 1
      <3>1. g[to] >= 0
        BY <1>1, <1>7, <1>10, <2>2
      <3> QED BY <1>1, <1>6, <2>2, <2>4, <3>1, Raise
    <2>7. One(Mover(request[w])) = 1 /\ One(request[w].op = "create") = 0
      BY <1>1, <1>10 DEF Mover, One
    <2>8. TotalOf(counts') + Cardinality(Created') <= TotalOf(counts) + Cardinality(Created)
      BY <1>5, <1>8, <2>5, <2>6, <2>7
    <2>9. \A p \in Plans : counts'[p] <= counts[p] + One(p = to)
      <3> SUFFICES ASSUME NEW p \in Plans PROVE counts'[p] <= counts[p] + One(p = to)
        OBVIOUS
      <3>1. g[p] <= counts[p] /\ g[p] \in Int
        BY <1>7, <2>2
      <3> QED BY <1>7, <2>2, <3>1 DEF One
    <2>10. ASSUME NEW v \in Workers
           PROVE  TotalOf(Among(request[v].seen, counts')) + Cardinality(Movers')
                    <= TotalOf(Among(request[v].seen, counts)) + Cardinality(Movers)
      <3>1. /\ TotalOf(Among(request[v].seen, counts')) <= TotalOf(Among(request[v].seen, counts)) + 1
            /\ TotalOf(Among(request[v].seen, counts')) \in Nat /\ TotalOf(Among(request[v].seen, counts)) \in Nat
        BY <1>1, <2>9, OneMore DEF GInv, IInv
      <3> QED BY <1>5, <2>7, <3>1
    <2> QED BY <1>3, <1>4, <2>8, <2>10, Recounts
  <1>11. CASE UNCHANGED counts /\ request[w].op = "update"
    <2>1. One(request[w].op = "create") = 0 /\ One(Mover(request[w])) \in {0, 1}
      BY <1>11 DEF One
    <2>2. TotalOf(counts') + Cardinality(Created') <= TotalOf(counts) + Cardinality(Created)
      BY <1>5, <1>8, <1>11, <2>1
    <2>3. ASSUME NEW v \in Workers
          PROVE  TotalOf(Among(request[v].seen, counts')) + Cardinality(Movers')
                   <= TotalOf(Among(request[v].seen, counts)) + Cardinality(Movers)
      <3>1. TotalOf(Among(request[v].seen, counts)) \in Nat
        BY CanBeSummed, UnitsFinite DEF GInv, IInv
      <3>2. Cardinality(Movers') <= Cardinality(Movers)
        BY <1>5, <2>1
      <3> QED BY <1>5, <1>11, <3>1, <3>2
    <2> QED BY <1>3, <1>4, <2>2, <2>3, Recounts
  <1>12. CASE /\ request[w].op = "update" /\ from = to
              /\ counts' = [[counts EXCEPT ![from] = @ - 1] EXCEPT ![to] = @ + 1]
    <2>1. counts' = counts
      BY <1>1, <1>6, <1>7, <1>12
    <2> QED BY <1>11, <1>12, <2>1
  <1> QED BY <1>9, <1>10, <1>11, <1>12 DEF Record

LEMMA StartsG == ASSUME Init PROVE GInv
  <1>1. IInv
    BY Starts
  <1>2. TotalSeen
    BY IdleIsRequest DEF Init, TotalSeen, Behind
  <1>3. GlobalLimitKept
    <2> SUFFICES ASSUME globalLimit # NoLimit
                 PROVE  TotalOf(counts) + Cardinality(Created) <= globalLimit + Slack
      BY DEF GlobalLimitKept
    <2>1. counts \in Tallies /\ \A p \in Plans : counts[p] <= 0
      BY <1>1, CanBeSummed DEF IInv, Init
    <2>2. TotalOf(counts) = 0
      BY <2>1, Nothing
    <2>3. Created = {}
      BY IdleIsRequest DEF Init, Created
    <2>4. Cardinality(Created) = 0
      BY <2>3, FS_EmptySet
    <2>5. globalLimit \in Nat /\ Slack \in Nat
      BY <1>1, QuotasAssumption, SlackIsNat DEF IInv, TypeOK
    <2> QED BY <2>2, <2>4, <2>5
  <1> QED BY <1>1, <1>2, <1>3 DEF GInv

LEMMA StepsG == ASSUME GInv, IInv', Next PROVE GInv'
  <1>1. CASE \E w \in Workers, p \in Plans : SendCreate(w, p)
    BY <1>1, SendsG DEF SendCreate
  <1>2. CASE \E w \in Workers, p, q \in Plans : SendUpdate(w, p, q)
    BY <1>2, SendsG DEF SendUpdate
  <1>3. CASE \E w \in Workers : Acquire(w)
    BY <1>3, AcquiresG
  <1>4. CASE \E w \in Workers, p \in Plans : CountInstancesOfServiceOffering(w, p)
    BY <1>4, CountsInstancesG
  <1>5. CASE \E w \in Workers : Accept(w)
    BY <1>5, AcceptsG
  <1>6. CASE \E w \in Workers : Refuse(w)
    BY <1>6, RefusesG
  <1>7. CASE \E w \in Workers : Record(w)
    BY <1>7, RecordsG
  <1>8. CASE \E p \in Plans : DeleteInstance(p)
    BY <1>8, DeletesG
  <1> QED BY <1>1, <1>2, <1>3, <1>4, <1>5, <1>6, <1>7, <1>8 DEF Next

LEMMA StuttersG == ASSUME GInv, IInv', UNCHANGED quotaVars PROVE GInv'
  <1>1. UNCHANGED <<Movers, Created, Slack, counts, globalLimit, request>>
    BY DEF quotaVars, quotas, Movers, Created, Slack
  <1>2. GlobalLimitKept' /\ TotalSeen'
    BY <1>1 DEF GInv, GlobalLimitKept, TotalSeen, Behind
  <1> QED BY <1>2 DEF GInv

\* GInvHolds: what a request has seen of the plans it counted so far is behind what they have by no
\* more than the other requests (count_instances.go:15), in whatever order plans are counted.
THEOREM GInvHolds == Spec => []GInv
  <1>1. GInv /\ IInv' /\ [Next]_quotaVars => GInv'
    BY StepsG, StuttersG
  <1> QED BY <1>1, StartsG, IInvHolds, PTL DEF Spec

\* GlobalLimitHolds: the global limit on instances (quotas.go:73) is exceeded by no more than the
\* other requests under way, although plans are counted one after the other while instances move
\* between them.
THEOREM GlobalLimitHolds == Spec => []GlobalLimitKept
  BY GInvHolds, PTL DEF GInv
=============================================================================
