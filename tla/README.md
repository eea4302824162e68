# On-demand service broker: models and proofs

This directory holds TLA+ models of the on-demand service broker (ODB), the TLC
configurations that check them on small instances, and TLAPS proofs. Paths are
relative to `src/`.

The broker implements the Open Service Broker API on top of BOSH: every service
instance is a BOSH deployment, every operation on it a BOSH task or a chain of them.
The broker keeps no state of its own. Cloud Foundry (CF) and the errands of
`instanceiterator/` poll it, and each poll works out from BOSH's task list where an
operation stands and starts the next step of it. This is where the hard behaviour is:
handlers under a lock, polls without one, a director that queues tasks, calls that fail
half way, clients that give up, and restarts.

## 1. Inventory

| Component | State | Operations | Talks to | What makes it correct |
|---|---|---|---|---|
| Handlers: `broker/provision.go`, `update.go`, `upgrade.go`, `recreate.go`, `deprovision.go` | `deploymentLock`; the instance's BOSH configs, CredHub secrets and UAA client, all held elsewhere | five operations, each a sequence of external calls under the lock | BOSH, UAA, CredHub, CF | two handlers never have tasks run on a deployment together; what is accepted can be polled; deletion removes everything |
| `broker/last_operation.go`, `broker/lifecycle_runner.go` | none: the task list of a BOSH context id | a poll: find the step, start the next one, clean up after a delete | BOSH, CredHub | steps once, in order; the right verdict; always a verdict |
| Deployer: `task/task.go`, `task/manifest_generator.go` | none | create, update, upgrade, recreate | BOSH, service adapter | no deploy while a task is active; no unapplied changes on an update |
| BOSH client: `boshdirector/`, `boshlinks/` | none | start, list and look up tasks, configs, variables, links | director | states of errands corrected, tasks of a context found |
| Instance iterator: `instanceiterator/` | status of each instance, phase, attempt, list of failures | trigger, check, retry | broker (HTTP), CF | every instance once, no more than `max_in_flight`, canaries first, failures reported, an end |
| Quotas: `broker/quotas.go`, `broker/count_instances.go` | none; counts from CF | check before create and before a change of plan | CF | no limit is exceeded beyond what is accepted and not yet counted |
| Delete-all and purger: `deleter/`, `purger/`, `registrar/deregistrar.go` | none | disable access, delete bindings, keys and instances one by one, deregister | CF | success means nothing is left |
| Registration: `registrar/registrar.go` | none | create or update the broker, plan access | CF | can be run again after any failure |
| CF client: `cf/` | none | instances, plans, access, brokers | CF | paging complete, errors told apart |
| Decider: `broker/decider/` | none | update or upgrade | - | every request has one decision, the one the specification of `maintenance_info` demands |
| Bind, unbind: `broker/bind.go`, `unbind.go`, `credhubbroker/`, `credhub/` | credentials in CredHub | bind, unbind | service adapter, CredHub | no credentials left, none lost |
| Secrets: `manifestsecrets/` | secrets in CredHub | resolve, delete | CredHub | a deleted instance leaves none |
| UAA client: `uaa/client.go` | the instance's client | get, create, update, delete | UAA | one client per instance, none after it |
| Management API: `mgmtapi/`, `broker/orphan_deployments.go` | none | instances, upgrade, recreate, orphans, metrics | broker | errors told apart; orphans really are |
| Broker services client: `broker/services/` | none | the errands' side of both APIs | broker | answers told apart |
| Server, start-up: `apiserver/`, `brokerinitiator/`, `startupchecker/`, `network/` | none | start, check, stop | all | handlers end before the process does |
| Authorization: `authorizationheader/` | cached token | add a header | UAA | never an expired token |
| Catalog, schemas, service adapter, configuration, telemetry, logging, commands | none or read-only | build, parse, run, print | - | - |

The hazards that follow from this, each at its line and with the property that would
catch it, are in `PROJECT.json`.

## 2. Modules

Done:

| Module | Models | Extends |
|---|---|---|
| `BoshDirector` | tasks of one deployment, the director running them one at a time, the client's view of them | |
| `DeploymentOperations` | the five handlers call by call, the lock, the resources of an instance | `BoshDirector` |
| `ServiceBroker` | polls, clients, restarts; the whole system | `DeploymentOperations` |
| `ServiceOperation` | abstract specification: an operation is a chain of steps with one verdict | |
| `ServiceBrokerProperties` | properties of `ServiceBroker`, and the refinement of `ServiceOperation` | `ServiceBroker` |
| `MCServiceBroker` | symmetry for TLC | `ServiceBrokerProperties` |
| `ServiceBrokerProofs` | theorems | `ServiceBrokerProperties` |
| `ServiceOperationProofs` | theorems: the refinement of `ServiceOperation`, final deletions, what deployments need | `ServiceBrokerProofs` |
| `InstanceIterator` | upgrade-all and recreate-all | |
| `Quotas` | the four checks and the counts they rest on, under concurrent requests | |
| `CloudFoundry` | the broker's registration, access to plans, instances, bindings, keys, and users | |
| `Purger` | the errands that delete all instances, deregister, or purge | `CloudFoundry` |
| `Registrar` | the errand that registers the broker and sets the access to its plans | `CloudFoundry` |
| `Platform` | all errands on one Cloud Foundry, one after the other; their properties | `Purger`, `Registrar` |
| `MCPlatform` | configurations of the access for TLC | `Platform` |
| `PlatformProofs` | theorems | `Platform` |
| `InstanceIteratorProofs` | theorems | `InstanceIterator` |
| `QuotasProofs` | theorems | `Quotas` |
| `Versions` | plans, `maintenance_info`, the decider, pending changes, the upgrade errand and redeployments of the broker, for one instance | |
| `MCVersions` | three configurations for TLC | `Versions` |
| `VersionsProofs` | theorems | `Versions` |
| `Bindings` | bind and unbind: lock, adapter, CredHub, and Cloud Foundry that asks for them | |
| `Server` | the process: start, checks, serving, shutdown, with the requests of `Bindings` in it | `Bindings` |
| `ServerProofs` | theorems | `Server` |
| `OrphanDeployments` | the orphan errand's two lists beside creates, deletes and changes of plan | |
| `OrphanDeploymentsProofs` | theorems | `OrphanDeployments` |

Planned, in this order:

1. `MCUpgradeAll`: `InstanceIterator` composed with `Versions`, so that the answers the iterator gets
   are those of a broker whose instances users change meanwhile; today each module has the other one's
   behaviour as a nondeterministic answer.
2. BOSH link consumers of `boshdirector/links_api.go`, made and removed for a binding with DNS names.

A definition whose name carries a suffix after an underscore (`Acquire_WithoutLock`,
`isFinalState_CountsBusy`) is a deliberately wrong variant of the definition after
it. No specification uses it; it is what the properties were tested against:
put in the place of the right one, it makes TLC find the property violated.

## 3. The broker model

State and code:

- `tasks`, `lastTask`, `deployed`: the director's task list and deployment. A task has
  a kind, a context id (the request it belongs to, or none) and the number of the step
  it stands for. The real director runs the tasks of a deployment one at a time in
  its own order; so does `TaskStarts`. `ok` is the exit code of an errand: BOSH calls an
  errand whose script failed `done`, `fetchTaskState` corrects that (`get_tasks.go:73`)
  and `GetTask` does not.
- `configs`, `secrets`, `client`: whether the instance has BOSH configs, broker-managed
  secrets and a UAA client. Their contents do not matter to any property.
- `lock`: `deploymentLock`. `pc`: the next external call of a handler; `ProvisionCalls`,
  `UpdateCalls`... are the order of the calls, from the source. Every call is a step and
  may fail (`HandlerFails`), with the error path of that call.
- `poll`: what a goroutine serving `LastOperation` is about to do. Reading the tasks is
  a step; starting the errand or delete it leads to is another, so polls
  interleave with everything.
- `report`: the last answer a client got. `abandoned`: clients that stopped waiting;
  CF does this after a time-out or the maximum polling duration, and may then send
  a delete.
- `RestartBroker`: goroutines and the lock are gone, everything else stays.

Checks of the request alone (plan exists, parameters, maintenance info, quotas) come
before any state changes and are not part of this model. What a failed call of BOSH
did is abstracted to: it did nothing (`HandlerFails`), or it created its task and the
answer was lost (the failure after the deploy).

One instance is modelled: operations on different instances share only the lock.
CF runs one operation of an instance at a time (`MaySend`); the management API's
upgrade and recreate know nothing of that, which is where the handlers really compete.

Runs:

| Run | Shows |
|---|---|
| `post_deploy` | two post-deploy errands, four operations, one fault of any kind: `HandlerTasksExclusive`, `StepsInOrder`, `DeletionIsFinal`, `KeepsPromise` hold |
| `pre_delete` | two pre-delete errands, recreate and both deletes: `KeepsPromise`, and `DeploymentKeepsItsResources` |
| `answered` | liveness: an accepted operation whose client goes on polling gets a terminal answer, unless it was accepted with task id 0, or another request's delete took the deployment while it had steps left (`Stranded`) |
| `quick_errand` | the state of an errand that has just been started is read without its exit code, so an operation can be reported as succeeded although its errand failed; see the findings in `PROJECT.json` |

Seven further configurations are kept for running by hand (`tlc -config X.cfg MCServiceBroker.tla`):
`ClientLeftBehind.cfg` violates `DeletionDropsClient` (with pre-delete errands the answer to a delete comes before the
UAA client is removed, and nothing removes it later: `broker/deprovision.go:80`);
`UpgradeDuringDelete.cfg` violates `DeletionIsFinal` (an upgrade between the polls of a delete deploys the instance,
and the delete goes on: `broker/lifecycle_runner.go:123`);
`Resources.cfg` passes (three requests without faults: a deletion without pre-delete
errands leaves no UAA client); `DeleteWithoutTask.cfg` violates `AcceptedHasTask` (a delete
accepted with task id 0, which no poll accepts: `boshdirector/delete_deployment.go:27`);
`Unanswered.cfg` violates `AcceptedIsAlwaysAnswered` (`AcceptedIsAnswered` without the exception of `Stranded`): after a
delete, every poll of an upgrade that has an errand left tries to run it on a deployment that is gone
(`broker/lifecycle_runner.go:188`); with only deletes, one pre-delete errand and a client that gives up, as a comment in the file
says, the second of two deletes ends there too, since the first one's poll has deleted the deployment and task
id 0 is an error to the second (`broker/lifecycle_runner.go:133`);
`OrphanedDeployment.cfg` violates `GoneIsFinal` (a delete finds no deployment while the
create's deploy is still queued, and answers that the instance is gone:
`broker/deprovision.go:51`); `ConcurrentPolls.cfg` violates `StepsInOrder` (two overlapping
polls start an errand twice: `broker/lifecycle_runner.go:57`).

Bounds: two or three requests (an operation, a competitor, and a delete after both), two
pollers, six tasks (three for each of two operations), at most two errands (so
that "the next errand" and "the last errand" differ), one fault. The passing runs
restrict what clients do: `ConcurrentPolls = FALSE` (one poll of an operation at a time,
as CF does) and `QuickTasks = FALSE` (no errand ends within the two calls of the poll that starts it);
`ConcurrentPolls.cfg` and the run `quick_errand` show what happens without.

`answered` has two requests, one errand before a delete and one after a deploy, hence at most two tasks for each request
(`MaxTasks = 4`), and one fault: a call that fails, a client that gives up, or a restart. Its requests are of every type
except `update`, which is left out for time: beside another request it is an upgrade that waits for CF's other
operation. With it, the property holds as well, on 455,490 states.

Fairness: BOSH runs what it accepted, a goroutine runs, Go's mutex does not starve
its waiters, a client polls until it gets a terminal answer. Nothing forces a client
to send or give up, or a call to fail. Goroutines that wait for the lock get it by weak
fairness because every holder releases it and there are finitely many requests.

`KeepsPromise` is the refinement: the number of tasks under an operation's context id is
the number of steps started, the newest of them says how the step stands, and
the report is the verdict.

## 4. What is proved about the broker

`ServiceBrokerProofs` proves, for any number of requests, pollers, errands, tasks and faults:

- `TypeCorrect`: `Spec => []TypeOK`;
- `HandlersExclude`: `Spec => []HandlerTasksExclusive`;
- `IInvHolds`: `Spec => []IInv`, the inductive invariant behind both.

`HandlerTasksExclusive` is not inductive: that no other handler's task is active when one
is started follows from the check for tasks in progress some calls earlier, and from the
lock being held since. `IInv` therefore adds: a handler between its first call under
the lock and its answer holds the lock (`HoldsLock`); between the check and its own task, no
task started under the lock is active (`NothingRunning`); a task's context is a
request that has one (`ContextsKnown`); a poll never starts a first pre-delete errand, the only
task kind that handlers and polls both start (`PollsFollow`). `TypeInv` adds to `TypeOK` which
calls each type of operation can be about to make, without which the
next call need not exist. The proof has one lemma per handler call, one per kind of step of
a poll, and one each for the director and the clients. It assumes the `ASSUME`s of
the three modules and nothing else. `IInv` holds on the instances of `post_deploy` and
`pre_delete` under TLC as well.

`ServiceOperationProofs` proves, for `ConcurrentPolls = FALSE` and `QuickTasks = FALSE` and otherwise any
number of requests, pollers, errands, tasks and faults:

- `StepsFollow`: `Spec => []StepsInOrder`;
- `PromiseKept`: `Spec => KeepsPromise`, that the broker implements `ServiceOperation`;
- `OrderInvHolds`: `Spec => []OrderInv`, the inductive invariant behind both.

The assumptions are those without which `ConcurrentPolls.cfg` and `quick_errand` find
violations. A poll counts the tasks of its context id and starts a step some
calls later; nothing but the count says which. `OrderInv` therefore adds to `IInv`: whose tasks
there are (`TasksInv`: no context id before its handler has started a task, none of two operations); that
they form a chain (`ChainInv`: one task per step, numbered from the first, all but the newest passed);
and that what a poll has read still holds when it acts (`PollInv`: the step it is about to start is the
one after those that passed, the task it looks at runs, and it cleans up only after the last one), which needs that it is the only
poll of its operation (`PollsApart`). The proof looks at the tasks through a few functions (`Own`, `ActiveTasks`,
`PassedTasks`, `StepOf`): every action either leaves them alone, starts the next step of one operation (`Starts`),
ends a task (`Ends`), or fixes the steps of a new request (`Sent`); `Effect` is the disjunction.
Each of these is a step of `ServiceOperation` (`StartStep`, `EndStep`, `Request`), and an answer to a
client is its `Tell`.

The same module proves what becomes of the deployment, under the same two assumptions and others that
configurations show to be needed:

| Theorem | Property | Further assumptions |
|---|---|---|
| `DeletionsAreFinal` | `DeletionIsFinal` | `NoLateDeploys` |
| `ResourcesKept` | `DeploymentKeepsItsResources` | `NoLateDeploys`, `CreatesEnd` |
| `GoneStaysGone` | `GoneIsFinal` | `NoLateDeploys`, `CreatesEnd` |

`NoLateDeploys`: with pre-delete errands nothing updates or upgrades; `UpgradeDuringDelete.cfg` shows
why. Without pre-delete errands everything is allowed. `CreatesEnd`: there are no faults, or no create (the deployment, or
its absence, is what the model starts with). A create whose client gives up, whose last call fails or whose handler is
restarted after the deploy was queued is over for CF, which sends a delete; that delete finds no
deployment yet (`OrphanedDeployment.cfg`).

`FinalInvHolds` and `KeepInvHolds` are the inductive invariants. `FinalInv` is `OrderInv` with the clients and
the kinds of tasks. A create is the first request and the only create (`SentInv`); an update that
has found a manifest still has a deployment when it deploys (`StillDeployed`), since only delete tasks
take one away and none is active between its check and its deploy; a delete task is the last step of a
delete (`DeletesLast`); no deploy is active beside a delete task, after one is done, or while pre-delete
errands lead to one (`NoDeployBeside`); and a delete reported as successful had its task done, after which
nothing is deployed (`DeletedIsGone`). `DeletionIsFinal` speaks of reports only, which come long after
what makes them true: the middle three are what carries over the time between. `KeepInv` adds that
a deployment, there or queued, has its configs and secrets, and a handler about to deploy has provided them
(`Provided`); that whoever removes them is past any deploy: a poll cleans up for an operation that is still open
(`PollsOpen`), a handler for a deployment it did not find, while nobody is deploying it (`CleanedUp`), because
only a create deploys what does not exist (`CreatesDeploy`), and creates are over before a delete is
sent (`Unbroken`). TLC finds `KeepInv`, hence both, to hold on four instances that meet the assumptions: two without faults, of which
one has all six types of request, and two with every kind of fault and no creates; up to half a million states.

Only model-checked: `AcceptedIsAnswered` (liveness; fairness is out of the prover's reach).

## 5. The iterator model

`InstanceIterator` follows `iterator.go` and `iterator_state.go`. `pc` is the place
in `Iterate`: `register`, `attempt` (top of the loop over attempts), `loop` (top of
the loop over rounds), `trigger`, `poll`, `done`. Triggers and checks are steps
with any answer the two triggerers can translate; `LatestInstanceInfo` is part of
the trigger, its not-found answer is `instance-not-found`. Instances are visited by
number, as the code visits its list; states of the same name as in the code, except that
its `OperationInProgress` is called by its value `busy`.

| Run | Shows |
|---|---|
| `iterate` | three instances, none to two canaries, with and without selection, two in flight, two attempts: seven safety properties hold, and `Iterate` returns when it has at most one canary |
| `canary_spin` | a behaviour that contradicts the tests; see the finding |

Two configurations to run by hand: `FailedTrigger.cfg` violates `SucceededMeansProcessed` (an upgrade by CF whose
trigger is answered with a failed operation, or with one in a state the broker does not know, gets that state, but
no entry among the failures: `iterator.go:267`); `TooManyCanaries.cfg` violates `RetriesOnlyBusy`: without selection
parameters and with more canaries than instances the canary phase never counts as complete,
so all attempts are used up although nothing is busy (`iterator.go:199`).

Bounds: three instances allow two canaries and one other that waits; two in flight make
the third wait; two attempts are a first and a last one. Fairness: the iterator keeps
running, and an operation that is checked again and again has ended at some check (strong
fairness on a check that finds it ended): BOSH and CF end every operation.

`Strategy` says whom the iterator asks. BOSH: the broker's management API, whose answers
`ExtractOperationFrom` sorts by HTTP status. CF: Cloud Foundry's last operation, which may be
`failed` already when the trigger is answered, or in a state that `cf_triggerer.go:57` does not know. That
leaves the empty operation state (`UnknownToCF`), which is final and counts neither as success nor as failure;
`FailedTrigger.cfg` has both. `iterate` stays
with canary counts for which `RetriesOnlyBusy` is not disturbed, and
`Terminates` speaks of at most one canary; `canary_spin` shows why.

`InstanceIteratorProofs` proves, for any number of instances, canaries, attempts and operations in flight:

- `TypeCorrect`, `InFlightBounded` (`AtMostMaxInFlight`) and `NoneTwice` (`ProcessedOnce`), for both strategies;
- `FailuresListed` (`FailuresReported`), `SuccessIsReal` (`SucceededMeansProcessed`) and `CanariesGoFirst`
  (`CanariesPassFirst`), for `Strategy = "BOSH"`; with CF the first two do not hold.

None of them is inductive. The invariant behind them, `IInv`, says what the places of the loop owe to one
another. That no more than `MaxInFlight` run needs what is still to be triggered in a
round (`needed`) to fit into what is free (`InFlight`), and what is checked to be running (`Checking`). The
code computes what is free from the instances of the phase only, so it also needs that the canary phase
touches nothing but canaries (`OnlyCanaries`). That an end without error means all are done needs the attempts:
between two of them nothing is accepted or failed, and nothing not started (`BetweenAttempts`), so after the last one
what is not over is busy, which is an error. `Listing` ties the list of failures to the
states. The proof has one lemma per step of `Iterate`; it assumes `IteratorAssumption` (the bounds the
configurator enforces) and nothing else.

`RetriesAreForBusy` (`RetriesOnlyBusy`) holds for both strategies under `CanariesExist`: where canaries are not
selected by parameters, no more are asked for than there are instances, which `TooManyCanaries.cfg` shows to be needed. Its
invariant `BusyInv` adds that the canaries required can be had (`EnoughCanaries`; a selection that is too small lowers
their number, `iterator.go:195`) and that an attempt which comes back to the top of the loop leaves a busy
instance (`BusyIsLeft`): if all of the phase were over, the phase would be complete. Only
model-checked: `Terminates` (liveness).

## 6. The quota model

`Quotas` follows a create, or an update that changes the plan, from the moment CF sends
it: `lock` (waiting for `deploymentLock`), `count` (CF is asked for the number of instances
of each plan, one call per plan), then `Accept` or `Refuse`, and at last `Record`: CF
counts the instance, or moves it to its new plan if the update succeeded. The four checks
are translated as they stand, the wrong sum in the global resource check included. One
kind of resource stands for all, since the checks treat each on its own.

| Run | Shows |
|---|---|
| `quotas` | two workers, two plans, every combination of limits: `PlanQuotasKept` (`PlanLimitKept` and `PlanResourcesKept`) and `GlobalLimitKept` |
| `global_resources` | one worker: the global limit of a resource is exceeded (`quotas.go:100`) |

The limits cannot be kept exactly: an instance that was accepted is in no count until CF
records it. The properties allow for one instance per worker besides the one that is being
checked (`Slack`), and hold with that although plans are counted one after the other while
instances move between them: a change of plan needs the lock, so only a request accepted
before can be recorded during a count. Bounds: limits of 2 and at most four instances of
a plan, so that a limit can be met, and exceeded by the slack and by one more.

`QuotasProofs` proves `TypeCorrect` and `PlanQuotasHold` (`Spec => []PlanQuotasKept`) for any plans, limits,
costs and number of requests at a time. It assumes `QuotasAssumption`: there is a plan and a worker, and
limits and costs are natural numbers. The inductive invariant `IInv` adds to the two:

- `CountsLocked`: who counts holds `deploymentLock`;
- `SeenRecently`: a count that was taken is behind the instances a plan really has by at most the other requests.
  It is kept because, while the lock is held, nothing is accepted that adds to a plan; an update that keeps its plan
  passes the lock without a check and adds nothing;
- `Room`: updates away from a plan never outnumber its instances, since CF runs one operation of an instance at a
  time, and new ones fit the bound of the model. Without it a count could become negative.

`Accept` is the only step that adds to a plan, and it has the check at hand: seen instances are fewer than the limit,
hence those there are, with the new one, exceed it by `Slack` at most. The lemma `Moves` says what one worker's change
does to the numbers of requests.

`GlobalLimitHolds` (`Spec => []GlobalLimitKept`) has the same assumption and the invariant `GInv`. The global check adds up counts
that were taken one after the other, while instances that are already accepted are recorded and move between plans. A
bound for each plan is too weak here: every plan's count may be behind by the same requests, once for each plan.
`TotalSeen` is the bound on the sum: over the plans counted so far, the instances there are, together with the requests
that may still add one (`Movers`), exceed what was seen by at most the other requests. Recording a request then moves
one from the second summand to the first, whichever plan it is of. The sum is the size of a set
(`TotalOf`), so that the provers need no recursion; `Units` is the lemma set about it. No property of `quotas` is left
to TLC alone.

## 7. The errands model

`Platform` composes `Purger` and `Registrar` on one `CloudFoundry`. BOSH runs one errand at a
time, an operator may run any of them again, whatever came of the last one, and users go on.

State and code:

- `registered`, `public`, `visibilities`: what CF knows of the broker and of who may create
  instances of a plan. Closing a plan for everybody (`setAccessForPlan`) and taking it from single
  organizations (`deleteServicePlanVisibilities`) are different calls, and the purge makes only the
  first.
- `instances`: plan, last operation, bindings and keys. A user's operation and a delete that the
  errand sends are the same to CF, which refuses a second operation, and the delete of what is bound.
  The errand tells a delete from other operations and nothing more, and so does `Instance`.
- `errand.at`: the next call of `Deleter`, `Purger` and `Deregistrar`; `found`, `current`,
  `marks` are their local variables: the list being worked through, the instance in hand, its
  bindings or keys still to delete. `again` marks the second listing, which has to be empty.
  `known` is history: the instances there were when a deletion of all began.
- `registration.at`: the same for `RegisterBrokerRunner.Run`; `plans`, `plan` and `hide` are what is
  left of its loops. The code visits plans, instances and bindings in the order of its lists, the
  model in any order.
- A failing call (`CallFails`, `RegistrationFails`) ends the errand where it is, except in
  `deleteInProgress`, which the code answers with "not in progress", and in the poll, which
  goes on. A call that took effect but was answered with an error is the call, then the failure
  of the next one.

While a registration goes on users stand still: it neither reads nor changes an instance, so
what they do could as well happen before it or after it.

| Run | Shows |
|---|---|
| `errands` | two runs of any errands with a failing call anywhere: `PurgedMeansGone`, `DeletedMeansGone`, `RegisteredMeansConfigured`, `MovesOnWhenGone`, `AccessOnlyAsConfigured`, and that an errand ends |

Bounds: two instances (one in hand, one that is created, listed or missed meanwhile), two plans
(listing them is two calls), one binding and one key, two organizations, of which the
configurations swap, one failing call, two runs, from a broker that was never registered or was
registered with either configuration: so a run meets what an earlier configuration or a failed
run left behind. A purge after two failures meets no state that a purge after one does not.

Fairness: an errand makes its next call; CF ends every operation. A poll sees a delete that
failed (strong fairness), unless users sent it again; that they do this between any two polls for
ever is excluded. Nothing else is assumed of users.

`PlanChanges = FALSE`: users do not move instances between plans in this run. Instances are listed plan
by plan (`cf/service_instances.go:155`); one that moves between two of these calls is in no list, nor in
the final count, so `DeletedMeansGone` fails; `PlanMoves.cfg`, run by hand, shows it.
`PurgedMeansGone` does not depend on it, since CF refuses to drop a broker with instances.

Two more configurations to run by hand (`tlc -config X.cfg MCPlatform.tla`): `FailedDelete.cfg`
violates `FailedDeleteSentAgain` (a delete that failed before the errand looked is taken for one in progress, so the
errand waits for it and fails without having tried: `deleter/deleter.go:199`);
`PurgeKeepsVisibilities.cfg` violates `NoInstanceDuringPurge` (an organization that a plan is restricted to goes
on creating instances during a purge: `cf/client.go:262`). In both the errand fails in the end, and
another run of it may succeed.

`PlatformProofs` proves, for any plans, organizations, configurations, instances, bindings, keys,
faults and runs, plan changes included:

- `TypeCorrect`: `Spec => []TypeOK`;
- `RegisteredIsConfigured`: `Spec => []RegisteredMeansConfigured`;
- `PurgedIsGone`: `Spec => []PurgedMeansGone`;
- `NextWhenGone`: `Spec => MovesOnWhenGone`;
- `AccessIsConfigured`: `Spec => AccessOnlyAsConfigured`;
- `IInvHolds`: `Spec => []IInv`, the inductive invariant behind them;
- `AllDeleted`: `Spec => []DeletedMeansGone`, for `PlanChanges = FALSE` (see above).

That a registration's success means the right access needs to be known on the way: the plans that
are not in `registration.plans` any more are as configured, and the plan in hand is
public or not as configured, has the visibilities still to delete, then none (`RegistrationInv`,
`DoingPlan`). It says nothing of the access before, which is why an earlier run may have
stopped anywhere. A purge's success rests on what CF refuses: `NothingUnregistered` (without a broker
there is no access and no instance) is kept by users because they need access to create, and by
`DeregisterBroker` because a broker with instances stays. `OneErrand` keeps the two errands apart.
The proof has one lemma per kind of record change, one on types per module, and one on
each part of `IInv` that a module's steps can disturb. `AllDeleted` has an invariant of its own, `DeletionInv`: an
instance that was there when the deletion began keeps its plan, never comes back once it is gone, and while
the pages are read it is on the list or in a plan whose page is still to come. Only model-checked: `ErrandEnds`.

## 8. The version model

`Versions` has one instance and everybody who may change what is deployed for it: users (through CF), the
upgrade errand (past CF), and the operator who redeploys the broker with another configuration.

State and code:

- `config`: the configuration of the running broker; `catalog`: the one CF read the catalog of at the last
  registration. They differ between a redeployment and the registration after it.
- `instance`: CF's record, its plan, `maintenance_info` and whether the last operation succeeded. `deployed`, `task`:
  the manifest BOSH has and the one it is deploying. A manifest is its plan, the release it was generated from, the
  update block (which `ManifestsAreTheSame` ignores) and the parameters.
- `operation`: what CF waits for. `errandPlan`: the plan that the errand has read and not yet sent; `LatestInstanceInfo` and
  `ErrandUpgrades` are two calls.
- `generateMaintenanceInfo`, `DecideOperation` and what they call are functions of configuration, request
  and CF's record, translated as they stand: public maps are merged and compared, the digest of
  the private one tells which pairs there are, an empty result is none.
- An answer may fail after the deploy was queued (`Waits`: the dashboard or the UAA client, `broker/update.go:136`): CF records a
  failed operation, whose task runs on and may succeed.
- `DeployerUpdate` checks for pending changes with the plan on record, `DeployerUpgrade` does not; both
  refuse while a task is running.

| Run | Shows |
|---|---|
| `versions` | every request CF can send gets the decision that the specification asks for (`DecidesAsSpecified`), what CF has on record is deployed (`RecordedPlanIsDeployed`), an offered plan stays offered (`PlanStaysOffered`), an update brings no release (`UpdateKeepsRelease`), and the upgrade errand brings an instance up to date in the end (`EventuallyCurrent`) |

Three configurations to run by hand (`tlc -config X.cfg MCVersions.tla`): `StalePlan.cfg` violates
`RecordedPlanIsDeployed` when users' operations overlap with the errand's: the errand sends the plan it read before
the user's change of plan, and the deployment goes back to it while CF records the new one
(`broker/services/services.go:102`). `Overlap.cfg` passes: the next errand repairs it.
`PlanWithdrawn.cfg` violates `PlanStaysOffered` when the broker is redeployed during a change of plan, which the check
at start-up does not see. The run keeps these apart (`UpdatesDuringErrand`, `RestartsDuringUpdate` both `FALSE`).

Bounds: three configurations, of which the second has a new release, one plan that overrides the
offering's `maintenance_info` and one that inherits it, and another update block, and the third withdraws a plan and has
no `maintenance_info` at all: so every answer of the validation occurs. Three requests (create, and two that follow
each other), two redeployments. `CHECK_DEADLOCK FALSE`: requests and redeployments are used up.
Fairness: BOSH ends its tasks and does not fail for ever (strong fairness on `TaskEnds(TRUE)`), CF polls, the operator runs the
errand again, which is refused only while another task runs. Nothing forces users or the operator to redeploy.

Proved (`VersionsProofs`), for any set of plans, configurations and parameters and any number of requests and
redeployments: all safety properties of the run.

| Theorem | Property | Assumption |
|---|---|---|
| `TypeCorrect` | `TypeOK` | |
| `RecordIsDeployed` | `RecordedPlanIsDeployed` | `~UpdatesDuringErrand` |
| `RecordIsOffered` | `PlanStaysOffered` | `~RestartsDuringUpdate` |
| `Decided` | `DecidesAsSpecified` | |
| `ReleaseKept` | `UpdateKeepsRelease` | `~SkipCheckForPendingChanges` |

The first two assumptions are those without which `StalePlan.cfg` and `PlanWithdrawn.cfg` find the properties violated; the third
is a setting of the broker, with which updates are meant to bring releases. `NoneAssumption` says that the
value for "nothing" is not a manifest, a record or an operation. The inductive invariant `IInv` adds to the types:
`OperationInv`, what an operation's task deploys and what is deployed once it succeeded (`RecordedPlanIsDeployed` only
speaks of the time after it was recorded); `RecordInv`, that without one the errand carries the plan on record, and that
a failed operation, whose task may still run, is the only way to a deployment with another plan; `OfferInv`, that the plan of an operation is offered
before it is recorded. `DecidesAsSpecified` follows from the types alone, by cases of the request. Only
model-checked: `EventuallyCurrent`.

## 9. The binding and process model

`Bindings` has the bindings of one instance; `Server` puts its requests into the broker's process.

State and code:

- `handler`: goroutines that serve a bind or an unbind. `at` is the next call: `bind`, `unbind` (waiting for
  `bindLock`), `bindGather`, `unbindGather` (what is read from BOSH), `create`, `delete` (the service adapter), then
  without the lock `store`, `permit`, `forget` (CredHub). `Answers` is a return, with the deferred unlock.
- `adapter`, `stored`: what the service and CredHub know of a binding. A call that fails has had its effect
  or not, where that makes a difference.
- `record`: how CF sees the binding. It takes a failed or unanswered bind for an orphan and unbinds it until it hears that
  the binding is gone; a failed unbind leaves the binding as it was.
- `disturbed` is history: bindings that met one of four faults the code does not recover from. CF gave up
  waiting, so that a handler works on a binding nobody waits for; an unbind failed after the adapter had removed the
  binding, or was killed there, so that the next one is told there is no binding and never gets to
  CredHub (`credhubbroker/credhubbroker.go:119`); CredHub's own delete failed, which is only logged; the instance was
  deleted while orphans were being cleaned up.
- `main`, `stopper`, `signal`: the two goroutines of the process and the channel between the
  operating system and one of them. `Return` ends the process and every handler with it; so does `Crash`. The
  process is then started again.

| Run | Shows |
|---|---|
| `process` | two bindings, two goroutines, any call failing, give-ups, deletion, signals, crashes and restarts: `BoundIsUsable`, `GoneLeavesNothing`, `NoHandlerCut`, `SignalStopsProcess` |

`BoundIsUsable` has two parts. Of a binding that CF has for bound, (1) what the service knows with credentials has them in
CredHub, with no exception; (2) the service knows it, except if it is in `disturbed`: an unbind failed after
the adapter had removed the binding, the process was killed after that, or CF gave up waiting. (The
other two faults concern bindings that are never bound again.)

By hand (`tlc -config X.cfg Server.tla`): `LostBinding.cfg` violates the second part without exception, `BoundIsAlwaysUsable` (bind,
unbind, the adapter removes the binding and reports an error: CF keeps a binding that the service has forgotten);
`LeakedCredentials.cfg` violates `GoneLeavesNothing` without the exception of the four faults, `GoneAlwaysLeavesNothing`; `UnreadableCredentials.cfg` violates `BoundIsReadable` (the error of `AddPermission` is dropped, so an app is handed a binding
whose credentials it cannot read: `credhubbroker/credhubbroker.go:88`).

Bounds: two bindings and two goroutines compete for one lock, one waits while the other holds it, and one goroutine
can be left from a request CF gave up while the second works on the same binding. One more look-up of
the host than the first. Fairness: the process's two goroutines run on. Handlers need not end: an adapter
may hang for ever, and `SignalStopsProcess` holds because the shutdown has a limit.

`ServerProofs` proves `TypeCorrect` (with the lock held inside the inner broker and nowhere else), `BoundCanBeUsed`,
`NothingLeft` and `NobodyIsCut` for any bindings, goroutines and look-ups. The inductive invariant: of a binding that
is not disturbed, `Rests` says what the service and CredHub have of it by CF's record when no handler works on it, and `Fits` what
they have by the call a handler has come to; a request that is waited for is the only one of its binding
(`Requests`); while `main` or `stopper` say that nothing is served, nothing runs (`PInv`). Of an orphan the service knows as long
as CredHub does: this is why unbinding it gets to both, and what the four faults break.

The first part of `BoundIsUsable` speaks of disturbed bindings too, of which `IInv` says nothing. Its invariant is `Kept` (`KeptHolds`): no
bind is under way for a binding that CF has for bound or is unbinding, a bind that nobody waits for cannot become one,
and an unbind that is about to drop the credentials of such a binding has seen the adapter drop the binding. An
unbind that was given up may still do this beside a second one, which is why it is stated for every handler and not
only for those that are waited for. Only model-checked: `SignalStopsProcess`.

## 10. The orphan model

`OrphanDeployments` reads CF's instances plan by plan and page by page (`getInstances`, one step per page), then
BOSH's deployments, and reports those that are not among the former. `records` keeps the order of CF's pages, oldest
first: an instance that disappears moves the later ones forward, also past a page that was read. `throughout`, `forgotten`
and `shrunk` are history.

| Run | Shows |
|---|---|
| `orphans` | three instances, two plans, two to a page, one deployment of somebody else: what is an orphan while the errand runs is reported (`OrphansAreReported`), what CF knows throughout is not, unless its plan lost an instance between two pages (`InstancesAreNotReported`) |

By hand (`tlc -config X.cfg OrphanDeployments.tla`): `SlippedInstance.cfg` violates `NoneSlips`, the second part without that
exception; `FalseOrphan.cfg` violates `ReportedHasNoInstance` (an instance that was created between the two lists is reported).

Bounds: three instances on pages of two make a second page, which the removal of one shifts.
`CHECK_DEADLOCK FALSE`: ids are not used again, so instances are used up and a run of the errand is the last thing that
happens. There is no liveness: the errand is a straight line of calls.

`OrphanDeploymentsProofs` proves `TypeCorrect`, `OrphansReported` (`OrphansAreReported`) and `InstancesNotReported`
(`InstancesAreNotReported`) for any instances, plans and page sizes. The inductive invariant: a deployment without a record all
along stays, and is in no list read (`ForgottenStay`); an instance that is recorded all along has been read or is still to be, by
its place behind the pages that were read, unless its plan lost an instance (`NoneSkipped`, `StillToRead`). A removal
moves the later records of one plan to the front (`LosesOne`, from the lemma `RemoveAtPlaces`), which is
exactly the exception; a new record goes to the end of a list and disturbs no place.

## 11. What the models cover

About two thirds of the repository's implementation lines are generated fakes, test helpers and system tests; the
code that runs in production has some 12,000 lines. Of these the modules cover the operations, the client calls they are made of, and
the errands. What is a line of wiring, formatting, logging or decoding in a modelled function is
abstracted with the call it belongs to.

## 12. Not modelled

- Configuration, catalog (except `maintenance_info`), JSON schemas of parameters, manifests: parsed, validated and
  copied in one go, without state. `config/` checks a file once at start.
- Telemetry, metrics and logging: only written.
- Authorization headers (`authorizationheader/`): a cached token, read and replaced under one mutex; it
  is a comparison of times.
- The service adapter's program: what it may do to bindings and manifests is an input. That a child process
  outlives the broker is not modelled; it would show as a call whose effect comes after `Killed`.
- The lister that asks another HTTP service for the instances (`service/`): one request.
- HTTP clients: retries below the calls (`instanceiterator/configurator.go:140` re-sends a request up to five times; an
  operation that is sent twice is refused by the check for tasks in progress), redirects, TLS.
- `upgrade.go` and `update.go` get or create the UAA client before they know that the deployment exists; contents of
  the client are not modelled, nor that a deploy without a client definition in the configuration deletes the client an
  earlier one made (`broker/service_instance_client.go:28`). Of the properties only
  `DeletionDropsClient`, checked by hand, speaks of the client.
- A delete whose plan is not in the catalog has no pre-delete errands (`broker/deprovision.go:78`), as a plan without any.
- The director's state `cancelling`, which like `processing` is one of a task in progress, and old-style operation data
  with a single errand name (`broker/lifecycle_runner.go:77`), which is a list of one.
- BOSH link consumers (planned), and deployment names resolved from links.
- An upgrade by CF (`cf_triggerer.go:49`) that takes somebody else's operation for its own: the iterator model gets any answer
  from CF, and does not ask whose it is.
- Commands (`cmd/`): they read a configuration and call the components above.
- Fakes, mocks, test helpers, system tests, and vendored code.
