# Kf: TLA+ models, model checking and proofs

Kf is a Kubernetes-hosted platform with the developer experience of Cloud
Foundry. Its logic is a set of reconcilers (`src/pkg/reconciler/*`): each
watches kinds of API objects through informer caches and drives the cluster, or
a service outside it, towards what the objects' specs say. This directory models
those reconcilers in TLA+, checks them with TLC on small instances and proves the
safety of eight of the nine models with TLAPS for every instance.

## 1. The system

### Components

| Component | State it keeps | Operations | What makes it correct |
|---|---|---|---|
| Service instance (`reconciler/serviceinstance`) | finalizer, deletion mark, OSB state, conditions, delete counters | add finalizer, check prerequisites, provision, poll, deprovision, remove finalizer, update status | no resource at a broker without an owner; nothing provisioned after a deprovision; operations end |
| Service instance binding (`reconciler/serviceinstancebinding`) | the binding object, the credentials Secret | bind, poll, fetch and write credentials, unbind, finalizer, status | a Bound status is true; credentials arrive; unbinding ends |
| Service brokers (`reconciler/{clusterservicebroker,servicebroker}`, `admission/validation`) | catalog and processed request in the status, finalizer | refresh catalog, guard deletion (twice: webhook, finalizer) | the catalog is as fresh as the status says; a broker in use stays |
| App (`reconciler/app`) | App status, environment Secret, Builds, Deployment, HPA, Routes | one run through all parts in order | Ready means rolled out; Pods have their services; a push arrives |
| Build, SourcePackage (`reconciler/build`, `sourceimage`) | Build status, uploaded source | start a TaskRun once the source is there, take its result | one final result per Build |
| App start command (`reconciler/appstartcommand`) | start commands in the App's status | look up the image's configuration | they belong to the current image |
| Route (`reconciler/route`) | the domain's VirtualService, the Routes' statuses | collect the bindings of all Apps, write the VirtualService, report | traffic goes where the Apps declare |
| Route rules (`reconciler/route/resources`) | none | sort, match, normalise weights | the most specific Route wins, shares are fair |
| Task (`reconciler/task`) | Task status and label, counter in the App's status, TaskRun | assign ID, label, run, terminate | a Task runs once and reports what happened; IDs are unique |
| Task schedule (`reconciler/taskschedule`) | `status.active`, last schedule time | missed-time computation, Always / Forbid / Replace | only scheduled times, policy kept, none lost |
| Space (`reconciler/space`) | namespace and the objects in it, the shared IAM policy | create or update in order, policy from all Spaces | converges; Ready means builds can push |
| Garbage collector (`reconciler/garbagecollector`) | none | delete old Tasks and Builds | what is in use stays |
| Conditions (`apis/kf/v1alpha1/utils.go`) | condition lists | mark, summarise | Ready is the conjunction of its parts |
| CLI (`pkg/kf`, `cmd/kf`) | none | API writes, waits, printing | requests are counted before the object is deleted |
| Operator, build helpers, route service proxy, generated clients | - | installation, files, HTTP headers | not modelled (section 8) |

### How they interact

Every reconciler has the same shape. The work queue hands it a key (one
reconcile per key at a time; an error enqueues it again). It reads the object
from the **informer's cache**, which may be behind the API server, works on a
copy, reads other kinds from listers that are behind by other amounts, calls the
API server or a broker, and ends with `updateStatus`, which reads the cache
*again* and writes the whole computed status onto the version it finds. The API
server refuses a write that is not based on the stored version.

The reconcilers meet in shared objects. The App's status has three writers (App,
Task, start command). App and Route reconciler each compute their half of a
binding from the other's status. All Space workers write one IAM policy. A Task
schedule makes Tasks that the Task reconciler ends and the garbage collector
deletes. Instance, binding and broker guard each other's deletion through
listers.

### What is hard here

* caches that are any number of versions behind, for the read that starts a
  reconcile, the reads of other kinds and the read inside `updateStatus`;
* user commands, deletions and deliveries between any two calls of a reconcile;
* a restart, or a failed call, after one write and before the next;
* requests to a broker that were executed although their answer was an error;
* deadlines that pass while the operation is still running;
* conditions that stop all further work once they are not `Unknown`;
* events as the only thing that starts a reconcile: what no event announces is
  not done.

`PROJECT.json` lists each hazard at its line, with the properties aimed at it.

## 2. Modules

| Module | What it is |
|---|---|
| `OSBBroker` | the Open Service Broker (external): what it may answer to a create, a delete or a poll, and the state this leaves |
| `CachedObject` | the API server and the informer (external): the stored object, the versions not delivered yet, the cached version |
| `Conditions` | three-valued conditions, their summary, `MarkReconciliationError` |
| `ExternalResource` | abstract specification: a resource outside the cluster behind a guard |
| `ServiceInstance`, `ServiceInstanceBinding` | the two reconcilers that talk to a broker |
| `Brokers` | the reconciler of a (Cluster)ServiceBroker, the webhook, and the instances that need the broker |
| `Routes` | composition of the App reconciler's route part and the Route reconciler |
| `RouteTable` | the rules of a VirtualService as operators, over every input the commands build up |
| `App` | composition of App, Build, start command reconciler, upload and garbage collection of Builds |
| `Tasks` | composition of the Task reconciler, the App reconciler's status writes and the garbage collection of Tasks |
| `TaskSchedule` | the reconciler of one schedule, with the clock |
| `Spaces` | several workers, Spaces, their parts and the shared policy |
| `MC...` | the modules TLC runs |
| `ServiceInstanceProofs`, `ServiceInstanceBindingProofs`, `BrokersProofs`, `AppProofs`, `TasksProofs`, `TaskScheduleProofs`, `SpacesProofs`, `RouteTableProofs` | theorems about the module of the same name; the three for the users of `CachedObject` begin with the same lemmas about the versions of an object |

### Conventions

For an object `o`, the stored version is `obj` (or `app`, `task`, `ts`, ...), the
versions the informer has not delivered are `watch`, the lister's version is
`cache`. For kinds of which only the latest state matters there is one variable
for the stored and one, `...Seen`, for the listed state. A run of a reconciler is
`pc` (its step), `copy` (`toReconcile`) and what else it holds between calls. One
step is what the code does between two calls that others can observe: a call and
what follows from its answer are one step. A write based on a lister passes
exactly when that lister shows the stored version; otherwise it is the conflict
that `MarkReconciliationError` turns into `Unknown`.

Names, messages, parameters, reasons and times of conditions are left out: no
decision depends on them. Numbers stand for identities that only have to be told
apart (the n-th Build, image, push or scheduled minute).

### Service instance and binding

Of the object the models keep the deletion mark, Kf's finalizer, Kubernetes'
`foregroundDeletion` finalizer, the counter that `kf delete-service` /
`kf unbind-service` increment, and the status: the OSB state, the
`BackingResource` condition, the first unmet prerequisite, how `Ready` was set,
the processed counter and the observed generation. The listers of other kinds
(Space and Namespace, Secrets, the instance of a binding, the bindings of an
instance) are variables that change by themselves: the reconciler cannot tell a
stale lister from a changed world. `asked` and `released` are history variables:
the last request that was sent to the broker, and why the finalizer came off.

The actions follow the code in order: `Begin...` (the `switch` of
`reconcileServiceInstance`), `AddFinalizer`, `CheckPrerequisites`, then
`AlreadyActuated`, `ProvisionTimeout`, `ProvisionImpossible` or `CallBroker`,
`ProvisionInstance`, `PollProvision`; for deletion `GetLive`, `DeleteDecides`,
`DeleteAtBroker`, `DeprovisionInstance`, `PollDeprovision`, `RemoveFinalizer`; at
the end `NothingChanged`, `UpdateStatus` and its failures. `Restart` may happen
between any two. The binding differs as its code does: deletion uses the cached
copy, a missing instance stops it, a binding in progress is left alone, and
credentials are written after `Bind` or fetched later.

A 409 from the broker ends the reconcile without a status update, a 202 is polled
in the same reconcile, a 404/410 counts as deleted, 409 and 5xx answers to a poll
are retried, and anything else is a failure, as in the `Propagate...` methods.
`CreateStep` and `DeleteStep` let a request be executed although the answer is an
error.

### Routes and RouteTable

`Routes` has the App objects (declared routes, weight, binding statuses) and the
Route objects (bindings, readiness) with their informers and both work queues.
`ABegin`, `ACreateRoute`, `AStatus`, `AUpdateStatus` are the App reconciler's;
`RBegin` reads what the Route reconciler lists, `ReconcileVirtualService` writes
the VirtualService, `RUpdateStatus` one Route's status, `RFinish` decides what is
returned. `ReconcileVirtualService` compares with the lister's copy of the
VirtualService (`vsCache`), which may be behind: a write is then skipped because an
outdated copy is as desired, or refused (created already, changed, gone), and a
copy that is being deleted is left alone. Someone may delete the VirtualService
(`DeleteVS`, `VSGone`). The swallowed error of `reconciler.go:249` is there: a
failed status update enqueues nothing. User changes, failed calls and deletions are
counted together (`MaxEvents`).

`RouteTable` gives the same reconciler's *function*: `Less`, `BindingSlice`,
`normalizeRouteWeights`, `AppRules`, `buildRoutesFor`, `MakeVirtualService`, and
Istio's `Dispatch`. Its state is the input, which the users' commands build up
(`MapRoute` writes the App only; `CreateRouteOf` is the App reconciler, which
creates the Route later), so every reachable input is checked against a reference definition (`IsFor`,
`Answers`) that never mentions an order of rules. A binding may have weight 0, as
the webhook allows (`route_validation.go:46`), like one of a stopped App. `Answers`
asks that requests are split over Apps that are bound, with all that run and have a
weight among them; it leaves open whether the others are, because there the code
and its comments disagree (section 5). `RouteTableAssumption` says that 100 times a weight and the sum
of all weights fit in an int32, which is how `normalizeRouteWeights` computes
them; neither the webhook nor `Merge` makes sure of it. Sorting is modelled by its
result: the list of the set's elements in increasing order.

### App

A run goes `ABegin` (bindings and environment Secret), `AImage` or `ABuild`,
`AHorizontalPodAutoscaler`, `ADeployment`, `AUpdateStatus`; it stops at the first
part that fails or is pending. `BStart`, `BFinish`, `BFails` are the Build
reconciler's, `GCBuild` the garbage collector's, `SReconcile` the start command
reconciler's, `Upload` the source upload's. Space, Service, ServiceAccount and
Routes are reconciled by the same run between the Secret and the Build, in the same
way as the Secret; the module leaves their steps out. Users follow one of a set
of scripts (`Scripts`), at any moment.

### Tasks and TaskSchedule

The Task reconciler's calls are `TAssignID` (the App's status), `TLabel` (the
Task), `TRegistryFails`, `TCreateRun` / `TSyncRun` (the TaskRun) and
`TUpdateStatus`; `TNothing` and `TTerminating` are its early returns. `ABegin` and
`AUpdateStatus` are the App reconciler as far as it writes back the status that
holds the counter. `tasksToGC`, `GBegin`, `GDelete` are the garbage collector.

In `TaskSchedule`, `Begin` reads the copy, prunes the active list, computes the
next time (`getNextScheduleTime`) and applies the policy; `BeginFails` are the early
exits for a Space that is not listed and a schedule that does not parse; `Terminate`,
`Create` and `UpdateStatus` are the calls. `overlap` is a history variable: another
Task ran when, or after, the most recent scheduled time came. `Panic` is what follows from a schedule that is
gone: the code logs it and goes on with a nil object.

### Brokers

`kind` chooses a cluster, a volume or a namespaced broker; the catalog of a volume
broker is the one in the run's own copy of the spec. `AddFinalizer`,
`Finalize`, `Skip` are the reconcile's cases; `ApplyChanges`, `ReconcileCatalog`,
`UpdateStatus` are its three stretches around the (long) fetch. `DeleteBroker` is
admitted by `validateServiceInstanceNotExists` over the webhook's own lister
(`hookSeen`), while the finalizer's `childrenExist` reads the controller's
(`instSeen`) and sees only the deprecated type.

### Spaces

Parts are reconciled in order; `SyncPart` is one create or update, `Continue`
passes over those that are as desired. A part may be another owner's
(`ForeignPart`, `ReleasePart`), which is an error (`MarkChildNotOwned`); `Answer` is
what the API server says to a write, and `MarkReconciliationError` what becomes of
it. `SyncPolicy` is `updateGSAPolicies`, from the Spaces listed when the run came to
it. `wi` says whether the configuration names a Google service account (Workload
Identity); without it the condition is good and there is no policy. Of the policy
the model keeps its members, what its conditions come to (`conds`) and whether they
are about its current generation (`observed`); Config Connector puts it in force
(`ApplyPolicy`, which sets `inForce`) or reports that it cannot, or not yet
(`ReportPolicy`). The status has a condition for each part and the policy, and
`ready`, which sums them up (`Mark`); of a Space being deleted only `ready` is set
(`FinishTerminating`). `Reconcile` keeps the code's distinction: of a Space being
deleted, or gone, only the policy is reconciled.

## 3. The abstract specification

`ExternalResource` says what a user relies on: the guard (the finalizer) is on
before the resource is first requested (`Hold`), the resource changes only behind
it (`Operate`), and it comes off either because the resource is gone (`Release`)
or because creating it was recorded as failed (`Abandon`); then the broker may
still finish what it was doing (`Drift`), but nothing creates the resource again.
Both reconcilers are shown to implement it with
`resource <- broker, guard <- Guard`, where `Guard` is computed from the stored
object's finalizer and `released`. `Abandon` is what the code documents: "If
provisioning failed [...] expect the broker to have cleaned things up".

## 4. Runs

All runs use `CHECK_DEADLOCK FALSE`: once nothing is enqueued and users do
nothing more, the system stops.

| Run | Bounds | Checks |
|---|---|---|
| `si_safety` | 2 delete commands, lag 2; failing API calls, restarts, no client, deadlines, Space changes | `TypeOK`, `NoOrphan`, `NeverReprovisioned`, `ImplementsExternalResource` |
| `si_live` | 1, lag 1; deadlines, bindings; fair | `DeletionCompletes`, `ProvisioningResolves` |
| `sb_safety` | 1 unbind command, lag 1; failing API calls, restarts, deadlines, namespace, instance changes | `TypeOK`, `BoundIsReal`, `NeverRebound`, `ImplementsExternalResource` |
| `sb_live` | 1, lag 1; deadlines, no client; fair | `CredentialsArrive`, `UnbindCompletes` |
| `routes` | 1 App, 1 Route, lag 1, 2 events (changes, failed calls, a deleted VirtualService); fair | `TypeOK`, `RoutesConverge` |
| `route_table` | 1 host and the wildcard, 2 paths, 3 Apps, weights 0 to 2, 2 Routes, 3 bindings, 1 route service | `TypeOK`, `DispatchesMostSpecific`, `SplitIsFair` |
| `app` | 4 scripts of up to 4 changes, retention 0, 1 failed lookup of the Build reconciler; fair | `TypeOK`, `ReadyIsReal`, `NewPodsHaveServices`, `BuildsOnce`, `PushCompletes` |
| `tasks` | 1 Task, retention 0, 1 change, 1 App write, 2 faults; fair | `TypeOK`, `SucceededIsReal`, `StartsOnce`, `TerminateEnds`, `LabelFollowsID` |
| `schedule` | times 1, 3, 5, ... up to minute 5, 1 change, 2 faults (failed calls, outdated copies, no Space, a schedule that does not parse); fair | `TypeOK`, `OnlyScheduledTimes`, `RespectsPolicy`, `CatchesUp` |
| `brokers` | 1 instance, lag 2, 3 changes, 2 faults; fair | `TypeOK`, `CatalogIsFresh`, `InUseStays`, `BrokerDeletionCompletes`, `CatalogConverges` |
| `spaces` | 2 Spaces, 2 workers, 3 parts, 7 scripts of up to 3 changes, 0 or 1 faults; fair | `TypeOK`, `ReadyIsReal`, `PolicyConverges`, `SpacesConverge` |
| `task_ids` | 2 Tasks, 1 App write, nothing fails | `UniqueIDs`: violated (section 5) |

**Why the bounds are enough.** A reconcile, not the object, is the unit of
interleaving, and the number of reconciles is not bounded anywhere. What is
bounded is what users do and what fails. The stale-cache hazards need a run that
starts from an old version while newer ones exist: one undelivered version for
most modules, two (the finalizer and the status, say) for the instance and the
brokers, and two delete commands so that one is given while the answer to the
other is not stored. `routes` needs a change and its reversal: two events. `app` was also run
with a failed call of each other part (`Failing`), one part at a time. A Task's
hazards are between its own writes and the App's; only IDs need two Tasks. Three
weights with sum not dividing 100 (1, 1, 1 and 1, 1, 2, ...) make every case of the
rounding; the paths are the root and one below it, since of two paths that match one
request one is a prefix of the other (longer lists are covered by the proof).
`spaces` has the three kinds of parts that differ: one that everything else lives
in, one that users edit, one computed from it; the others are reconciled like the
last. Its scripts are a first Space, a second one, one that is deleted and created
again beside another, roles and a deleted namespace, a part edited by hand and the
last Space deleted, a part of another owner, and Spaces without Workload Identity. `MaxLag` is
also a guard: a write waits while the informer is `MaxLag` versions behind.

**What each property shows.**

* `NoOrphan`: the finalizer outlives the resource, or the resource was given up.
* `NeverReprovisioned`, `NeverRebound`: from the first deprovision on, every
  reconcile, whatever version it starts from, sees the deletion mark. Deletion is
  only handled from a cache that shows the mark, and caches do not go back.
* `BoundIsReal`: a status computed from one version and stored on another does
  not claim a binding that is not there.
* `DeletionCompletes`, `UnbindCompletes`: a counted command ends in a removed
  finalizer or a recorded failure. For a binding the informer has to keep up
  eventually (`InformerKeepsUp`): its deletion starts from the cached copy.
* `ProvisioningResolves`, `CredentialsArrive`: a recorded operation is followed
  to its end, a bound binding gets its credentials.
* `RoutesConverge`: two reconcilers that only wake each other agree in the end.
  The binding an App no longer declares is the hard case: it is kept in the
  status as Orphaned only so that its delivery enqueues the domain.
* `DispatchesMostSpecific`: the list of rules means what a user expects of hosts,
  paths and route services. `SplitIsFair`: the percentages add up to 100, each less
  than one below and at most one above the exact share.
* `ReadyIsReal` (App): a Ready status for the current generation was not put
  together from parts of different times. The one exception found, an autoscaler
  that was just deleted and is still listed, is in the property.
* `NewPodsHaveServices`: Pods asked for after a service showed up have it, although
  the Secret they read is compared through two listers.
* `BuildsOnce`: neither the garbage collector nor an outdated copy makes the App
  reconciler create a Build again.
* `PushCompletes`: the last push is rolled out and reported. In the run the Build
  reconciler's lookups may fail; a Build that ends so is reported as failed.
* `StartsOnce`: the update of the label, which is always sent, is what finds out
  that a run works on an outdated copy. `LabelFollowsID`: the label, by which
  `kf terminate-task` looks, catches up with an ID that a retry assigned anew.
  `SucceededIsReal`, `TerminateEnds`: what is reported, and what a command does.
* `OnlyScheduledTimes`, `RespectsPolicy`, `CatchesUp`: the schedule is kept with
  the Task's name as the only lock and a status written after the fact. `CatchesUp`
  asks nothing of a time at which Forbid met another Task: the documentation says
  that it is skipped, the code makes it up later (section 5).
* `CatalogIsFresh`: the request recorded as processed is the one the fetch was
  made for. `InUseStays`: what the two guards protect together.
  `BrokerDeletionCompletes`, `CatalogConverges`: both guards let go, the last
  request is processed.
* `PolicyConverges`: slow workers cannot leave an old policy behind, as long as a
  Space is left whose runs get as far. `ReadyIsReal` (Space): with Workload Identity,
  a policy with the Space in it was in force, and is so unless the controller has
  still something to do for the Space (`Pending`). The exception is needed: a Space
  created again under a name that the listed policy still has is Ready until the
  event of the newer policy puts it right. `SpacesConverge`: every part, the roles
  and the status arrive; a Space with another owner's object in its way is not Ready.

**Fairness.** Informers deliver and a worker takes what is enqueued (`WF`), in
every module; nothing else starts a reconcile except where the code has a resync:
one minute for instances ("so we can poll async operations"), ten seconds for
schedules, the informers' default for bindings, Builds and brokers. Brokers end
asynchronous operations (`WF(BrokerFinishes)`) and do not answer every poll with
a temporary error (`SF(PollEnds)`, `SF(GetBinding)`); TaskRuns end, as they have
a deadline, and Deployments succeed or fail (`App`); cancelled TaskRuns end
(`Tasks`); a terminating namespace goes and Config Connector puts a policy in force in the end
(`Spaces`). No user action, no failure, no ordinary end of a Task and no tick of
the clock is assumed to happen.

## 5. Disagreements between code and comments

`task_ids` is a run with `expect: violation`: "each Task is assigned an App-wide
unique ID by incrementing the App counter" (`task/reconciler.go:172`), but the App
reconciler writes the whole status back that it started from and undoes an
increment made meanwhile. `updateStatus` defeats the optimistic lock by taking
the resource version from the lister at the end.

Two more findings are seen in runs that pass, because their properties are stated
around what the code does:

* Stopped Apps are "not included" in the normalized weights
  (`virtual_service.go:409`; `:346` "exclude them from the route destinations"), but
  the code keeps them, with weight 0, among the destinations, and can hand them one
  percent of the remainder: `SplitIsFair` allows any App one percent more than its
  share, and `Answers` allows idle Apps among the destinations. With 0 for stopped
  Apps, or without them, `route_table` fails.
* Forbid is documented as "skipping next run if previous run hasn't finished yet"
  (`taskschedule_types.go:59`), but the time skipped is not recorded, so the first
  reconcile after the Task has ended makes the run up. `CatchesUp` exempts these
  times: it asks neither for the skip nor for the late Task.

Other places where the code does not do what one would expect came up while
modelling. They are in the models as they are, and the properties are stated
around them; each can be seen by the change named here.

* A single failure to make a broker client while a provision runs turns the
  condition False, after which the operation is never polled again
  (`serviceinstance/reconciler.go:303`): add `"client"` to `si_live`.
* A binding deleted while it is Binding is never polled again
  (`serviceinstancebinding/reconciler.go:425`): drop `"Binding"` from
  `UnbindCompletes`.
* An instance whose Ready is False, not Unknown, does not stop a binding
  (`serviceinstancebinding/reconciler.go:205`).
* A result computed from an outdated copy can overwrite a stored status, and a
  deprovision can be sent twice for one command, because `updateStatus` may be
  refused after the request was sent (`serviceinstance/reconciler.go:114`, `:176`).
* The error of a Route's status update is dropped
  (`route/reconciler.go:250`, `!=` for `==`): add `"routestatus"` to `routes`.
* Weights above 21474836 overflow in `100 * Weight` (`virtual_service.go:442`); they
  are outside the model.
* `RequiresUpdate` of the start command reconciler is inverted
  (`appstartcommand/reconciler.go:204`): the start commands are never stored.
* Deleting an autoscaler successfully is reported as a reconciliation error
  (`app/reconciler.go:613`): the run ends and is repeated.
* A Build or Task for which the Space, App or registry cannot be read for a moment
  is final False although its TaskRun runs or will run.
* A Task collected while its schedule lists it as active blocks a Forbid schedule
  for good (`taskschedule/reconciler.go:179`): add `"gc"` to `schedule`. After a
  lost status Forbid may let two Tasks run: `RespectsPolicy` claims only
  `faults = 0`.
* The most recent missed time is extrapolated from the distance of two times:
  `Scheduled = {1, 2, 5, ...}` breaks `OnlyScheduledTimes`.
* A schedule that is gone makes the reconcile go on with a nil object
  (`taskschedule/reconciler.go:77`): `Panic`.
* The finalizer of a broker protects the deprecated instance type only
  (`clusterservicebroker/reconciler.go:317`); OSB instances have the webhook's
  lister, volume instances nothing. A fetch that failed is not repeated until the
  next update request (`:228`).
* When no Space is left, nothing rewrites the IAM policy if the last write lost a
  race (`space/controller.go:233`): `PolicyConverges` asks for a Space left, and for
  one without another owner's object in its way, since the runs of the others end
  before the policy.
* A ServiceAccount of a Space that another owner has is reported on the condition of
  the Secret (`space/reconciler.go:365`); the model has it on the part's own.
* For a Space being deleted `updateGSAPolicies` gets `original`, the informer's own
  object, and marks its condition (`space/reconciler.go:118-142`); the run writes
  another copy, so only the cache of a Space about to go is affected. Not modelled.

## 6. Proofs

Every theorem is about the same `Spec` that the runs check, for every value of the
constants that satisfies the module's named assumptions; TLC evaluates these in
every run. Bounds on what users do, what fails and how far an informer is behind
are such constants, so the theorems hold for all of them.

| Module | Theorem | States |
|---|---|---|
| `ServiceInstanceProofs` | `TypeCorrect`, `NoOrphanHolds`, `NeverReprovisionedHolds`, `Refinement` | `[]TypeOK`, `[]NoOrphan`, `NeverReprovisioned`, `ImplementsExternalResource` |
| `ServiceInstanceBindingProofs` | `TypeCorrect`, `BoundIsRealHolds`, `NeverReboundHolds`, `Refinement` | `[]TypeOK`, `[]BoundIsReal`, `NeverRebound`, `ImplementsExternalResource` |
| `BrokersProofs` | `TypeCorrect`, `CatalogIsFreshHolds`, `InUseStaysHolds` | `[]TypeOK`, `[]CatalogIsFresh`, `[]InUseStays` |
| `AppProofs` | `TypeCorrect`, `NewPodsHaveServicesHolds`, `ReadyIsRealHolds`, `BuildsOnceHolds` | `[]TypeOK`, `[]NewPodsHaveServices`, `[]ReadyIsReal`, `BuildsOnce` |
| `TasksProofs` | `TypeCorrect`, `SucceededIsRealHolds`, `StartsOnceHolds` | `[]TypeOK`, `[]SucceededIsReal`, `StartsOnce` |
| `TaskScheduleProofs` | `TypeCorrect`, `RespectsPolicyHolds`, `RegularOnlyScheduledTimes` | `[]TypeOK`, `[]RespectsPolicy`, `[]OnlyScheduledTimes` if the schedule is `Regular` |
| `SpacesProofs` | `TypeCorrect`, `ReadyIsRealHolds` | `[]TypeOK`, `[]ReadyIsReal` |
| `RouteTableProofs` | `TypeCorrect`, `SplitIsFairHolds`, `DispatchesMostSpecificHolds` | `[]TypeOK`, `[]SplitIsFair`, `[]DispatchesMostSpecific` |

None of the reconcilers' invariants and action properties is inductive: what one
writes comes from a copy, the copy from a lister, the lister from an earlier
version, and the property speaks of the stored object only. Each of these modules has an
inductive invariant `IInv` that follows the fact through all of these places. It
was checked with TLC, on instances at least as large as the runs', before it was
proved. The proofs have one lemma per action, or per group of actions of one
shape, and end with `Init => IInv`, `IInv /\ [Next]_vars => IInv'` and
`IInv =>` the property.

**Service instance.** `NoOrphan` needs that when a provision request is sent from
a copy, the *stored* object still has the finalizer. `IInv` adds:

* `Ordered`: cache, undelivered versions and stored object form a line along
  which the deletion mark is never taken back, and which ends in the stored
  object (also used for bindings and brokers);
* `FinalizerKept`: until the finalizer is removed no version has one that the
  stored object lacks;
* `DeletionSeen`: a reconcile that deletes started from a cache with the mark, and
  once a deprovision was sent or the finalizer removed, the cache shows the mark
  and no applying reconcile is running. This is what carries both `NoOrphan` and
  `NeverReprovisioned`;
* `AppliesGuarded`: past its first step an applying reconcile has the finalizer
  stored;
* `HeldCurrent`: a copy that passes the optimistic lock agrees with the stored
  object;
* `NeverStored`: the state Deprovisioned is never stored, so "finished" in a fresh
  copy always means ProvisionFailed;
* `FinalizeJustified`: about to remove the finalizer, either provisioning failed or
  the broker has nothing.

`Refinement` maps each action to a step of `ExternalResource` or a stutter under
`IInv`.

**Service instance binding.** The same line of argument, and for `BoundIsReal`
that every version, the copy and the credentials are backed by the broker until
an unbind was sent (`VersionsBacked`, `CopyBacked`, `CredentialsBacked`); an
unbind is sent only once the cache shows the deletion, so no version without the
mark can come up afterwards. Deletion works on the cached copy, so `Guarded` says
of that copy that it had the finalizer.

**Brokers.** `Fits` says of every version and of the run's copy that a catalog
that is called good is at least as new as the request it records as processed:
the request is read before the fetch. `Protected` says that an instance listed at
the deletion stays listed as long as it is there, and that the finalizer stays
with it.

**App.** The largest invariant. Specs only grow, and two with the same generation
(or template, or build number) agree in what that number stands for (`Older`), so
a stale copy can be compared with the stored spec by its numbers. `BuildInv` and
`ImageInv` say that a finished Build stays as it is until it is collected, that
this leaves a later one, and that no image in use belongs to a later Build than
the reconciler's; `BuildsOnce` and the image part of `ReadyIsReal` follow.
`Environment` says that the Secret holds what was listed before the App shows it,
which gives `NewPodsHaveServices`. `ReportInv` says, for each step of the run, how
much of a Ready status is already true of what is stored. In the course of this it is also
proved that `SReconcile` never changes anything: `RequiresUpdate` is inverted.

**Tasks.** `Held`: until it is marked stale, the copy of a run before its label
update agrees with the stored Task, and after the update the Task is not final.
This is the argument that an update which changes nothing is still needed.
`Ended`: unless its TaskRun succeeded or the Task is deleted, no place (lister of
TaskRuns, stored Task, lister, copy) says that it succeeded.

**Task schedule.** `Tracked`: as long as nothing failed, every running Task is in
the active list of the version in use, which is the run's copy during a run and
the stored object otherwise. `Cleared`: what the policy has ensured before the
Task is created. `OnlyScheduledTimes` is false for an irregular schedule (section
5), so the theorem has the hypothesis `Regular`: the distance from each scheduled
time to the next is the same, as in `*/10 * * * *`. That all multiples of the distance
are scheduled then (`Multiples`) is proved with a least counterexample, which
replaces induction. `TypeCorrect` needs no such hypothesis: also for an
irregular schedule the time worked out is never in the future.
`ScheduleAssumption` asks for two scheduled times beyond `MaxTime`, because the
code always looks two times ahead and cron schedules do not end.

**Spaces.** `Claims` follows the condition of the policy through the stored Space
and the lister, `Summed` ties `ready` to it, and `SpaceInv` follows it through the
run: a run that began with a live Space has that Space among those it listed, because
the lister cannot have dropped it as long as it is there; and a run that began with a
Space being deleted never writes into a live one. `InForce` says of the shared policy
and of what is listed of it that one with good conditions of its own generation has
granted all that it names; with the comparison of members in `updateGSAPolicies` this
makes the condition True only for Spaces that were granted. For what is in force *now*
there are `Applied` (a policy with good conditions is the one in force), `Watched` (a
Space that changes under its run is enqueued) and `Settled` (a Ready Space that is
listed as it is, not enqueued and not being reconciled is named by the listed policy,
which has good conditions): a new listed policy enqueues every listed Space, so
`Settled` survives its delivery. `SpacesAssumption` says that no part is called
`IAMPolicy`, which is the condition of the policy.

**Route table.** The state is an input of the computation, so the invariant is
simple: `TypeOK`, finitely many Routes, `spec` a function on the Apps. The two
properties are about what the computation returns for lists of any length. The
library's induction theorems cannot be used for this, so `IndexInduction` derives
induction over the indices of a list from the well-foundedness of `<`, for a *set*
of indices in place of a predicate. With it:

* `TotalIsSum`, `SortedIsOnto`: `Total` adds up every list, and `Sorted` has a
  value that lists all of a finite set when the comparison is a strict order.
  `LessOrders` shows that `Less` is one on Routes, with the wildcard last.
* `RemainderBound`, `HandOutTotal`: rounding down leaves between 0 and n percent of
  n entries, so handing out one each from the front ends within the list and gives
  100. `SplitIsFair` follows, for every number of Apps and all weights of which the
  sum and a hundred times each are int32 (`RouteTableAssumption`).
* `Flattened`, `DispatchBlocks`: the rules are the blocks of the sorted Routes one
  after the other, and the first match is in the first block that has one.
* `BlockAnswers`: a block matches exactly when its Route's host and path admit the
  request, and its first match is then the right answer.
* `EarlierDoNotAdmit`: `Less` compares the length of the *text* of a path, while
  Istio matches by segments. No Route that admits a request is sorted before the
  most specific one all the same: of two paths that are both prefixes of the
  request's, the one with more segments has the longer text (`PathLenGrows`).

`DispatchesMostSpecific` combines these for every number of Routes. The attempt
showed that `Less` had been written with a CASE whose guards overlapped, of which
TLA+ does not say which one counts; it is a disjunction now.

**Only model-checked.**

* All liveness and convergence properties (`DeletionCompletes`,
  `ProvisioningResolves`, `CredentialsArrive`, `UnbindCompletes`,
  `RoutesConverge`, `PushCompletes`, `TerminateEnds`, `LabelFollowsID`, `CatchesUp`,
  `BrokerDeletionCompletes`, `CatalogConverges`, `PolicyConverges`,
  `SpacesConverge`): fairness and ENABLED are beyond the prover.
* `TypeOK` of `Routes`: the module has no safety property besides; its point,
  `RoutesConverge`, is liveness, for which `TypeOK` would carry nothing.

## 7. Plan

Done: the models and runs of all reconcilers that keep state of their own, and
the proofs of every safety invariant, action property and refinement that a run
checks, but for `TypeOK` of `Routes`. Left:

1. Safety lemmas that the convergence of `Routes` rests on (a binding that is
   orphaned is still in its Route), to be checked by TLC first and then proved with
   `TypeOK`.
2. Refinements of smaller abstract specifications (a Task as a job that starts and
   ends once, the policy as a set that is granted).

No module with a theorem declares or reaches a RECURSIVE operator.

## 8. Not modelled

* Operator, build helpers, route service proxy, aggregated API server
  certificates: installation, files, headers, one copied value; no protocol of
  their own.
* Generated clients, informers, listers, deep copies, options and tables: what the
  reconcilers rely on is in `CachedObject` and the delivery actions. They, the
  operator, the test utilities and the formatting of the CLI are most of the
  repository's lines; a model of them would have no behaviour to check, which is
  why the map covers a small share of all lines although it covers the
  reconcilers.
* The CLI beyond the commands that are actions: reading, waiting, printing, flags,
  manifests, `buildpacks`, `logs`, `ssh`, `proxy`, `doctor`.
* Service instances without a broker (user-provided, route-service, volume,
  legacy) and their bindings: a Secret is copied.
* Of the App: Builds by AppDevExperience, deletion (left to Kubernetes), the
  Service and the ServiceAccount.
* Of the Task schedule: `run-job`, and the time between its deletion mark and its
  end. Of the Task: the deletion of a cancelled TaskRun's Pod.
* Of the Space: what its parts contain; quota, network and build configuration are
  copied into the status. Workload Identity is on or off for good: a change of the
  configuration at run time is not modelled.
* Webhooks other than the brokers': they look at one object, or refuse a deletion
  from a lister in the way the brokers' does.
* Time, except in `TaskSchedule`: a deadline may pass at any moment after the
  condition was stored, so how long a poll is delayed is not represented.
