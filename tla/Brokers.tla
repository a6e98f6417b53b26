------------------------------ MODULE Brokers ------------------------------
(***************************************************************************)
(* A ClusterServiceBroker or ServiceBroker and its reconciler, which       *)
(* fetches the broker's catalog into the status whenever a new update is   *)
(* requested.  Two guards keep a broker from going away under its service  *)
(* instances: the webhook refuses the delete request, and the reconciler   *)
(* keeps its finalizer.  They look at different instances, in listers of   *)
(* their own.                                                              *)
(*                                                                         *)
(* Both reconcilers have the same shape; kind says which broker it is.     *)
(* The object and the lister's copy of it are CachedObject's.  A run       *)
(* starts because the work queue holds the broker: its own events, those   *)
(* of its Secret and the periodic resync enqueue it, and so does an error. *)
(* Events of service instances do not.                                     *)
(***************************************************************************)
EXTENDS Conditions, CachedObject, FiniteSets

CONSTANTS
    Instances,      \* service instances users may create
    MaxChanges,     \* bound: changes users make
    MaxFaults,      \* bound: failed calls and crashes
    Disturbances    \* {"api", "catalog", "crash"}: what may go wrong

ASSUME BrokersAssumption ==
    /\ {MaxChanges, MaxFaults} \subseteq Nat
    /\ Disturbances \subseteq {"api", "catalog", "crash"}

VARIABLES
    kind,               \* which broker: it stays so
    secret, secretSeen, \* the credentials Secret, as stored and as listed
    inst,               \* the service instances, as stored,
    instSeen,           \* as the controller lists them,
    hookSeen,           \* and as the webhook does
    terminating,        \* the namespace of a ServiceBroker is terminating
    catalog,            \* version of the catalog that the broker serves
    queued,             \* the broker is in the work queue
    pc, copy,           \* the run: its step, the object it works on
    original,           \* the object it began with
    wanted,             \* history: the catalog when an update was last asked
                        \* for
    guarded,            \* history: instances that were listed when the
                        \* deletion was asked for
    changes, faults     \* what happened so far

objVars   == <<obj, watch, cache>>
childVars == <<secret, secretSeen, inst, instSeen, hookSeen>>
recVars   == <<pc, copy, original>>
histVars  == <<wanted, guarded>>
vars == <<objVars, childVars, recVars, histVars,
          kind, terminating, catalog, queued, changes, faults>>

Kinds == {"cluster", "volume", "namespaced"}
\* none; of another owner; without usable credentials; as it should be
SecretState == {"none", "foreign", "bad", "good"}
\* An instance of this broker is of a deprecated type, or of a type that
\* create-service makes; or it is of a broker of the other scope with the same
\* name.
InstanceState == {"none", "brokered", "osb", "volume", "other"}
OfThis == {"brokered", "osb", "volume"}
Version == 0..MaxChanges + 1

\* requests is spec.updateRequests, seen status.updateRequests; services is
\* the version of the catalog in the status.  held: another finalizer, such
\* as that of foreground deletion.
Broker == [exists: BOOLEAN, deleting: BOOLEAN, finalizer: BOOLEAN, held: BOOLEAN,
           requests: Version, seen: Version, services: Version,
           creds: ConditionStatus, populated: ConditionStatus,
           catalog: ConditionStatus, ready: ConditionStatus]

\* As the CLI creates it: the webhook's defaults set updateRequests.
NewBroker ==
    [exists |-> TRUE, deleting |-> FALSE, finalizer |-> FALSE, held |-> FALSE,
     requests |-> 1, seen |-> 0, services |-> 0, creds |-> "Unknown",
     populated |-> "Unknown", catalog |-> "Unknown", ready |-> "Unknown"]

-----------------------------------------------------------------------------
(* Users, the API server, the informers and the broker. *)

Fault(what) ==
    /\ what \in Disturbances
    /\ faults < MaxFaults /\ faults' = faults + 1

Change == changes < MaxChanges /\ changes' = changes + 1

Write(o) == Store(o) /\ UNCHANGED cache

Deliver ==
    /\ DeliverNext /\ queued' = TRUE
    /\ UNCHANGED <<obj, childVars, recVars, histVars, kind, terminating, catalog,
                   changes, faults>>

\* Only a Secret that the broker owns enqueues it.
DeliverSecret ==
    /\ secretSeen # secret
    /\ secretSeen' = secret
    /\ queued' = (queued \/ {secret, secretSeen} \cap {"bad", "good"} # {})
    /\ UNCHANGED <<objVars, secret, inst, instSeen, hookSeen, recVars, histVars, kind,
                   terminating, catalog, changes, faults>>

DeliverInstance(i) ==
    /\ \/ /\ instSeen[i] # inst[i]
          /\ instSeen' = [instSeen EXCEPT ![i] = inst[i]] /\ UNCHANGED hookSeen
       \/ /\ hookSeen[i] # inst[i]
          /\ hookSeen' = [hookSeen EXCEPT ![i] = inst[i]] /\ UNCHANGED instSeen
    /\ UNCHANGED <<objVars, secret, secretSeen, inst, recVars, histVars, kind,
                   terminating, catalog, queued, changes, faults>>

Resync ==
    /\ cache.exists /\ ~queued
    /\ queued' = TRUE
    /\ UNCHANGED <<objVars, childVars, recVars, histVars, kind, terminating, catalog,
                   changes, faults>>

\* create-service-broker makes the Secret after the broker, perhaps before the
\* informers have shown either; users change it.
ChangeSecret(s) ==
    /\ Change /\ obj.exists /\ s # secret
    /\ secret' = s
    /\ UNCHANGED <<objVars, secretSeen, inst, instSeen, hookSeen, recVars, histVars, kind,
                   terminating, catalog, queued, faults>>

\* The broker has a new catalog (a volume broker, new offerings in its spec),
\* and an update is asked for.
RequestUpdate ==
    /\ Change /\ obj.exists /\ ~obj.deleting
    /\ catalog' = catalog + 1 /\ wanted' = catalog'
    /\ Write([obj EXCEPT !.requests = @ + 1])
    /\ UNCHANGED <<childVars, recVars, guarded, kind, terminating, queued, faults>>

\* validateServiceInstanceNotExists, in the webhook, goes by the broker's name
\* and does not know of volumes.
validateServiceInstanceNotExists ==
    \A i \in Instances : hookSeen[i] \in {"none", "volume"}

\* delete-service-broker, in the foreground; or the namespace goes.
DeleteBroker ==
    /\ Change /\ obj.exists /\ ~obj.deleting
    /\ validateServiceInstanceNotExists
    /\ \E held \in BOOLEAN :
          Write(Settle([obj EXCEPT !.deleting = TRUE, !.held = held]))
    /\ guarded' = {i \in Instances :
                     /\ inst[i] \in OfThis
                     /\ \/ obj.finalizer /\ instSeen[i] = "brokered" /\ inst[i] = "brokered"
                        \/ hookSeen[i] = inst[i] /\ inst[i] # "volume"}
    /\ \/ UNCHANGED terminating
       \/ kind = "namespaced" /\ terminating' = TRUE
    /\ UNCHANGED <<childVars, recVars, wanted, kind, catalog, queued, faults>>

\* The garbage collector has deleted the owned Secret.
Release ==
    /\ obj.exists /\ obj.held
    /\ Write(Settle([obj EXCEPT !.held = FALSE]))
    /\ UNCHANGED <<childVars, recVars, histVars, kind, terminating, catalog, queued,
                   changes, faults>>

\* create-service finds the broker in the marketplace, which lists what is in
\* the status, of a broker that is being deleted too; the API still accepts
\* the deprecated type.
CreateInstance(i) ==
    /\ Change /\ inst[i] = "none"
    /\ \/ /\ obj.exists /\ obj.services # 0
          /\ inst' = [inst EXCEPT ![i] = IF kind = "volume" THEN "volume" ELSE "osb"]
       \/ \E type \in {"brokered", "other"} : inst' = [inst EXCEPT ![i] = type]
    /\ UNCHANGED <<objVars, secret, secretSeen, instSeen, hookSeen, recVars, histVars, kind,
                   terminating, catalog, queued, faults>>

DeleteInstance(i) ==
    /\ Change /\ inst[i] # "none"
    /\ inst' = [inst EXCEPT ![i] = "none"]
    /\ guarded' = guarded \ {i}
    /\ UNCHANGED <<objVars, secret, secretSeen, instSeen, hookSeen, recVars, wanted, kind,
                   terminating, catalog, queued, faults>>

-----------------------------------------------------------------------------
(* The reconciler. *)

\* Mutant: whatever the scope of the broker that the instance names.
childrenExistAnyScope == \E i \in Instances : instSeen[i] # "none"

\* Mutant: the instances of the broker of the other scope.
childrenExistOther == \E i \in Instances : instSeen[i] = "other"

\* serviceInstanceExistsFor(Cluster)ServiceBroker: only instances of the
\* deprecated type are looked at.
childrenExist == \E i \in Instances : instSeen[i] = "brokered"

\* The run ends; with an error the broker is enqueued again, later.
Return(again) ==
    /\ pc' = "idle" /\ copy' = NewBroker /\ original' = NewBroker
    /\ queued' = again

\* update and updateStatus read the lister again and write nothing if there
\* is nothing to change; a lister that is behind means a conflict.
UpdateOrFail(o) ==
    \/ /\ o = cache /\ Return(FALSE)
       /\ UNCHANGED <<objVars, faults>>
    \/ /\ o # cache /\ watch = <<>>
       /\ Write(Settle(o)) /\ Return(FALSE)
       /\ UNCHANGED faults
    \/ /\ o # cache /\ cache.exists
       /\ \/ watch # <<>> /\ UNCHANGED faults
          \/ Fault("api")
       /\ Return(TRUE) /\ UNCHANGED objVars

Run == pc = "idle" /\ queued
Same == UNCHANGED <<childVars, histVars, kind, terminating, catalog, changes>>

\* Nothing is done for a broker that is gone, nor in a namespace that is
\* being deleted.
Skip ==
    /\ Run
    /\ \/ ~cache.exists
       \/ ~cache.deleting /\ cache.finalizer /\ terminating
    /\ Return(FALSE)
    /\ Same /\ UNCHANGED <<objVars, faults>>

\* The run that adds the finalizer ends with it; the event of the change
\* starts the next.
AddFinalizer ==
    /\ Run /\ cache.exists /\ ~cache.deleting /\ ~cache.finalizer
    /\ UpdateOrFail([cache EXCEPT !.finalizer = TRUE])
    /\ Same

\* Deletion requested: blocked by listed instances, otherwise the finalizer is
\* removed; a broker that stays on without it is Terminating.
Finalize ==
    /\ Run /\ cache.exists /\ cache.deleting
    /\ UpdateOrFail(IF cache.finalizer /\ ~childrenExist
                      THEN [cache EXCEPT !.finalizer = FALSE]
                      ELSE [cache EXCEPT !.ready = "False"])
    /\ Same

\* The credentials' conditions, from the listed Secret; a volume broker needs
\* none.
Credentials(b) ==
    CASE kind = "volume" -> [b EXCEPT !.creds = "True", !.populated = "True"]
      [] kind # "volume" /\ secretSeen = "none"    -> [b EXCEPT !.creds = "Unknown"]
      [] kind # "volume" /\ secretSeen = "foreign" -> [b EXCEPT !.creds = "False"]
      [] kind # "volume" /\ secretSeen = "bad"     ->
            [b EXCEPT !.creds = "True", !.populated = "False"]
      [] OTHER -> [b EXCEPT !.creds = "True", !.populated = "True"]

HaveCredentials == kind = "volume" \/ secretSeen = "good"

\* Mutant: a fetch is needed only if there has been none.
FetchNeededOnce(b) == b.seen = 0

FetchNeeded(b) == b.requests # b.seen

\* applyChanges up to the catalog request.
ApplyChanges ==
    LET b == Credentials(cache)
    IN  /\ Run /\ cache.exists /\ ~cache.deleting /\ cache.finalizer /\ ~terminating
        /\ original' = cache /\ copy' = b
        /\ pc' = IF HaveCredentials /\ FetchNeeded(b) THEN "fetch" ELSE "update"
        /\ queued' = FALSE
        /\ Same /\ UNCHANGED <<objVars, faults>>

\* ReconcileCatalog: five tries, and the update counts as made whatever
\* becomes of them.  For a volume broker the services are the offerings of the
\* run's own copy of the spec, which are numbered like its requests.
ReconcileCatalog ==
    /\ pc = "fetch"
    /\ \/ /\ copy' = [copy EXCEPT !.seen = copy.requests, !.catalog = "True",
                 !.services = IF kind = "volume" THEN copy.requests ELSE catalog]
          /\ UNCHANGED faults
       \/ /\ kind # "volume" /\ Fault("catalog")
          /\ copy' = [copy EXCEPT !.seen = copy.requests,
                                !.catalog = MarkReconciliationError("other")]
    /\ pc' = "update"
    /\ Same /\ UNCHANGED <<objVars, original, queued>>

\* Mutant: the request recorded as processed is the one that is there now.
WithStatusOfCurrent(b) ==
    [cache EXCEPT !.seen = cache.requests, !.services = b.services,
                  !.creds = b.creds, !.populated = b.populated,
                  !.catalog = b.catalog, !.ready = b.ready]

\* The listed object with the status of b.
WithStatusOf(b) ==
    [cache EXCEPT !.seen = b.seen, !.services = b.services,
                  !.creds = b.creds, !.populated = b.populated,
                  !.catalog = b.catalog, !.ready = b.ready]

\* The status is written into what the lister has now, unless the run has not
\* changed it.
UpdateStatus ==
    LET b == [copy EXCEPT !.ready =
                 Happy({copy.creds, copy.populated, copy.catalog})]
    IN  /\ pc = "update"
        /\ \/ b = original /\ Return(queued) /\ UNCHANGED <<objVars, faults>>
           \/ /\ b # original /\ cache.exists
              /\ LET o == WithStatusOf(b)
                 IN  \/ /\ o = cache /\ Return(queued)
                        /\ UNCHANGED <<objVars, faults>>
                     \/ /\ o # cache /\ watch = <<>>
                        /\ Write(o) /\ Return(queued) /\ UNCHANGED faults
                     \/ /\ o # cache
                        /\ \/ watch # <<>> /\ UNCHANGED faults
                           \/ Fault("api")
                        /\ Return(TRUE) /\ UNCHANGED objVars
           \/ /\ b # original /\ ~cache.exists
              /\ Return(TRUE) /\ UNCHANGED <<objVars, faults>>
        /\ Same

\* The controller restarts: what the run has found out is lost, and every
\* broker is listed and enqueued.
Crash ==
    /\ Fault("crash")
    /\ Return(TRUE) /\ Relist
    /\ secretSeen' = secret /\ instSeen' = inst
    /\ UNCHANGED <<obj, secret, inst, hookSeen, histVars, kind, terminating, catalog, changes>>

-----------------------------------------------------------------------------
Init ==
    /\ kind \in Kinds
    /\ obj = NewBroker /\ watch = <<NewBroker>>
    /\ cache = [NewBroker EXCEPT !.exists = FALSE]
    /\ secret \in {"none", "good"} /\ secretSeen = "none"
    /\ inst = [i \in Instances |-> "none"]
    /\ instSeen = inst /\ hookSeen = inst
    /\ terminating = FALSE /\ catalog = 1 /\ queued = FALSE
    /\ pc = "idle" /\ copy = NewBroker /\ original = NewBroker
    /\ wanted = 1 /\ guarded = {}
    /\ changes = 0 /\ faults = 0

Reconcile ==
    \/ Skip \/ AddFinalizer \/ Finalize
    \/ ApplyChanges \/ ReconcileCatalog \/ UpdateStatus

Users ==
    \/ RequestUpdate \/ DeleteBroker
    \/ \E s \in SecretState : ChangeSecret(s)
    \/ \E i \in Instances : CreateInstance(i) \/ DeleteInstance(i)

Next ==
    \/ Reconcile \/ Users \/ Deliver \/ DeliverSecret \/ Resync \/ Release \/ Crash
    \/ \E i \in Instances : DeliverInstance(i)

Spec == Init /\ [][Next]_vars

\* A worker takes what is queued, the informers deliver and resync.  Users,
\* the broker's failures and crashes are under no obligation.
Fairness ==
    /\ WF_vars(Reconcile) /\ WF_vars(Deliver) /\ WF_vars(DeliverSecret)
    /\ WF_vars(Resync) /\ \A i \in Instances : WF_vars(DeliverInstance(i))

FairSpec == Spec /\ Fairness

-----------------------------------------------------------------------------
(* Properties. *)

(* Every variable keeps the shape of the Go value it stands for.             *)
TypeOK ==
    /\ kind \in Kinds /\ {secret, secretSeen} \subseteq SecretState
    /\ inst \in [Instances -> InstanceState]
    /\ {instSeen, hookSeen} \subseteq [Instances -> InstanceState]
    /\ {terminating, queued} \subseteq BOOLEAN
    /\ {obj, cache, copy, original} \subseteq Broker
    /\ watch \in Seq(Broker) /\ Len(watch) <= MaxLag
    /\ {catalog, wanted} \subseteq Version
    /\ pc \in {"idle", "fetch", "update"} /\ guarded \subseteq Instances
    /\ changes \in 0..MaxChanges /\ faults \in 0..MaxFaults

(* A broker whose status says that the latest update request was processed   *)
(* and that the catalog is good has a catalog no older than that request,    *)
(* although the fetch takes minutes during which the spec changes and other  *)
(* versions of the status are written.                                       *)
CatalogIsFresh ==
    obj.exists /\ obj.seen = obj.requests /\ obj.catalog = "True"
        => obj.services >= wanted

(* A broker does not go away under an instance of a deprecated type that the *)
(* controller listed when the deletion of a broker with its finalizer was    *)
(* asked for, although the webhook did not list it; nor under an OSB         *)
(* instance that the webhook listed.  The instance has gone before.          *)
InUseStays ==
    ~obj.exists => \A i \in guarded : inst[i] \notin OfThis

(* A broker that is to be deleted loses its finalizer in the end unless an   *)
(* instance of the deprecated type still uses it, one created late included. *)
BrokerDeletionCompletes ==
    <>[](obj.deleting =>
            ~obj.finalizer \/ \E i \in Instances : inst[i] = "brokered")

(* With usable credentials the last request is processed in the end, and the *)
(* catalog is good unless fetching it failed.                                *)
CatalogConverges ==
    <>[](/\ obj.exists /\ ~obj.deleting /\ ~terminating
         /\ kind = "volume" \/ secret = "good"
         => /\ obj.finalizer /\ obj.seen = obj.requests
            /\ \/ obj.catalog = "True"
               \/ obj.catalog = "False" /\ faults > 0
            /\ obj.ready = Happy({obj.creds, obj.populated, obj.catalog})
            /\ obj.creds = "True" /\ obj.populated = "True")
==============================================================================
