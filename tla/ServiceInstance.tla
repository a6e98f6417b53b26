--------------------------- MODULE ServiceInstance ---------------------------
(***************************************************************************)
(* The reconciler of one OSB-brokered ServiceInstance                      *)
(* (pkg/reconciler/serviceinstance), the API object it works on, the       *)
(* informer cache it reads (CachedObject) and the broker it calls          *)
(* (OSBBroker).                                                            *)
(*                                                                         *)
(* Kubernetes' optimistic lock (the resourceVersion of a write must be the *)
(* stored one) is                                                          *)
(*   - watch = <<>>  for a copy just taken from the cache,                 *)
(*   - current       for the copy the reconciler holds: it turns FALSE     *)
(*                   with the first write after the copy was taken.        *)
(*                                                                         *)
(* One reconcile is a sequence of steps (pc): local computation between    *)
(* two calls is one step, every call to the API server or the broker is a  *)
(* step of its own, and every other actor may act in between.  The work    *)
(* queue runs one reconcile of a key at a time, re-queues it after an      *)
(* error and re-delivers every key once a minute, so a reconcile may start *)
(* whenever none is running.                                               *)
(***************************************************************************)
EXTENDS OSBBroker, CachedObject

CONSTANTS
    MaxDeleteRequests,  \* bound: how often `kf delete-service` is run
    Disturbances        \* which of Disturbance may happen

\* An API call fails, the controller restarts, no client can be made for the
\* broker, the progress deadline passes, the Space comes or goes, bindings to
\* the instance come and go.
Disturbance == {"api", "crash", "client", "timeout", "space", "bindings"}

ASSUME DeleteRequestsAssumption == MaxDeleteRequests \in Nat
ASSUME DisturbancesAssumption == Disturbances \subseteq Disturbance

VARIABLES
    pc,         \* the running reconcile's next step, "idle" if none runs
    copy,       \* the reconciler's copy of the object (toReconcile, toUpdate)
    original,   \* the status that copy started from
    current,    \* no write happened since copy was taken
    space,      \* the Space and its Namespace, as their listers show them
    secret,     \* the parameters Secret, as its lister shows it
    bindings,   \* does the lister show a binding to this instance?
    broker,     \* the resource at the broker
    asked,      \* history: the last create or delete request to the broker
    released    \* history: why the finalizer was removed

apiVars  == <<obj, watch>>
workVars == <<copy, original, current>>
envVars  == <<space, secret, bindings>>
osbVars  == <<broker, asked>>
vars     == <<obj, watch, cache, pc, copy, original, current, space, secret,
              bindings, broker, asked, released>>

-----------------------------------------------------------------------------
(* State *)

OSBState == {"Blank", "Provisioning", "Provisioned", "ProvisionFailed",
             "Deprovisioning", "DeprovisionFailed", "Deprovisioned"}

\* The prerequisites' conditions (SpaceReady, ParamsSecretReady,
\* ParamsSecretPopulated), by the first one that does not hold.
Prerequisite == {"Nil", "NoSpace", "NoSecret", "NotOwned", "NotPopulated",
                 "Invalid", "Met"}

Status == [osb            : OSBState,
           backing        : {"Nil", "Unknown", "True", "False"},
           prereq         : Prerequisite,
           ready          : {"Derived", "DeletionBlocked", "Terminating"},
           deleteRequests : Nat,
           observed       : Nat]

\* finalizer is Kf's; held is Kubernetes' own foregroundDeletion finalizer.
Object == [exists         : BOOLEAN,
           deleting       : BOOLEAN,
           finalizer      : BOOLEAN,
           held           : BOOLEAN,
           deleteRequests : Nat,
           status         : Status]

Space  == {"ready", "missing", "terminating"}
Secret == {"missing", "unowned", "empty", "invalid", "ok"}

ApplySteps  == {"finalizer", "apply", "actuate", "provision", "poll", "applied"}
DeleteSteps == {"get", "delete", "deprovision", "pollDelete", "finalize",
                "status"}

NewStatus == [osb |-> "Blank", backing |-> "Nil", prereq |-> "Nil",
              ready |-> "Derived", deleteRequests |-> 0, observed |-> 0]

NewObject == [exists |-> TRUE, deleting |-> FALSE, finalizer |-> FALSE,
              held |-> FALSE, deleteRequests |-> 0, status |-> NewStatus]

NoObject == [NewObject EXCEPT !.exists = FALSE]

Init ==
    /\ obj = NewObject
    /\ watch = <<NewObject>>
    /\ cache = NoObject
    /\ pc = "idle"
    /\ copy = NoObject
    /\ original = NewStatus
    /\ current = FALSE
    /\ space = "ready"
    /\ secret = "missing"
    /\ bindings = FALSE
    /\ broker = "absent"
    /\ asked = "none"
    /\ released = "no"

\* metadata.generation counts spec changes and the deletion mark.
Generation(o) == o.deleteRequests + (IF o.deleting THEN 1 ELSE 0)

-----------------------------------------------------------------------------
(* The users and the environment *)

Deliver ==
    /\ DeliverNext
    /\ UNCHANGED <<obj, pc, workVars, envVars, osbVars, released>>

UserWrite(o) ==
    /\ obj.exists
    /\ Store(Settle(o))
    /\ current' = FALSE
    /\ UNCHANGED <<cache, pc, copy, original, envVars, osbVars, released>>

\* `kf delete-service`: first count the request, then delete in the foreground.
RequestDelete ==
    /\ obj.deleteRequests < MaxDeleteRequests
    /\ UserWrite([obj EXCEPT !.deleteRequests = @ + 1])

ForegroundDelete ==
    /\ ~obj.deleting /\ obj.deleteRequests > 0
    /\ UserWrite([obj EXCEPT !.deleting = TRUE, !.held = TRUE])

\* `kubectl delete`, or the namespace controller.
BackgroundDelete ==
    /\ ~obj.deleting
    /\ UserWrite([obj EXCEPT !.deleting = TRUE])

\* Kubernetes takes its finalizer off once the dependents are gone.
ForegroundDone ==
    /\ obj.held
    /\ UserWrite([obj EXCEPT !.held = FALSE])

SpaceChanges ==
    /\ "space" \in Disturbances
    /\ \/ space \in {"missing", "ready"} /\ space' \in Space \ {space}
       \/ space = "terminating" /\ space' = "missing"
    /\ UNCHANGED <<apiVars, cache, pc, workVars, secret, bindings, osbVars,
                   released>>

SecretChanges ==
    /\ \/ secret = "missing" /\ secret' \in {"unowned", "empty"}
       \/ secret = "empty" /\ secret' \in {"invalid", "ok"}
    /\ UNCHANGED <<apiVars, cache, pc, workVars, space, bindings, osbVars,
                   released>>

BindingsChange ==
    /\ "bindings" \in Disturbances
    /\ bindings' = ~bindings
    /\ UNCHANGED <<apiVars, cache, pc, workVars, space, secret, osbVars,
                   released>>

BrokerFinishes ==
    /\ \E r \in Resource : FinishStep(broker, r) /\ broker' = r
    /\ UNCHANGED <<apiVars, cache, pc, workVars, envVars, asked, released>>

-----------------------------------------------------------------------------
(* The reconciler's bookkeeping *)

\* A step that only changes the reconciler's own copy.
Local(next, status) ==
    /\ pc' = next
    /\ copy' = [copy EXCEPT !.status = status]
    /\ UNCHANGED <<apiVars, cache, original, current, envVars, osbVars,
                   released>>

\* The reconcile ends and its variables go out of scope.
Done ==
    /\ pc' = "idle"
    /\ copy' = NoObject
    /\ original' = NewStatus
    /\ current' = FALSE

Return ==
    /\ Done
    /\ UNCHANGED <<apiVars, cache, envVars, osbVars, released>>

\* The reconcile ends with a write.
WriteAndReturn(o) ==
    /\ Store(Settle(o))
    /\ Done
    /\ UNCHANGED <<cache, envVars, osbVars>>

Begin(next, status) ==
    /\ pc = "idle"
    /\ cache.exists
    /\ pc' = next
    /\ copy' = [cache EXCEPT !.status = status]
    /\ original' = cache.status
    /\ current' = (watch = <<>>)
    /\ UNCHANGED <<apiVars, cache, envVars, osbVars, released>>

Observed == [cache.status EXCEPT !.observed = Generation(cache)]

-----------------------------------------------------------------------------
(* reconcileServiceInstance: the object is not being deleted *)

\* Mutant: the deletion mark is not looked at.
BeginApplyDeleted ==
    Begin(IF cache.finalizer THEN "apply" ELSE "finalizer", cache.status)

\* Mutant: the finalizer is not registered before the changes are applied.
BeginApplyUnguarded ==
    /\ ~cache.deleting
    /\ Begin("apply", cache.status)

BeginApply ==
    /\ ~cache.deleting
    /\ Begin(IF cache.finalizer THEN "apply" ELSE "finalizer", cache.status)

AddFinalizer ==
    /\ pc = "finalizer"
    /\ current
    /\ Store([copy EXCEPT !.finalizer = TRUE])
    /\ current' = FALSE
    /\ pc' = "apply"
    /\ UNCHANGED <<cache, copy, original, envVars, osbVars, released>>

FinalizerConflict ==
    /\ pc = "finalizer"
    /\ ~current \/ "api" \in Disturbances
    /\ Return

NamespaceTerminating ==
    /\ pc = "apply"
    /\ space = "terminating"
    /\ Return

\* The first prerequisite of ApplyChanges that does not hold.
Unmet ==
    CASE space = "missing"    -> "NoSpace"
      [] secret = "missing"   -> "NoSecret"
      [] secret = "unowned"   -> "NotOwned"
      [] secret = "empty"     -> "NotPopulated"
      [] secret = "invalid"   -> "Invalid"
      [] OTHER                -> "Met"

\* InitializeConditions, then the checks in order; an invalid secret is
\* recorded but does not stop the reconcile.
CheckPrerequisites ==
    /\ pc = "apply"
    /\ space # "terminating"
    /\ Local(IF Unmet \in {"Met", "Invalid"} THEN "actuate" ELSE "applied",
             [copy.status EXCEPT
                !.observed = Generation(copy),
                !.backing = IF @ = "Nil" THEN "Unknown" ELSE @,
                !.ready = "Derived",
                !.prereq = Unmet])

IsPending == copy.status.backing = "Unknown"

AlreadyActuated ==
    /\ pc = "actuate"
    /\ ~IsPending
    /\ Local("applied", copy.status)

\* Mutant: the reason of a condition written as its status.
ProvisionedReason(how) ==
    CASE how = "error" -> [copy.status EXCEPT !.osb = "ProvisionFailed",
                                              !.backing = "False"]
      [] how = "async" -> [copy.status EXCEPT !.osb = "Provisioning",
                                              !.backing = "ProvisioningInstance"]
      [] OTHER         -> [copy.status EXCEPT !.osb = "Provisioned",
                                              !.backing = "True"]

Provisioned(how) ==
    CASE how = "error" -> [copy.status EXCEPT !.osb = "ProvisionFailed",
                                              !.backing = "False"]
      [] how = "async" -> [copy.status EXCEPT !.osb = "Provisioning",
                                              !.backing = "Unknown"]
      [] OTHER         -> [copy.status EXCEPT !.osb = "Provisioned",
                                              !.backing = "True"]

\* The condition's age is only known once it has been stored.
Timeout == "timeout" \in Disturbances /\ original.backing # "Nil"

ProvisionTimeout ==
    /\ pc = "actuate"
    /\ IsPending /\ Timeout
    /\ Local("applied", Provisioned("error"))

\* The lister misses the broker or its credentials, or they make no client.
NoClient == "client" \in Disturbances

\* GetClientForServiceInstance failed, or the request could not be built.
ProvisionImpossible ==
    /\ pc = "actuate"
    /\ IsPending
    /\ \/ NoClient
       \/ copy.status.osb = "Blank" /\ secret = "invalid"
    /\ Local("applied", [copy.status EXCEPT !.backing = "False"])

CallBroker ==
    /\ pc = "actuate"
    /\ IsPending
    /\ copy.status.osb = "Blank" => secret # "invalid"
    /\ Local(CASE copy.status.osb = "Blank"        -> "provision"
               [] copy.status.osb = "Provisioning" -> "poll"
               [] OTHER                            -> "applied",
             copy.status)

Ask(op) == asked' = op

\* A 409 ends the reconcile without a status update; a 202 is polled at once.
ProvisionInstance ==
    /\ pc = "provision"
    /\ \E a \in Answer, r \in Resource :
          /\ CreateStep(broker, a, r)
          /\ broker' = r
          /\ \/ a = "conflict" /\ Done
             \/ /\ a # "conflict"
                /\ pc' = IF a = "async" THEN "poll" ELSE "applied"
                /\ copy' = [copy EXCEPT !.status = Provisioned(a)]
                /\ UNCHANGED <<original, current>>
    /\ Ask("provision")
    /\ UNCHANGED <<apiVars, cache, envVars, released>>

\* Mutant: a temporary error while polling is recorded as an error.
ProvisionAsyncGivesUp(a) ==
    CASE a = "retry"      -> [copy.status EXCEPT !.backing = "False"]
      [] a = "inProgress" -> [copy.status EXCEPT !.backing = "Unknown"]
      [] a = "succeeded"  -> Provisioned("ok")
      [] OTHER            -> Provisioned("error")

ProvisionAsync(a) ==
    CASE a \in {"retry", "inProgress"} -> [copy.status EXCEPT !.backing = "Unknown"]
      [] a = "succeeded"               -> Provisioned("ok")
      [] OTHER                         -> Provisioned("error")

PollProvision ==
    /\ pc = "poll"
    /\ \E a \in PollAnswer :
          /\ PollCreateStep(broker, a)
          /\ Local("applied", ProvisionAsync(a))

-----------------------------------------------------------------------------
(* reconcileServiceInstance: the object is being deleted *)

BeginBlocked ==
    /\ cache.deleting /\ cache.finalizer /\ bindings
    /\ Begin("status", [Observed EXCEPT !.ready = "DeletionBlocked"])

BeginTerminating ==
    /\ cache.deleting /\ ~cache.finalizer
    /\ Begin("status", [Observed EXCEPT !.ready = "Terminating"])

BeginDelete ==
    /\ cache.deleting /\ cache.finalizer /\ ~bindings
    /\ Begin("get", Observed)

\* The live object replaces the cached copy.
GetLive ==
    /\ pc = "get"
    /\ obj.exists
    /\ pc' = "delete"
    /\ copy' = [obj EXCEPT !.status.observed = Generation(obj)]
    /\ current' = TRUE
    /\ UNCHANGED <<apiVars, cache, original, envVars, osbVars, released>>

\* On any error the client returns an empty object, which the update that
\* follows cannot find in the cache.
GetLiveFails ==
    /\ pc = "get"
    /\ ~obj.exists \/ "api" \in Disturbances
    /\ Return

\* Mutant: the comparison the other way round.
RetryDeleteSwapped == copy.status.deleteRequests > copy.deleteRequests

RetryDelete == copy.status.deleteRequests < copy.deleteRequests

\* Mutant: a failed deprovision taken for a finished one.
DeleteFinishedOnFailure ==
    copy.status.osb \in {"ProvisionFailed", "DeprovisionFailed", "Deprovisioned"}

DeleteFinished == copy.status.osb \in {"ProvisionFailed", "Deprovisioned"}

\* A failed or still provisioning instance waits for another delete command.
DeleteWaits ==
    /\ ~RetryDelete
    /\ copy.status.osb \in {"DeprovisionFailed", "Provisioning"}

DeleteDecides ==
    /\ pc = "delete"
    /\ DeleteFinished \/ DeleteWaits
    /\ Local(IF DeleteFinished THEN "finalize" ELSE "status", copy.status)

Deprovisioned(how) ==
    CASE how = "error" -> [copy.status EXCEPT !.osb = "DeprovisionFailed",
                                              !.backing = "False",
                                              !.ready = "Derived"]
      [] how = "async" -> [copy.status EXCEPT !.osb = "Deprovisioning",
                                              !.backing = "Unknown",
                                              !.ready = "Derived"]
      [] OTHER         -> [copy.status EXCEPT !.osb = "Deprovisioned",
                                              !.backing = "True",
                                              !.ready = "Derived"]

DeprovisionTimeout ==
    /\ pc = "delete"
    /\ copy.status.osb = "Deprovisioning"
    /\ "timeout" \in Disturbances
    /\ Local("status", Deprovisioned("error"))

DeprovisionImpossible ==
    /\ pc = "delete"
    /\ ~DeleteFinished /\ ~DeleteWaits
    /\ NoClient
    /\ Local("status", [copy.status EXCEPT !.backing = "False",
                                           !.ready = "Derived"])

DeleteAtBroker ==
    /\ pc = "delete"
    /\ ~DeleteFinished /\ ~DeleteWaits
    /\ Local(CASE copy.status.osb = "Provisioned" \/ RetryDelete -> "deprovision"
               [] copy.status.osb = "Deprovisioning" -> "pollDelete"
               [] OTHER -> "status",
             copy.status)

DeprovisionInstance ==
    /\ pc = "deprovision"
    /\ \E a \in Answer, r \in Resource :
          /\ DeleteStep(broker, a, r)
          /\ broker' = r
          /\ copy' = [copy EXCEPT !.status =
                [Deprovisioned(a) EXCEPT !.deleteRequests = copy.deleteRequests]]
          /\ pc' = CASE a = "error" -> "status"
                     [] a = "async" -> "pollDelete"
                     [] OTHER       -> "finalize"
    /\ Ask("deprovision")
    /\ UNCHANGED <<apiVars, cache, original, current, envVars, released>>

DeprovisionAsync(a) ==
    CASE a \in {"retry", "inProgress"} -> [copy.status EXCEPT !.backing = "Unknown",
                                                              !.ready = "Derived"]
      [] a \in {"succeeded", "gone"}   -> Deprovisioned("ok")
      [] OTHER                         -> Deprovisioned("error")

PollDeprovision ==
    /\ pc = "pollDelete"
    /\ \E a \in PollAnswer :
          /\ PollDeleteStep(broker, a)
          /\ Local(IF a \in {"succeeded", "gone"} THEN "finalize" ELSE "status",
                   DeprovisionAsync(a))

\* update(): the status in the copy is not sent, status is a subresource.
RemoveFinalizer ==
    /\ pc = "finalize"
    /\ cache.exists
    /\ current
    /\ copy.finalizer
    /\ WriteAndReturn([copy EXCEPT !.finalizer = FALSE, !.status = obj.status])
    /\ released' = IF copy.status.osb = "ProvisionFailed"
                     THEN "failed" ELSE "deprovisioned"

\* The update fails, or the live object had lost the finalizer already.
RemoveFinalizerFails ==
    /\ pc = "finalize"
    /\ ~cache.exists \/ ~current \/ ~copy.finalizer \/ "api" \in Disturbances
    /\ Return

-----------------------------------------------------------------------------
(* updateStatus *)

\* ApplyChanges left the status alone: updateStatus is not called.
NothingChanged ==
    /\ pc = "applied"
    /\ copy.status = original
    /\ Return

\* updateStatus reads the cache again and puts the whole computed status on
\* the version it finds there.
UpdateStatus ==
    /\ pc = "applied" => copy.status # original
    /\ pc \in {"applied", "status"}
    /\ cache.exists
    /\ copy.status # cache.status
    /\ watch = <<>>
    /\ WriteAndReturn([cache EXCEPT !.status = copy.status])
    /\ UNCHANGED released

UpdateStatusSkipped ==
    /\ pc \in {"applied", "status"}
    /\ ~cache.exists \/ copy.status = cache.status
    /\ Return

UpdateStatusConflict ==
    /\ pc = "applied" => copy.status # original
    /\ pc \in {"applied", "status"}
    /\ cache.exists
    /\ copy.status # cache.status
    /\ watch # <<>> \/ "api" \in Disturbances
    /\ Return

\* The controller restarts: its work is lost, its cache is listed afresh.
Restart ==
    /\ "crash" \in Disturbances
    /\ Done
    /\ Relist
    /\ UNCHANGED <<obj, envVars, osbVars, released>>

-----------------------------------------------------------------------------

Users == \/ RequestDelete \/ ForegroundDelete \/ BackgroundDelete
         \/ ForegroundDone

Environment == \/ SpaceChanges \/ SecretChanges \/ BindingsChange
               \/ BrokerFinishes \/ Deliver

ReconcileApply ==
    \/ BeginApply \/ AddFinalizer \/ FinalizerConflict \/ NamespaceTerminating
    \/ CheckPrerequisites \/ AlreadyActuated \/ ProvisionTimeout
    \/ ProvisionImpossible \/ CallBroker \/ ProvisionInstance \/ PollProvision

ReconcileDelete ==
    \/ BeginBlocked \/ BeginTerminating \/ BeginDelete \/ GetLive
    \/ GetLiveFails \/ DeleteDecides \/ DeprovisionTimeout
    \/ DeprovisionImpossible \/ DeleteAtBroker \/ DeprovisionInstance
    \/ PollDeprovision \/ RemoveFinalizer \/ RemoveFinalizerFails

ReconcileStatus ==
    \/ NothingChanged \/ UpdateStatus \/ UpdateStatusSkipped
    \/ UpdateStatusConflict

Reconcile == ReconcileApply \/ ReconcileDelete \/ ReconcileStatus

Next == Users \/ Environment \/ Reconcile \/ Restart

Spec == Init /\ [][Next]_vars

(* The code's scheduling: informers deliver, a reconcile that runs goes on, *)
(* and the next one starts (error re-queue, one-minute resync).  The broker *)
(* ends what it started, and does not answer every poll with a temporary    *)
(* error.                                                                   *)
PollEnds ==
    \/ PollProvision /\ copy'.status.osb # "Provisioning"
    \/ PollDeprovision /\ copy'.status.osb # "Deprovisioning"

Fairness ==
    /\ WF_vars(Deliver)
    /\ WF_vars(BrokerFinishes)
    /\ WF_vars(Reconcile)
    /\ SF_vars(PollEnds)

FairSpec == Spec /\ Fairness

-----------------------------------------------------------------------------
(* Properties *)

(* Every variable keeps the shape of the Go value it stands for.            *)
TypeOK ==
    /\ obj \in Object
    /\ watch \in Seq(Object)
    /\ cache \in Object
    /\ pc \in {"idle"} \cup ApplySteps \cup DeleteSteps
    /\ copy \in Object
    /\ original \in Status
    /\ current \in BOOLEAN
    /\ space \in Space
    /\ secret \in Secret
    /\ bindings \in BOOLEAN
    /\ broker \in Resource
    /\ asked \in {"none", "provision", "deprovision"}
    /\ released \in {"no", "deprovisioned", "failed"}

(* However stale the cache, however the calls fail and wherever the         *)
(* controller restarts: while the broker has the resource, the API object   *)
(* is kept by Kf's finalizer, unless the finalizer came off because         *)
(* provisioning was recorded as failed ("expect the broker to have cleaned  *)
(* things up", deleteService).                                              *)
NoOrphan == broker # "absent" => obj.finalizer \/ released = "failed"

(* Once a deprovision request was sent, no later reconcile, whatever        *)
(* version its cache shows, asks the broker to provision the instance again.*)
NeverReprovisioned ==
    [][asked = "deprovision" => asked' = "deprovision"]_asked

\* The finalizer as the guard of the resource at the broker.
Guard == IF obj.finalizer THEN "held"
         ELSE CASE released = "no"     -> "open"
                [] released = "failed" -> "abandoned"
                [] OTHER               -> "released"

External == INSTANCE ExternalResource WITH resource <- broker, guard <- Guard

(* The reconciler implements the guarded-resource promise: the finalizer is *)
(* stored before the first request, and taken off only when the resource is *)
(* gone or was given up.                                                    *)
ImplementsExternalResource == External!Spec

(* A `kf delete-service` that the status has not accounted for ends: the    *)
(* object loses its finalizer, or the failure is recorded for the user to   *)
(* retry, provided the bindings to the instance go away.                    *)
DeletionCompletes ==
    <>[]~bindings =>
      ((obj.deleting /\ obj.finalizer
          /\ obj.status.deleteRequests < obj.deleteRequests)
        ~> (~obj.finalizer \/ obj.status.osb = "DeprovisionFailed"))

(* An asynchronous provision that is recorded as running is polled until it *)
(* ends ("If there's a pending operation on the status, try again").        *)
ProvisioningResolves ==
    <>[](space = "ready") =>
      ((obj.status.osb = "Provisioning" /\ ~obj.deleting)
        ~> (obj.status.osb # "Provisioning" \/ obj.deleting))
==============================================================================
