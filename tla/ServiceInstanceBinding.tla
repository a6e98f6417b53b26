------------------------ MODULE ServiceInstanceBinding ------------------------
(***************************************************************************)
(* The reconciler of one ServiceInstanceBinding to an OSB-brokered         *)
(* instance (pkg/reconciler/serviceinstancebinding), its API object, the   *)
(* informer cache it reads (CachedObject) and the broker it calls          *)
(* (OSBBroker).  The instance is seen as its lister shows it.              *)
(*                                                                         *)
(* It differs from ServiceInstance where the code does: deletion works on  *)
(* the cached copy, an instance that is missing stops it, a binding that   *)
(* is still being made is not unbound, and a bound one gets a credentials  *)
(* Secret, from the answer to Bind or from a later GetBinding.             *)
(*                                                                         *)
(* current, as in ServiceInstance, is the optimistic lock of the           *)
(* reconciler's copy.  The work queue runs one reconcile of a key at a     *)
(* time; events, errors and the informer's resync start the next one.      *)
(***************************************************************************)
EXTENDS OSBBroker, CachedObject

CONSTANTS
    MaxUnbindRequests,  \* bound: how often `kf unbind-service` is run
    Disturbances        \* which of Disturbance may happen

\* An API call fails, the controller restarts, no client can be made for the
\* broker, the progress deadline passes, the instance stops being ready or
\* vanishes, the namespace terminates.
Disturbance == {"api", "crash", "client", "timeout", "instance", "namespace"}

ASSUME UnbindRequestsAssumption == MaxUnbindRequests \in Nat
ASSUME DisturbancesAssumption == Disturbances \subseteq Disturbance

VARIABLES
    pc,          \* the running reconcile's next step, "idle" if none runs
    copy,        \* the reconciler's copy of the object
    original,    \* the status that copy started from
    current,     \* no write happened since copy was taken
    params,      \* the parameters Secret, as its lister shows it
    instance,    \* the ServiceInstance, as its lister shows it
    terminating, \* the namespace is terminating
    credentials, \* the credentials Secret was written
    broker,      \* the binding at the broker
    asked,       \* history: the last request that created or deleted it
    released     \* history: why the finalizer was removed

apiVars  == <<obj, watch>>
workVars == <<copy, original, current>>
envVars  == <<params, instance, terminating>>
osbVars  == <<broker, asked>>
vars     == <<obj, watch, cache, pc, copy, original, current, params, instance,
              terminating, credentials, broker, asked, released>>

-----------------------------------------------------------------------------
(* State *)

OSBState == {"Blank", "Binding", "Bound", "BindFailed",
             "Unbinding", "UnbindFailed", "Unbound"}

Params   == {"missing", "empty", "invalid", "ok"}
Instance == {"missing", "pending", "ready", "failed"}

\* params and instance are the conditions on these two, creds the reference to
\* the credentials Secret with its condition.
Status == [osb            : OSBState,
           backing        : {"Nil", "Unknown", "True", "False"},
           params         : {"Nil"} \cup Params,
           instance       : {"Nil"} \cup Instance,
           creds          : {"none", "error", "written"},
           ready          : {"Derived", "Terminating"},
           unbindRequests : Nat,
           observed       : Nat]

\* finalizer is Kf's; held is Kubernetes' own foregroundDeletion finalizer.
Object == [exists         : BOOLEAN,
           deleting       : BOOLEAN,
           finalizer      : BOOLEAN,
           held           : BOOLEAN,
           unbindRequests : Nat,
           status         : Status]

ApplySteps  == {"finalizer", "apply", "actuate", "bind", "write", "poll",
                "creds", "getBinding", "rewrite", "applied"}
DeleteSteps == {"delete", "unbind", "pollDelete", "finalize", "status"}

NewStatus == [osb |-> "Blank", backing |-> "Nil", params |-> "Nil",
              instance |-> "Nil", creds |-> "none", ready |-> "Derived",
              unbindRequests |-> 0, observed |-> 0]

NewObject == [exists |-> TRUE, deleting |-> FALSE, finalizer |-> FALSE,
              held |-> FALSE, unbindRequests |-> 0, status |-> NewStatus]

NoObject == [NewObject EXCEPT !.exists = FALSE]

Init ==
    /\ obj = NewObject
    /\ watch = <<NewObject>>
    /\ cache = NoObject
    /\ pc = "idle"
    /\ copy = NoObject
    /\ original = NewStatus
    /\ current = FALSE
    /\ params = "missing"
    /\ instance = "pending"
    /\ terminating = FALSE
    /\ credentials = FALSE
    /\ broker = "absent"
    /\ asked = "none"
    /\ released = "no"

\* metadata.generation counts spec changes and the deletion mark.
Generation(o) == o.unbindRequests + (IF o.deleting THEN 1 ELSE 0)

-----------------------------------------------------------------------------
(* The users and the environment *)

Deliver ==
    /\ DeliverNext
    /\ UNCHANGED <<obj, pc, workVars, envVars, credentials, osbVars, released>>

UserWrite(o) ==
    /\ obj.exists
    /\ Store(Settle(o))
    /\ current' = FALSE
    /\ UNCHANGED <<cache, pc, copy, original, envVars, credentials, osbVars,
                   released>>

\* `kf unbind-service`: first count the request, then delete in the foreground.
RequestUnbind ==
    /\ obj.unbindRequests < MaxUnbindRequests
    /\ UserWrite([obj EXCEPT !.unbindRequests = @ + 1])

ForegroundDelete ==
    /\ ~obj.deleting /\ obj.unbindRequests > 0
    /\ UserWrite([obj EXCEPT !.deleting = TRUE, !.held = TRUE])

\* `kubectl delete`, or the namespace controller.
BackgroundDelete ==
    /\ ~obj.deleting
    /\ UserWrite([obj EXCEPT !.deleting = TRUE])

\* Kubernetes takes its finalizer off once the dependents are gone.
ForegroundDone ==
    /\ obj.held
    /\ UserWrite([obj EXCEPT !.held = FALSE])

ParamsChange ==
    /\ \/ params = "missing" /\ params' = "empty"
       \/ params = "empty" /\ params' \in {"invalid", "ok"}
    /\ UNCHANGED <<apiVars, cache, pc, workVars, instance, terminating,
                   credentials, osbVars, released>>

InstanceChanges ==
    /\ \/ instance = "pending" /\ instance' \in {"ready", "failed"}
       \/ "instance" \in Disturbances /\ instance # "missing"
            /\ instance' \in Instance \ {instance}
    /\ UNCHANGED <<apiVars, cache, pc, workVars, params, terminating,
                   credentials, osbVars, released>>

NamespaceTerminates ==
    /\ "namespace" \in Disturbances
    /\ ~terminating /\ terminating' = TRUE
    /\ UNCHANGED <<apiVars, cache, pc, workVars, params, instance, credentials,
                   osbVars, released>>

BrokerFinishes ==
    /\ \E r \in Resource : FinishStep(broker, r) /\ broker' = r
    /\ UNCHANGED <<apiVars, cache, pc, workVars, envVars, credentials, asked,
                   released>>

-----------------------------------------------------------------------------
(* The reconciler's bookkeeping *)

\* A step that only changes the reconciler's own copy.
Local(next, status) ==
    /\ pc' = next
    /\ copy' = [copy EXCEPT !.status = status]
    /\ UNCHANGED <<apiVars, cache, original, current, envVars, credentials,
                   osbVars, released>>

\* The reconcile ends and its variables go out of scope.
Done ==
    /\ pc' = "idle"
    /\ copy' = NoObject
    /\ original' = NewStatus
    /\ current' = FALSE

Return ==
    /\ Done
    /\ UNCHANGED <<apiVars, cache, envVars, credentials, osbVars, released>>

\* The reconcile ends with a write.
WriteAndReturn(o) ==
    /\ Store(Settle(o))
    /\ Done
    /\ UNCHANGED <<cache, envVars, credentials, osbVars>>

Begin(next, status) ==
    /\ pc = "idle"
    /\ cache.exists
    /\ pc' = next
    /\ copy' = [cache EXCEPT !.status = status]
    /\ original' = cache.status
    /\ current' = (watch = <<>>)
    /\ UNCHANGED <<apiVars, cache, envVars, credentials, osbVars, released>>

Observed == [cache.status EXCEPT !.observed = Generation(cache)]

-----------------------------------------------------------------------------
(* reconcileServiceBinding: the object is not being deleted *)

\* Mutant: the deletion mark is not looked at.
BeginApplyDeleted ==
    Begin(IF cache.finalizer THEN "apply" ELSE "finalizer", cache.status)

BeginApply ==
    /\ ~cache.deleting
    /\ Begin(IF cache.finalizer THEN "apply" ELSE "finalizer", cache.status)

AddFinalizer ==
    /\ pc = "finalizer"
    /\ current
    /\ Store([copy EXCEPT !.finalizer = TRUE])
    /\ current' = FALSE
    /\ pc' = "apply"
    /\ UNCHANGED <<cache, copy, original, envVars, credentials, osbVars, released>>

FinalizerConflict ==
    /\ pc = "finalizer"
    /\ ~current \/ "api" \in Disturbances
    /\ Return

NamespaceTerminating ==
    /\ pc = "apply"
    /\ terminating
    /\ Return

\* Parameters that are not JSON, and an instance that failed, are recorded but
\* do not stop the reconcile.
ParamsStop   == params \in {"missing", "empty"}
InstanceStop == instance \in {"missing", "pending"}

\* InitializeConditions, then the checks in order.
CheckPrerequisites ==
    /\ pc = "apply"
    /\ ~terminating
    /\ Local(IF ParamsStop \/ InstanceStop THEN "applied" ELSE "actuate",
             [copy.status EXCEPT
                !.observed = Generation(copy),
                !.backing = IF @ = "Nil" THEN "Unknown" ELSE @,
                !.ready = "Derived",
                !.params = params,
                !.instance = IF ParamsStop THEN @ ELSE instance])

IsPending == copy.status.backing = "Unknown"

AlreadyActuated ==
    /\ pc = "actuate"
    /\ ~IsPending
    /\ Local("creds", copy.status)

\* PropagateBindStatus
BoundBy(how) ==
    CASE how = "error" -> [copy.status EXCEPT !.osb = "BindFailed",
                                              !.backing = "False"]
      [] how = "async" -> [copy.status EXCEPT !.osb = "Binding",
                                              !.backing = "Unknown"]
      [] OTHER         -> [copy.status EXCEPT !.osb = "Bound",
                                              !.backing = "True"]

\* The condition's age is only known once it has been stored.
BindTimeout ==
    /\ pc = "actuate"
    /\ IsPending
    /\ "timeout" \in Disturbances /\ original.backing # "Nil"
    /\ Local("applied", BoundBy("error"))

\* The lister misses the broker or its credentials, or they make no client.
NoClient == "client" \in Disturbances

\* GetClientForServiceInstance failed, or the request could not be built.
BindImpossible ==
    /\ pc = "actuate"
    /\ IsPending
    /\ \/ NoClient
       \/ copy.status.osb = "Blank" /\ params = "invalid"
    /\ Local("applied", [copy.status EXCEPT !.backing = "False"])

CallBroker ==
    /\ pc = "actuate"
    /\ IsPending
    /\ copy.status.osb = "Blank" => params # "invalid"
    /\ Local(CASE copy.status.osb = "Blank"   -> "bind"
               [] copy.status.osb = "Binding" -> "poll"
               [] OTHER                       -> "creds",
             copy.status)

\* A 409 ends the reconcile without a status update, a 202 is polled at once,
\* credentials that came with the answer are written at once.
Bind ==
    /\ pc = "bind"
    /\ \E a \in Answer, r \in Resource :
          /\ CreateStep(broker, a, r)
          /\ broker' = r
          /\ \/ a = "conflict" /\ Done
             \/ /\ a # "conflict"
                /\ pc' = CASE a = "ok"    -> "write"
                           [] a = "async" -> "poll"
                           [] OTHER       -> "applied"
                /\ copy' = [copy EXCEPT !.status = BoundBy(a)]
                /\ UNCHANGED <<original, current>>
    /\ asked' = "bind"
    /\ UNCHANGED <<apiVars, cache, envVars, credentials, released>>

\* Mutant: a state that is not known is stored as it came.
BoundAsyncRaw(a) ==
    CASE a \in {"retry", "inProgress"} -> [copy.status EXCEPT !.backing = "Unknown"]
      [] a = "succeeded"               -> BoundBy("ok")
      [] OTHER                         -> [copy.status EXCEPT !.osb = a]

\* Mutant: an operation in progress taken for a finished one.
BoundAsyncEarly(a) ==
    CASE a = "retry"                       -> [copy.status EXCEPT !.backing = "Unknown"]
      [] a \in {"inProgress", "succeeded"} -> BoundBy("ok")
      [] OTHER                             -> BoundBy("error")

\* PropagateBindLastOperationStatus
BoundAsync(a) ==
    CASE a \in {"retry", "inProgress"} -> [copy.status EXCEPT !.backing = "Unknown"]
      [] a = "succeeded"               -> BoundBy("ok")
      [] OTHER                         -> BoundBy("error")

PollBind ==
    /\ pc = "poll"
    /\ \E a \in PollAnswer :
          /\ PollCreateStep(broker, a)
          /\ Local("creds", BoundAsync(a))

-----------------------------------------------------------------------------
(* The credentials Secret *)

\* createBindingSecretAndUpdateStatus, after Bind or after GetBinding.
WriteCredentials ==
    /\ pc \in {"write", "rewrite"}
    /\ credentials' = TRUE
    /\ pc' = IF pc = "write" THEN "creds" ELSE "applied"
    /\ copy' = [copy EXCEPT !.status.creds = "written"]
    /\ UNCHANGED <<apiVars, cache, original, current, envVars, osbVars, released>>

\* The error is not returned, and not even recorded if an update failed.
WriteCredentialsFails ==
    /\ pc \in {"write", "rewrite"}
    /\ "api" \in Disturbances
    /\ \E c \in {"error", copy.status.creds} :
          Local(IF pc = "write" THEN "creds" ELSE "applied",
                [copy.status EXCEPT !.creds = c])

\* Mutant: credentials that could not be fetched are not asked for again.
NeedsCredentialsOnce == copy.status.osb = "Bound" /\ copy.status.creds = "none"

NeedsCredentials == copy.status.osb = "Bound" /\ copy.status.creds # "written"

CredentialsSettled ==
    /\ pc = "creds"
    /\ ~NeedsCredentials
    /\ Local("applied", copy.status)

FetchCredentials ==
    /\ pc = "creds"
    /\ NeedsCredentials
    /\ Local("getBinding", copy.status)

GetBinding ==
    /\ pc = "getBinding"
    /\ broker = "present"
    /\ Local("rewrite", copy.status)

\* No client, or an error from the broker.
GetBindingFails ==
    /\ pc = "getBinding"
    /\ Local("applied", [copy.status EXCEPT !.creds = "error"])

-----------------------------------------------------------------------------
(* reconcileServiceBinding: the object is being deleted *)

BeginTerminating ==
    /\ cache.deleting /\ ~cache.finalizer
    /\ Begin("status", [Observed EXCEPT !.ready = "Terminating"])

BeginDelete ==
    /\ cache.deleting /\ cache.finalizer
    /\ Begin("delete", Observed)

InstanceGone ==
    /\ pc = "delete"
    /\ instance = "missing"
    /\ Local("status", [copy.status EXCEPT !.backing = "False",
                                           !.ready = "Derived"])

\* Mutant: a failed unbind taken for a finished one.
DeleteFinishedOnFailure ==
    copy.status.osb \in {"BindFailed", "UnbindFailed", "Unbound"}

DeleteFinished == copy.status.osb \in {"BindFailed", "Unbound"}

\* Mutant: the comparison the other way round.
RetryUnbindSwapped == copy.status.unbindRequests > copy.unbindRequests

RetryUnbind == copy.status.unbindRequests # copy.unbindRequests

\* A binding that is still being made is left alone; a failed one waits for
\* another unbind command.
DeleteWaits ==
    \/ copy.status.osb = "Binding"
    \/ copy.status.osb = "UnbindFailed" /\ ~RetryUnbind

DeleteDecides ==
    /\ pc = "delete"
    /\ instance # "missing"
    /\ DeleteFinished \/ DeleteWaits
    /\ Local(IF DeleteFinished THEN "finalize" ELSE "status", copy.status)

\* PropagateUnbindStatus
UnboundBy(how) ==
    CASE how = "error" -> [copy.status EXCEPT !.osb = "UnbindFailed",
                                              !.backing = "False",
                                              !.ready = "Derived"]
      [] how = "async" -> [copy.status EXCEPT !.osb = "Unbinding",
                                              !.backing = "Unknown",
                                              !.ready = "Derived"]
      [] OTHER         -> [copy.status EXCEPT !.osb = "Unbound",
                                              !.backing = "True",
                                              !.ready = "Derived"]

UnbindTimeout ==
    /\ pc = "delete"
    /\ instance # "missing"
    /\ copy.status.osb = "Unbinding"
    /\ "timeout" \in Disturbances
    /\ Local("status", UnboundBy("error"))

UnbindImpossible ==
    /\ pc = "delete"
    /\ instance # "missing"
    /\ ~DeleteFinished /\ ~DeleteWaits
    /\ NoClient
    /\ Local("status", [copy.status EXCEPT !.backing = "False",
                                           !.ready = "Derived"])

DeleteAtBroker ==
    /\ pc = "delete"
    /\ instance # "missing"
    /\ ~DeleteFinished /\ ~DeleteWaits
    /\ Local(CASE copy.status.osb = "Bound" \/ RetryUnbind -> "unbind"
               [] copy.status.osb = "Unbinding" -> "pollDelete"
               [] OTHER -> "status",
             copy.status)

Unbind ==
    /\ pc = "unbind"
    /\ \E a \in Answer, r \in Resource :
          /\ DeleteStep(broker, a, r)
          /\ broker' = r
          /\ copy' = [copy EXCEPT !.status =
                [UnboundBy(a) EXCEPT !.unbindRequests = copy.unbindRequests]]
          /\ pc' = CASE a = "error" -> "status"
                     [] a = "async" -> "pollDelete"
                     [] OTHER       -> "finalize"
    /\ asked' = "unbind"
    /\ UNCHANGED <<apiVars, cache, original, current, envVars, credentials,
                   released>>

\* PropagateUnbindLastOperationStatus
UnboundAsync(a) ==
    CASE a \in {"retry", "inProgress"} -> [copy.status EXCEPT !.backing = "Unknown",
                                                              !.ready = "Derived"]
      [] a \in {"succeeded", "gone"}   -> UnboundBy("ok")
      [] OTHER                         -> UnboundBy("error")

PollUnbind ==
    /\ pc = "pollDelete"
    /\ \E a \in PollAnswer :
          /\ PollDeleteStep(broker, a)
          /\ Local(IF a \in {"succeeded", "gone"} THEN "finalize" ELSE "status",
                   UnboundAsync(a))

\* update(): the status in the copy is not sent, status is a subresource.
RemoveFinalizer ==
    /\ pc = "finalize"
    /\ cache.exists
    /\ current
    /\ WriteAndReturn([copy EXCEPT !.finalizer = FALSE, !.status = obj.status])
    /\ released' = IF copy.status.osb = "BindFailed" THEN "failed" ELSE "unbound"

RemoveFinalizerFails ==
    /\ pc = "finalize"
    /\ ~cache.exists \/ ~current \/ "api" \in Disturbances
    /\ Return

-----------------------------------------------------------------------------
(* updateStatus *)

\* ApplyChanges left the status alone: updateStatus is not called.
NothingChanged ==
    /\ pc = "applied"
    /\ copy.status = original
    /\ Return

\* updateStatus reads the cache again and puts the whole computed status on
\* the version it finds there.
UpdateStatus ==
    /\ pc = "applied" => copy.status # original
    /\ pc \in {"applied", "status"}
    /\ cache.exists
    /\ copy.status # cache.status
    /\ watch = <<>>
    /\ WriteAndReturn([cache EXCEPT !.status = copy.status])
    /\ UNCHANGED released

UpdateStatusSkipped ==
    /\ pc \in {"applied", "status"}
    /\ ~cache.exists \/ copy.status = cache.status
    /\ Return

UpdateStatusConflict ==
    /\ pc = "applied" => copy.status # original
    /\ pc \in {"applied", "status"}
    /\ cache.exists
    /\ copy.status # cache.status
    /\ watch # <<>> \/ "api" \in Disturbances
    /\ Return

\* The controller restarts: its work is lost, its cache is listed afresh.
Restart ==
    /\ "crash" \in Disturbances
    /\ Done
    /\ Relist
    /\ UNCHANGED <<obj, envVars, credentials, osbVars, released>>

-----------------------------------------------------------------------------

Users == \/ RequestUnbind \/ ForegroundDelete \/ BackgroundDelete
         \/ ForegroundDone

Environment == \/ ParamsChange \/ InstanceChanges \/ NamespaceTerminates
               \/ BrokerFinishes \/ Deliver

ReconcileApply ==
    \/ BeginApply \/ AddFinalizer \/ FinalizerConflict \/ NamespaceTerminating
    \/ CheckPrerequisites \/ AlreadyActuated \/ BindTimeout \/ BindImpossible
    \/ CallBroker \/ Bind \/ PollBind \/ WriteCredentials
    \/ WriteCredentialsFails \/ CredentialsSettled \/ FetchCredentials
    \/ GetBinding \/ GetBindingFails

ReconcileDelete ==
    \/ BeginTerminating \/ BeginDelete \/ InstanceGone \/ DeleteDecides
    \/ UnbindTimeout \/ UnbindImpossible \/ DeleteAtBroker \/ Unbind
    \/ PollUnbind \/ RemoveFinalizer \/ RemoveFinalizerFails

ReconcileStatus ==
    \/ NothingChanged \/ UpdateStatus \/ UpdateStatusSkipped
    \/ UpdateStatusConflict

Reconcile == ReconcileApply \/ ReconcileDelete \/ ReconcileStatus

Next == Users \/ Environment \/ Reconcile \/ Restart

Spec == Init /\ [][Next]_vars

(* The code's scheduling: informers deliver, a reconcile that runs goes on, *)
(* and another one follows (an event, an error, the informer's resync).     *)
(* The broker ends what it started, does not answer every poll with a       *)
(* temporary error, and answers GetBinding in the end; a client for it can  *)
(* be made in the end.                                                      *)
PollEnds ==
    \/ PollBind /\ copy'.status.osb # "Binding"
    \/ PollUnbind /\ copy'.status.osb # "Unbinding"

Fairness ==
    /\ WF_vars(Deliver)
    /\ WF_vars(BrokerFinishes)
    /\ WF_vars(Reconcile)
    /\ SF_vars(PollEnds)
    /\ SF_vars(GetBinding)
    /\ SF_vars(DeleteAtBroker)

FairSpec == Spec /\ Fairness

-----------------------------------------------------------------------------
(* Properties *)

(* Every variable keeps the shape of the Go value it stands for.            *)
TypeOK ==
    /\ obj \in Object
    /\ watch \in Seq(Object)
    /\ cache \in Object
    /\ pc \in {"idle"} \cup ApplySteps \cup DeleteSteps
    /\ copy \in Object
    /\ original \in Status
    /\ current \in BOOLEAN
    /\ params \in Params
    /\ instance \in Instance
    /\ terminating \in BOOLEAN
    /\ credentials \in BOOLEAN
    /\ broker \in Resource
    /\ asked \in {"none", "bind", "unbind"}
    /\ released \in {"no", "unbound", "failed"}

(* Whatever the cache showed and whichever reconcile wrote last: as long as *)
(* the binding is not being deleted, a status that says "Bound", or         *)
(* credentials handed to the App, stand for a binding the broker has.       *)
BoundIsReal ==
    ~obj.deleting /\ (obj.status.osb = "Bound" \/ credentials)
        => broker = "present"

(* Once an unbind was sent, no later reconcile, whatever version its cache  *)
(* shows, binds again.                                                      *)
NeverRebound == [][asked = "unbind" => asked' = "unbind"]_asked

\* The finalizer as the guard of the binding at the broker.
Guard == IF obj.finalizer THEN "held"
         ELSE CASE released = "no"     -> "open"
                [] released = "failed" -> "abandoned"
                [] OTHER               -> "released"

External == INSTANCE ExternalResource WITH resource <- broker, guard <- Guard

(* The reconciler implements the guarded-resource promise although it       *)
(* deletes from a cached copy: the finalizer is stored before the first     *)
(* Bind, and taken off only when the binding is gone or was given up.       *)
ImplementsExternalResource == External!Spec

(* A binding that is bound and not deleted does not stay without its        *)
(* credentials: a failed GetBinding is repeated although the backing        *)
(* resource counts as actuated.                                             *)
CredentialsArrive ==
    (<>[](instance = "ready" /\ ~terminating)) =>
      ((obj.status.osb = "Bound" /\ ~obj.deleting)
        ~> (obj.status.creds = "written" \/ obj.status.osb # "Bound"
              \/ obj.deleting))

\* From some time on, reconciles start from an up-to-date cache.
InformerKeepsUp == <>[][pc = "idle" /\ pc' # "idle" => watch = <<>>]_vars

(* A `kf unbind-service` that the status has not accounted for ends, unless *)
(* the binding was still being made: the object loses its finalizer, or the *)
(* failure is recorded for the user to retry.  Deletion works on the cached  *)
(* copy, so the informer has to keep up: two versions could otherwise take  *)
(* turns in overwriting each other.                                         *)
UnbindCompletes ==
    InformerKeepsUp /\ <>[](instance # "missing") =>
      ((obj.deleting /\ obj.finalizer /\ obj.status.osb # "Binding"
          /\ obj.status.unbindRequests # obj.unbindRequests)
        ~> (~obj.finalizer \/ obj.status.osb \in {"UnbindFailed", "Binding"}))
==============================================================================
