------------------------ MODULE ServiceInstanceProofs ------------------------
(***************************************************************************)
(* Proofs about ServiceInstance, for every bound and every set of          *)
(* disturbances.                                                           *)
(*                                                                         *)
(* NoOrphan is not inductive: it needs to know that a reconcile which      *)
(* started from a cached version without a deletion mark cannot run once   *)
(* the finalizer is off, that the cache only moves forward through the     *)
(* versions, and that a held copy which is still current equals the        *)
(* stored object.  IInv is the conjunction of these facts.                 *)
(***************************************************************************)
EXTENDS ServiceInstance, SequenceTheorems, TLAPS

-----------------------------------------------------------------------------
(* The versions of the cached object: how a write, a delivery and a relist *)
(* move them.  S is the set of objects.                                    *)

\* What the informer shows, will show, and what is stored.
Versions == {cache, obj} \cup {watch[i] : i \in 1 .. Len(watch)}

\* The cache, then the undelivered versions, then the object: the deletion
\* mark is never taken back along this line, and its last version is obj.
Ordered ==
    /\ cache.deleting => obj.deleting
    /\ watch = <<>> => cache = obj
    /\ watch # <<>> => watch[Len(watch)] = obj
    /\ \A i \in 1 .. Len(watch) :
          /\ cache.deleting => watch[i].deleting
          /\ watch[i].deleting => obj.deleting
          /\ \A j \in i .. Len(watch) : watch[i].deleting => watch[j].deleting

-----------------------------------------------------------------------------
(* The shape of the steps *)

(* A write appends one version and leaves the earlier ones alone.           *)
LEMMA StoreShape ==
    ASSUME NEW S, watch \in Seq(S), NEW o \in S, Store(o)
    PROVE  /\ obj' = o
           /\ watch' \in Seq(S)
           /\ Len(watch') = Len(watch) + 1 /\ Len(watch) \in Nat
           /\ watch'[Len(watch')] = o
           /\ \A i \in 1 .. Len(watch) : watch'[i] = watch[i]
           /\ watch' # <<>>
BY DEF Store

(* A delivery moves the first pending version into the cache.               *)
LEMMA DeliverShape ==
    ASSUME NEW S, watch \in Seq(S), DeliverNext
    PROVE  /\ Len(watch) \in Nat \ {0}
           /\ watch' \in Seq(S)
           /\ cache' = watch[1] /\ cache' \in S
           /\ Len(watch') = Len(watch) - 1
           /\ \A i \in 1 .. Len(watch') : watch'[i] = watch[i + 1]
           /\ watch' = <<>> <=> Len(watch) = 1
<1>1. watch # <<>> /\ watch' = Tail(watch) /\ cache' = Head(watch)
  BY DEF DeliverNext
<1>2. Len(watch) \in Nat \ {0} /\ Head(watch) = watch[1] /\ watch[1] \in S
  BY <1>1
<1>3. /\ Tail(watch) \in Seq(S)
      /\ Len(Tail(watch)) = Len(watch) - 1
      /\ \A i \in 1 .. Len(watch) - 1 : Tail(watch)[i] = watch[i + 1]
  BY <1>1, <1>2
<1>4. Tail(watch) = <<>> <=> Len(Tail(watch)) = 0
  BY <1>3, EmptySeq
<1> QED  BY <1>1, <1>2, <1>3, <1>4

-----------------------------------------------------------------------------
(* Which versions there are *)

(* The only version a write adds is the one written.                        *)
LEMMA VersionsStored ==
    ASSUME NEW S, watch \in Seq(S), NEW o \in S, Store(o), cache' = cache
    PROVE  Versions' \subseteq Versions \cup {o}
<1>1. /\ obj' = o
      /\ Len(watch') = Len(watch) + 1 /\ Len(watch) \in Nat
      /\ watch'[Len(watch')] = o
      /\ \A i \in 1 .. Len(watch) : watch'[i] = watch[i]
  BY StoreShape
<1>2. ASSUME NEW i \in 1 .. Len(watch')
      PROVE  watch'[i] \in Versions \cup {o}
  <2>1. CASE i = Len(watch')
    BY <1>1, <2>1
  <2>2. CASE i # Len(watch')
    <3>1. i \in 1 .. Len(watch)
      BY <1>1, <2>2
    <3> QED  BY <1>1, <3>1 DEF Versions
  <2> QED  BY <2>1, <2>2
<1> QED  BY <1>1, <1>2 DEF Versions

(* A delivery adds none.                                                    *)
LEMMA VersionsDelivered ==
    ASSUME NEW S, watch \in Seq(S), DeliverNext, obj' = obj
    PROVE  Versions' \subseteq Versions
<1>1. /\ Len(watch) \in Nat \ {0} /\ cache' = watch[1]
      /\ Len(watch') = Len(watch) - 1
      /\ \A i \in 1 .. Len(watch') : watch'[i] = watch[i + 1]
  BY DeliverShape
<1>2. ASSUME NEW i \in 1 .. Len(watch')
      PROVE  watch'[i] \in Versions
  <2>1. i + 1 \in 1 .. Len(watch)
    BY <1>1
  <2> QED  BY <1>1, <2>1 DEF Versions
<1> QED  BY <1>1, <1>2 DEF Versions

(* A controller that lists the objects afresh has only the stored one.      *)
LEMMA VersionsRelisted ==
    ASSUME Relist, obj' = obj
    PROVE  Versions' = {obj}
<1>1. cache' = obj /\ Len(watch') = 0
  BY DEF Relist
<1> QED  BY <1>1 DEF Versions

-----------------------------------------------------------------------------
(* The order of the versions *)

(* A write that keeps the deletion mark keeps the versions in order.        *)
LEMMA OrderedStored ==
    ASSUME NEW S, watch \in Seq(S), NEW o \in S, Store(o), cache' = cache,
           Ordered, obj.deleting => o.deleting
    PROVE  Ordered'
<1>1. /\ obj' = o
      /\ Len(watch') = Len(watch) + 1 /\ Len(watch) \in Nat
      /\ watch'[Len(watch')] = o
      /\ \A i \in 1 .. Len(watch) : watch'[i] = watch[i]
      /\ watch' # <<>>
  BY StoreShape
<1>2. ASSUME NEW i \in 1 .. Len(watch')
      PROVE  /\ cache.deleting => watch'[i].deleting
             /\ watch'[i].deleting => o.deleting
             /\ \A j \in i .. Len(watch') : watch'[i].deleting => watch'[j].deleting
  <2>1. CASE i = Len(watch')
    BY <1>1, <2>1 DEF Ordered
  <2>2. CASE i # Len(watch')
    <3>1. i \in 1 .. Len(watch) /\ watch'[i] = watch[i]
      BY <1>1, <2>2
    <3>2. /\ cache.deleting => watch[i].deleting
          /\ watch[i].deleting => obj.deleting
          /\ \A j \in i .. Len(watch) : watch[i].deleting => watch[j].deleting
      BY <3>1 DEF Ordered
    <3>3. ASSUME NEW j \in i .. Len(watch'), watch'[i].deleting
          PROVE  watch'[j].deleting
      <4>1. CASE j = Len(watch')
        BY <1>1, <3>1, <3>2, <3>3, <4>1
      <4>2. CASE j # Len(watch')
        BY <1>1, <3>1, <3>2, <3>3, <4>2
      <4> QED  BY <4>1, <4>2
    <3> QED  BY <3>1, <3>2, <3>3
  <2> QED  BY <2>1, <2>2
<1> QED  BY <1>1, <1>2 DEF Ordered

(* A delivery keeps the order, and the cache never loses the deletion mark. *)
LEMMA OrderedDelivered ==
    ASSUME NEW S, watch \in Seq(S), DeliverNext, obj' = obj, Ordered
    PROVE  Ordered' /\ (cache.deleting => cache'.deleting)
<1>1. /\ Len(watch) \in Nat \ {0} /\ cache' = watch[1]
      /\ Len(watch') = Len(watch) - 1
      /\ \A i \in 1 .. Len(watch') : watch'[i] = watch[i + 1]
      /\ watch' = <<>> <=> Len(watch) = 1
  BY DeliverShape
<1>2. watch[Len(watch)] = obj
  BY DEF DeliverNext, Ordered
<1>3. /\ cache.deleting => watch[1].deleting
      /\ watch[1].deleting => obj.deleting
      /\ \A j \in 1 .. Len(watch) : watch[1].deleting => watch[j].deleting
  BY <1>1 DEF Ordered
<1>4. ASSUME NEW i \in 1 .. Len(watch')
      PROVE  /\ cache'.deleting => watch'[i].deleting
             /\ watch'[i].deleting => obj'.deleting
             /\ \A j \in i .. Len(watch') : watch'[i].deleting => watch'[j].deleting
  <2>1. i + 1 \in 1 .. Len(watch) /\ watch'[i] = watch[i + 1]
    BY <1>1
  <2>2. /\ watch[i + 1].deleting => obj.deleting
        /\ \A j \in i + 1 .. Len(watch) : watch[i + 1].deleting => watch[j].deleting
    BY <2>1 DEF Ordered
  <2>3. ASSUME NEW j \in i .. Len(watch'), watch'[i].deleting
        PROVE  watch'[j].deleting
    <3>1. j \in 1 .. Len(watch') /\ j + 1 \in i + 1 .. Len(watch)
      BY <1>1
    <3>2. watch'[j] = watch[j + 1]
      BY <1>1, <3>1
    <3> QED  BY <2>1, <2>2, <2>3, <3>1, <3>2
  <2> QED  BY <1>1, <1>3, <2>1, <2>2, <2>3
<1>5. watch' = <<>> => cache' = obj'
  BY <1>1, <1>2
<1>6. watch' # <<>> => watch'[Len(watch')] = obj'
  BY <1>1, <1>2
<1> QED
  BY <1>1, <1>3, <1>4, <1>5, <1>6 DEF Ordered

(* A relist makes the cache the stored object.                              *)
LEMMA OrderedRelisted ==
    ASSUME Relist, obj' = obj, Ordered
    PROVE  Ordered' /\ (cache.deleting => cache'.deleting)
<1>1. cache' = obj /\ watch' = <<>> /\ Len(watch') = 0
  BY DEF Relist
<1> QED  BY <1>1 DEF Ordered

-----------------------------------------------------------------------------
(* The inductive invariant *)

\* What the reconciler holds, as long as it is current, is the stored object.
HeldCurrent ==
    current => /\ copy.deleting = obj.deleting
               /\ copy.finalizer = obj.finalizer

\* Until the finalizer is removed, no version has a finalizer obj lacks.
FinalizerKept ==
    released = "no" => \A v \in Versions : v.finalizer => obj.finalizer

\* Removing it, or asking for deprovisioning, takes a reconcile that saw the
\* deletion mark; from then on every reconcile sees it.
DeletionSeen ==
    /\ pc \in DeleteSteps => cache.deleting
    /\ released # "no" \/ asked = "deprovision" =>
          cache.deleting /\ pc \notin ApplySteps
    /\ obj.finalizer => released = "no"

\* Past its first step, a reconcile that applies changes has the finalizer.
AppliesGuarded == pc \in ApplySteps \ {"finalizer"} => obj.finalizer

\* "Deprovisioned" never reaches the stored status: it ends the reconcile.
NeverStored ==
    /\ \A v \in Versions : v.status.osb # "Deprovisioned"
    /\ copy.status.osb = "Deprovisioned" => pc = "finalize"

\* The finalizer is about to be removed for one of two reasons.
FinalizeJustified ==
    pc = "finalize" => copy.status.osb = "ProvisionFailed" \/ broker = "absent"

IInv ==
    /\ TypeOK
    /\ Ordered
    /\ HeldCurrent
    /\ FinalizerKept
    /\ DeletionSeen
    /\ AppliesGuarded
    /\ NeverStored
    /\ FinalizeJustified
    /\ NoOrphan

-----------------------------------------------------------------------------
(* Lemmas on the operators *)

(* The API server keeps or drops an object, and changes nothing else in it.  *)
LEMMA SettleKeeps ==
    ASSUME NEW o \in Object
    PROVE  /\ Settle(o) \in Object
           /\ Settle(o).deleting = o.deleting
           /\ Settle(o).finalizer = o.finalizer
           /\ Settle(o).status = o.status
BY DEF Settle, Object

(* Changing one field of an object keeps it an object.                      *)
LEMMA FieldTyped ==
    ASSUME NEW o \in Object
    PROVE  /\ \A n \in Nat : [o EXCEPT !.deleteRequests = n] \in Object
           /\ \A b \in BOOLEAN : [o EXCEPT !.deleting = b] \in Object
           /\ \A b \in BOOLEAN : [o EXCEPT !.held = b] \in Object
           /\ \A b \in BOOLEAN : [o EXCEPT !.finalizer = b] \in Object
           /\ \A st \in Status : [o EXCEPT !.status = st] \in Object
           /\ o.deleteRequests \in Nat /\ o.status \in Status
BY DEF Object

(* A write stores an object and appends it to the watch stream.             *)
LEMMA StoreTyped ==
    ASSUME NEW o \in Object, watch \in Seq(Object), Store(o)
    PROVE  obj' \in Object /\ watch' \in Seq(Object)
BY DEF Store

(* Every status the reconciler computes from its copy is a status.          *)
LEMMA StatusTyped ==
    ASSUME copy \in Object, NEW a
    PROVE  /\ copy.status \in Status
           /\ Provisioned(a) \in Status
           /\ ProvisionAsync(a) \in Status
           /\ Deprovisioned(a) \in Status
           /\ DeprovisionAsync(a) \in Status
<1>1. copy.status \in Status
  BY DEF Object
<1>2. Provisioned("ok") \in Status /\ Provisioned("error") \in Status
      /\ Provisioned(a) \in Status
  BY <1>1 DEF Provisioned, Status, OSBState
<1>3. Deprovisioned("ok") \in Status /\ Deprovisioned("error") \in Status
      /\ Deprovisioned(a) \in Status
  BY <1>1 DEF Deprovisioned, Status, OSBState
<1>4. ProvisionAsync(a) \in Status
  BY <1>1, <1>2 DEF ProvisionAsync, Status
<1>5. DeprovisionAsync(a) \in Status
  BY <1>1, <1>3 DEF DeprovisionAsync, Status
<1> QED  BY <1>1, <1>2, <1>3, <1>4, <1>5

(* metadata.generation is a natural number.                                 *)
LEMMA GenerationTyped ==
    ASSUME NEW o \in Object
    PROVE  Generation(o) \in Nat
BY DEF Generation, Object

-----------------------------------------------------------------------------
(* Type correctness *)

(* The step forms shared by the actions keep the types.                     *)
LEMMA LocalTyped ==
    ASSUME TypeOK, NEW next \in ApplySteps \cup DeleteSteps,
           NEW status \in Status, Local(next, status)
    PROVE  TypeOK'
<1>1. copy' \in Object
  BY DEF TypeOK, Local, Object
<1> QED
  BY <1>1 DEF TypeOK, Local, apiVars, envVars, osbVars

(* The variables a finished reconcile leaves behind are well-typed.         *)
LEMMA DoneTyped ==
    ASSUME Done
    PROVE  /\ pc' = "idle" /\ copy' \in Object /\ original' \in Status
           /\ current' \in BOOLEAN
BY DEF Done, NoObject, NewObject, NewStatus, Object, Status, OSBState, Prerequisite

(* Returning without a write keeps the types.                               *)
LEMMA ReturnTyped ==
    ASSUME TypeOK, Return
    PROVE  TypeOK'
BY DoneTyped DEF TypeOK, Return, apiVars, envVars, osbVars

(* Starting a reconcile from the cached version keeps the types.            *)
LEMMA BeginTyped ==
    ASSUME TypeOK, NEW next \in ApplySteps \cup DeleteSteps,
           NEW status \in Status, Begin(next, status)
    PROVE  TypeOK'
<1>1. copy' \in Object /\ original' \in Status
  BY DEF TypeOK, Begin, Object
<1> QED
  BY <1>1 DEF TypeOK, Begin, apiVars, envVars, osbVars

(* A user's write of an object keeps the types.                             *)
LEMMA UserWriteTyped ==
    ASSUME TypeOK, NEW o \in Object, UserWrite(o)
    PROVE  TypeOK'
<1>1. obj' \in Object /\ watch' \in Seq(Object)
  BY SettleKeeps, StoreTyped DEF TypeOK, UserWrite
<1> QED
  BY <1>1 DEF TypeOK, UserWrite, envVars, osbVars

(* A reconcile's last write keeps the types.                                *)
LEMMA WriteAndReturnTyped ==
    ASSUME TypeOK, NEW o \in Object, WriteAndReturn(o),
           released' \in {"no", "deprovisioned", "failed"}
    PROVE  TypeOK'
<1>1. obj' \in Object /\ watch' \in Seq(Object)
  BY SettleKeeps, StoreTyped DEF TypeOK, WriteAndReturn
<1> QED
  BY <1>1, DoneTyped DEF TypeOK, WriteAndReturn, envVars, osbVars

(* The record of the last request to the broker stays well-typed.           *)
LEMMA AskTyped ==
    ASSUME TypeOK, NEW op \in {"provision", "deprovision"}, Ask(op)
    PROVE  asked' \in {"none", "provision", "deprovision"}
BY DEF TypeOK, Ask, Object

(* Every step of every actor keeps the types.                               *)
LEMMA TypeStep == TypeOK /\ [Next]_vars => TypeOK'
<1> SUFFICES ASSUME TypeOK, [Next]_vars
             PROVE  TypeOK'
  OBVIOUS
<1> USE DEF ApplySteps, DeleteSteps
<1>1. CASE RequestDelete
  <2>1. [obj EXCEPT !.deleteRequests = @ + 1] \in Object
    <3>1. obj \in Object
      BY DEF TypeOK
    <3>2. obj.deleteRequests + 1 \in Nat
      BY <3>1, FieldTyped
    <3> QED  BY <3>1, <3>2, FieldTyped
  <2> QED  BY <1>1, <2>1, UserWriteTyped DEF RequestDelete
<1>2. CASE ForegroundDelete \/ BackgroundDelete \/ ForegroundDone
  <2>1. /\ [obj EXCEPT !.deleting = TRUE, !.held = TRUE] \in Object
        /\ [obj EXCEPT !.deleting = TRUE] \in Object
        /\ [obj EXCEPT !.held = FALSE] \in Object
    BY DEF TypeOK, Object
  <2> QED
    BY <1>2, <2>1, UserWriteTyped
    DEF ForegroundDelete, BackgroundDelete, ForegroundDone
<1>3. CASE Deliver
  <2>1. Head(watch) \in Object /\ Tail(watch) \in Seq(Object)
    BY <1>3 DEF TypeOK, Deliver, DeliverNext
  <2> QED
    BY <1>3, <2>1 DEF TypeOK, Deliver, DeliverNext, workVars, envVars, osbVars
<1>4. CASE SpaceChanges \/ SecretChanges \/ BindingsChange
  <2>1. space' \in Space /\ secret' \in Secret /\ bindings' \in BOOLEAN
    <3>1. CASE SpaceChanges
      BY <3>1 DEF TypeOK, SpaceChanges, Space
    <3>2. CASE SecretChanges
      BY <3>2 DEF TypeOK, SecretChanges, Secret
    <3>3. CASE BindingsChange
      BY <3>3 DEF TypeOK, BindingsChange
    <3> QED  BY <1>4, <3>1, <3>2, <3>3
  <2>2. UNCHANGED <<apiVars, cache, pc, workVars, osbVars, released>>
    BY <1>4 DEF SpaceChanges, SecretChanges, BindingsChange
  <2> QED
    BY <2>1, <2>2 DEF TypeOK, apiVars, workVars, osbVars
<1>5. CASE BrokerFinishes
  BY <1>5 DEF TypeOK, BrokerFinishes, apiVars, workVars, envVars
<1>6. CASE BeginApply
  <2>1. cache.status \in Status
    BY DEF TypeOK, Object
  <2> QED  BY <1>6, <2>1, BeginTyped DEF BeginApply
<1>7. CASE AddFinalizer
  <2>1. [copy EXCEPT !.finalizer = TRUE] \in Object
    BY DEF TypeOK, Object
  <2>2. obj' \in Object /\ watch' \in Seq(Object)
    BY <1>7, <2>1, StoreTyped DEF TypeOK, AddFinalizer
  <2> QED
    BY <1>7, <2>2 DEF TypeOK, AddFinalizer, envVars, osbVars
<1>8. CASE \/ FinalizerConflict \/ NamespaceTerminating \/ GetLiveFails
           \/ RemoveFinalizerFails \/ NothingChanged \/ UpdateStatusSkipped
           \/ UpdateStatusConflict
  BY <1>8, ReturnTyped
  DEF FinalizerConflict, NamespaceTerminating, GetLiveFails,
      RemoveFinalizerFails, NothingChanged, UpdateStatusSkipped,
      UpdateStatusConflict
<1>9. CASE CheckPrerequisites
  <2>1. Unmet \in Prerequisite
    BY DEF Unmet, Prerequisite
  <2>2. copy.status \in Status /\ Generation(copy) \in Nat
    BY StatusTyped, GenerationTyped DEF TypeOK
  <2>3. [copy.status EXCEPT !.observed = Generation(copy),
                            !.backing = IF @ = "Nil" THEN "Unknown" ELSE @,
                            !.ready = "Derived",
                            !.prereq = Unmet] \in Status
    BY <2>1, <2>2 DEF Status
  <2> QED  BY <1>9, <2>3, LocalTyped DEF CheckPrerequisites
<1>10. CASE AlreadyActuated \/ CallBroker \/ DeleteDecides \/ DeleteAtBroker
  <2>1. copy.status \in Status
    BY StatusTyped DEF TypeOK
  <2> QED
    BY <1>10, <2>1, LocalTyped
    DEF AlreadyActuated, CallBroker, DeleteDecides, DeleteAtBroker
<1>11. CASE ProvisionTimeout \/ ProvisionImpossible \/ DeprovisionTimeout
            \/ DeprovisionImpossible
  <2>1. /\ Provisioned("error") \in Status
        /\ Deprovisioned("error") \in Status
        /\ copy.status \in Status
    BY StatusTyped DEF TypeOK
  <2>2. /\ [copy.status EXCEPT !.backing = "False"] \in Status
        /\ [copy.status EXCEPT !.backing = "False", !.ready = "Derived"] \in Status
    BY <2>1 DEF Status
  <2> QED
    BY <1>11, <2>1, <2>2, LocalTyped
    DEF ProvisionTimeout, ProvisionImpossible, DeprovisionTimeout,
        DeprovisionImpossible
<1>12. CASE ProvisionInstance
  <2>1. PICK a \in Answer, r \in Resource :
              /\ broker' = r
              /\ \/ a = "conflict" /\ Done
                 \/ /\ a # "conflict"
                    /\ pc' = IF a = "async" THEN "poll" ELSE "applied"
                    /\ copy' = [copy EXCEPT !.status = Provisioned(a)]
                    /\ UNCHANGED <<original, current>>
    BY <1>12 DEF ProvisionInstance
  <2>2. [copy EXCEPT !.status = Provisioned(a)] \in Object
    BY StatusTyped DEF TypeOK, Object
  <2>3. /\ copy' \in Object /\ original' \in Status /\ current' \in BOOLEAN
        /\ pc' \in {"idle"} \cup ApplySteps \cup DeleteSteps
    BY <2>1, <2>2, DoneTyped DEF TypeOK
  <2>4. Ask("provision")
    BY <1>12 DEF ProvisionInstance
  <2> QED
    BY <1>12, <2>1, <2>3, <2>4, AskTyped
    DEF TypeOK, ProvisionInstance, apiVars, envVars
<1>13. CASE PollProvision
  <2>1. \A a : ProvisionAsync(a) \in Status
    BY StatusTyped DEF TypeOK
  <2> QED  BY <1>13, <2>1, LocalTyped DEF PollProvision
<1>14. CASE BeginBlocked \/ BeginTerminating \/ BeginDelete
  <2>1. cache.status \in Status /\ Generation(cache) \in Nat
    BY GenerationTyped DEF TypeOK, Object
  <2>2. /\ Observed \in Status
        /\ [Observed EXCEPT !.ready = "DeletionBlocked"] \in Status
        /\ [Observed EXCEPT !.ready = "Terminating"] \in Status
    BY <2>1 DEF Observed, Status
  <2> QED
    BY <1>14, <2>2, BeginTyped DEF BeginBlocked, BeginTerminating, BeginDelete
<1>15. CASE GetLive
  <2>1. obj.status \in Status /\ Generation(obj) \in Nat
    BY GenerationTyped DEF TypeOK, Object
  <2>2. [obj.status EXCEPT !.observed = Generation(obj)] \in Status
    BY <2>1 DEF Status
  <2>3. copy' \in Object
    BY <1>15, <2>2 DEF GetLive, TypeOK, Object
  <2> QED
    BY <1>15, <2>3 DEF TypeOK, GetLive, apiVars, envVars, osbVars
<1>16. CASE DeprovisionInstance
  <2>1. PICK a \in Answer, r \in Resource :
              /\ broker' = r
              /\ copy' = [copy EXCEPT !.status =
                   [Deprovisioned(a) EXCEPT !.deleteRequests = copy.deleteRequests]]
              /\ pc' = CASE a = "error" -> "status"
                         [] a = "async" -> "pollDelete"
                         [] OTHER       -> "finalize"
    BY <1>16 DEF DeprovisionInstance
  <2>2. [Deprovisioned(a) EXCEPT !.deleteRequests = copy.deleteRequests] \in Status
    <3>1. copy \in Object /\ copy.deleteRequests \in Nat
      BY DEF TypeOK, Object
    <3>2. Deprovisioned(a) \in Status
      BY <3>1, StatusTyped
    <3> QED  BY <3>1, <3>2 DEF Status
  <2>3. copy' \in Object
    BY <2>1, <2>2 DEF TypeOK, Object
  <2>4. Ask("deprovision")
    BY <1>16 DEF DeprovisionInstance
  <2> QED
    BY <1>16, <2>1, <2>3, <2>4, AskTyped
    DEF TypeOK, DeprovisionInstance, apiVars, envVars
<1>17. CASE PollDeprovision
  <2>1. \A a : DeprovisionAsync(a) \in Status
    BY StatusTyped DEF TypeOK
  <2> QED  BY <1>17, <2>1, LocalTyped DEF PollDeprovision
<1>18. CASE RemoveFinalizer
  <2>1. [copy EXCEPT !.finalizer = FALSE, !.status = obj.status] \in Object
    BY DEF TypeOK, Object
  <2> QED
    BY <1>18, <2>1, WriteAndReturnTyped DEF RemoveFinalizer, TypeOK
<1>19. CASE UpdateStatus
  <2>1. [cache EXCEPT !.status = copy.status] \in Object
    BY DEF TypeOK, Object
  <2> QED
    BY <1>19, <2>1, WriteAndReturnTyped DEF UpdateStatus, TypeOK
<1>20. CASE Restart
  BY <1>20, DoneTyped DEF TypeOK, Restart, Relist, envVars, osbVars
<1>21. CASE UNCHANGED vars
  BY <1>21 DEF TypeOK, vars
<1> QED
  BY <1>1, <1>2, <1>3, <1>4, <1>5, <1>6, <1>7, <1>8, <1>9, <1>10, <1>11,
     <1>12, <1>13, <1>14, <1>15, <1>16, <1>17, <1>18, <1>19, <1>20, <1>21
  DEF Next, Users, Environment, Reconcile, ReconcileApply, ReconcileDelete,
      ReconcileStatus

(* A new object, not yet in the cache, is well-typed.                       *)
LEMMA TypeInit == Init => TypeOK
<1> SUFFICES ASSUME Init PROVE TypeOK
  OBVIOUS
<1>1. NewStatus \in Status
  BY DEF NewStatus, Status, OSBState, Prerequisite
<1>2. NewObject \in Object /\ NoObject \in Object
  BY <1>1 DEF NewObject, NoObject, Object
<1>3. watch \in Seq(Object)
  BY <1>2 DEF Init
<1>4. /\ pc \in {"idle"} \cup ApplySteps \cup DeleteSteps
      /\ asked \in {"none", "provision", "deprovision"}
  BY DEF Init
<1>5. current \in BOOLEAN /\ bindings \in BOOLEAN
  BY DEF Init
<1>6. broker \in Resource /\ space \in Space /\ secret \in Secret
  BY DEF Init, Resource, Space, Secret
<1> QED
  BY <1>1, <1>2, <1>3, <1>4, <1>5, <1>6 DEF Init, TypeOK

(* The reconciler's state, the stored object and every cached or pending    *)
(* version of it keep their types, for every bound.                         *)
THEOREM TypeCorrect == Spec => []TypeOK
<1> QED  BY TypeInit, TypeStep, PTL DEF Spec

-----------------------------------------------------------------------------
(* How a step moves the versions of the object *)

\* A write of the object that keeps its deletion mark.
Stored(o) ==
    /\ Store(o)
    /\ cache' = cache
    /\ obj.deleting => o.deleting
    /\ o.status.osb # "Deprovisioned"

(* A user's write that keeps the marks of obj stores a later version.       *)
LEMMA UserWriteStored ==
    ASSUME IInv, NEW o \in Object, UserWrite(o), obj.deleting => o.deleting,
           o.finalizer = obj.finalizer, o.status = obj.status
    PROVE  /\ Stored(Settle(o)) /\ Settle(o) \in Object
           /\ Settle(o).finalizer = obj.finalizer
<1>1. Settle(o) \in Object /\ Settle(o).deleting = o.deleting
      /\ Settle(o).status = o.status /\ Settle(o).finalizer = o.finalizer
  BY SettleKeeps
<1>2. Store(Settle(o)) /\ cache' = cache
  BY DEF UserWrite
<1>3. obj.status.osb # "Deprovisioned"
  BY DEF IInv, NeverStored, Versions
<1> QED  BY <1>1, <1>2, <1>3 DEF Stored

(* The four user actions change neither the finalizer nor the status.       *)
LEMMA UsersStored ==
    ASSUME IInv, Users
    PROVE  /\ \E o \in Object : Stored(o) /\ o.finalizer = obj.finalizer
           /\ current' = FALSE
           /\ UNCHANGED <<pc, copy, broker, asked, released>>
<1>1. PICK o \in Object : /\ UserWrite(o)
                          /\ obj.deleting => o.deleting
                          /\ o.finalizer = obj.finalizer
                          /\ o.status = obj.status
  <2>1. CASE RequestDelete
    <3>1. [obj EXCEPT !.deleteRequests = @ + 1] \in Object
      <4>1. obj \in Object
        BY DEF IInv, TypeOK
      <4>2. obj.deleteRequests + 1 \in Nat
        BY <4>1, FieldTyped
      <4> QED  BY <4>1, <4>2, FieldTyped
    <3> QED  BY <2>1, <3>1 DEF RequestDelete, Object, IInv, TypeOK
  <2>2. CASE ForegroundDelete
    <3>1. [obj EXCEPT !.deleting = TRUE, !.held = TRUE] \in Object
      BY DEF IInv, TypeOK, Object
    <3> QED  BY <2>2, <3>1 DEF ForegroundDelete, Object, IInv, TypeOK
  <2>3. CASE BackgroundDelete
    <3>1. [obj EXCEPT !.deleting = TRUE] \in Object
      BY DEF IInv, TypeOK, Object
    <3> QED  BY <2>3, <3>1 DEF BackgroundDelete, Object, IInv, TypeOK
  <2>4. CASE ForegroundDone
    <3>1. [obj EXCEPT !.held = FALSE] \in Object
      BY DEF IInv, TypeOK, Object
    <3> QED  BY <2>4, <3>1 DEF ForegroundDone, Object, IInv, TypeOK
  <2> QED  BY <2>1, <2>2, <2>3, <2>4 DEF Users
<1>2. /\ Stored(Settle(o)) /\ Settle(o) \in Object
      /\ Settle(o).finalizer = obj.finalizer
  BY <1>1, UserWriteStored
<1> QED
  BY <1>1, <1>2 DEF UserWrite, osbVars

(* The reconciler's three writes: adding the finalizer to a copy that is    *)
(* still current, removing it, and a status on top of an up-to-date cache.  *)
LEMMA AddFinalizerStored ==
    ASSUME IInv, AddFinalizer
    PROVE  /\ \E o \in Object : Stored(o) /\ o.finalizer = TRUE
           /\ released = "no" /\ asked # "deprovision"
           /\ obj.finalizer = copy.finalizer
<1>1. [copy EXCEPT !.finalizer = TRUE] \in Object
  BY DEF IInv, TypeOK, Object
<1>2. Store([copy EXCEPT !.finalizer = TRUE]) /\ cache' = cache
  BY DEF AddFinalizer
<1>3. copy.deleting = obj.deleting /\ copy.finalizer = obj.finalizer
  BY DEF IInv, HeldCurrent, AddFinalizer
<1>4. copy.status.osb # "Deprovisioned"
  BY DEF IInv, NeverStored, AddFinalizer
<1>5. /\ [copy EXCEPT !.finalizer = TRUE].deleting = copy.deleting
      /\ [copy EXCEPT !.finalizer = TRUE].finalizer = TRUE
      /\ [copy EXCEPT !.finalizer = TRUE].status = copy.status
  BY DEF IInv, TypeOK, Object
<1>6. released = "no" /\ asked # "deprovision"
  BY DEF IInv, DeletionSeen, AddFinalizer, ApplySteps
<1> QED  BY <1>1, <1>2, <1>3, <1>4, <1>5, <1>6 DEF Stored

(* Removing the finalizer stores a later version.                           *)
LEMMA RemoveFinalizerStored ==
    ASSUME IInv, RemoveFinalizer
    PROVE  /\ \E o \in Object : Stored(o) /\ o.finalizer = FALSE
           /\ cache.deleting
           /\ copy.status.osb = "ProvisionFailed" \/ broker = "absent"
<1> DEFINE w == [copy EXCEPT !.finalizer = FALSE, !.status = obj.status]
<1>1. /\ w \in Object /\ w.deleting = copy.deleting /\ w.finalizer = FALSE
      /\ w.status = obj.status
  BY DEF IInv, TypeOK, Object
<1>2. /\ Settle(w) \in Object /\ Settle(w).deleting = w.deleting
      /\ Settle(w).finalizer = w.finalizer /\ Settle(w).status = w.status
  BY <1>1, SettleKeeps
<1>3. Store(Settle(w)) /\ cache' = cache
  BY DEF RemoveFinalizer, WriteAndReturn
<1>4. copy.deleting = obj.deleting
  BY DEF IInv, HeldCurrent, RemoveFinalizer
<1>5. obj.status.osb # "Deprovisioned"
  BY DEF IInv, NeverStored, Versions
<1>6. cache.deleting
  BY DEF IInv, DeletionSeen, RemoveFinalizer, DeleteSteps
<1>7. copy.status.osb = "ProvisionFailed" \/ broker = "absent"
  BY DEF IInv, FinalizeJustified, RemoveFinalizer
<1> QED  BY <1>1, <1>2, <1>3, <1>4, <1>5, <1>6, <1>7 DEF Stored

(* updateStatus stores a later version, as the cache was up to date.        *)
LEMMA UpdateStatusStored ==
    ASSUME IInv, UpdateStatus
    PROVE  \E o \in Object : Stored(o) /\ o.finalizer = obj.finalizer
<1> DEFINE w == [cache EXCEPT !.status = copy.status]
<1>1. /\ w \in Object /\ w.deleting = cache.deleting
      /\ w.finalizer = cache.finalizer /\ w.status = copy.status
  BY DEF IInv, TypeOK, Object
<1>2. /\ Settle(w) \in Object /\ Settle(w).deleting = w.deleting
      /\ Settle(w).finalizer = w.finalizer /\ Settle(w).status = w.status
  BY <1>1, SettleKeeps
<1>3. Store(Settle(w)) /\ cache' = cache
  BY DEF UpdateStatus, WriteAndReturn
<1>4. cache = obj
  BY DEF IInv, Ordered, UpdateStatus
<1>5. copy.status.osb # "Deprovisioned"
  BY DEF IInv, NeverStored, UpdateStatus
<1> QED  BY <1>1, <1>2, <1>3, <1>4, <1>5 DEF Stored

-----------------------------------------------------------------------------
(* The parts of IInv about the versions: Ordered, FinalizerKept and the      *)
(* stored half of NeverStored                                                *)

\* The stored half of NeverStored.
VersionsNotDeprovisioned ==
    \A v \in Versions : v.status.osb # "Deprovisioned"

(* A write keeps the versions in order, and "Deprovisioned" out of them.    *)
LEMMA StoredKeeps ==
    ASSUME IInv, NEW o \in Object, Stored(o)
    PROVE  /\ Versions' \subseteq Versions \cup {o}
           /\ Ordered' /\ VersionsNotDeprovisioned'
<1>1. watch \in Seq(Object) /\ Ordered
  BY DEF IInv, TypeOK
<1>2. Store(o) /\ cache' = cache /\ (obj.deleting => o.deleting)
  BY DEF Stored
<1>3. Ordered'
  BY <1>1, <1>2, OrderedStored
<1>4. Versions' \subseteq Versions \cup {o}
  BY <1>1, <1>2, VersionsStored
<1> QED
  BY <1>3, <1>4 DEF IInv, NeverStored, Stored, VersionsNotDeprovisioned

(* So does a delivery.                                                      *)
LEMMA DeliveredKeeps ==
    ASSUME IInv, Deliver
    PROVE  /\ Ordered' /\ VersionsNotDeprovisioned' /\ FinalizerKept'
           /\ cache.deleting => cache'.deleting
<1>1. watch \in Seq(Object) /\ Ordered
  BY DEF IInv, TypeOK
<1>2. DeliverNext /\ obj' = obj /\ released' = released
  BY DEF Deliver
<1>3. Ordered' /\ (cache.deleting => cache'.deleting)
  BY <1>1, <1>2, OrderedDelivered
<1>4. Versions' \subseteq Versions
  BY <1>1, <1>2, VersionsDelivered
<1> QED
  BY <1>2, <1>3, <1>4
  DEF IInv, NeverStored, VersionsNotDeprovisioned, FinalizerKept

(* A step that touches neither obj, watch nor cache keeps the versions.     *)
LEMMA VersionsKept ==
    ASSUME IInv, UNCHANGED <<obj, watch, cache, released>>
    PROVE  Ordered' /\ VersionsNotDeprovisioned' /\ FinalizerKept'
BY DEF IInv, Ordered, NeverStored, VersionsNotDeprovisioned, FinalizerKept,
       Versions

(* A write that keeps the finalizer, or turns it on, keeps FinalizerKept.   *)
LEMMA FinalizerKeptStored ==
    ASSUME IInv, NEW o \in Object, Stored(o), released' = released,
           obj.finalizer => o.finalizer
    PROVE  FinalizerKept'
<1>1. Versions' \subseteq Versions \cup {o} /\ obj' = o
  BY StoredKeeps DEF Stored, Store
<1> QED  BY <1>1 DEF IInv, FinalizerKept

-----------------------------------------------------------------------------
(* The parts of IInv about the running reconcile *)

Running ==
    /\ HeldCurrent
    /\ DeletionSeen
    /\ AppliesGuarded
    /\ copy.status.osb = "Deprovisioned" => pc = "finalize"
    /\ FinalizeJustified
    /\ NoOrphan

(* The parts of the invariant on the versions and on the reconcile are IInv.*)
LEMMA Assembled ==
    ASSUME TypeOK', Ordered', VersionsNotDeprovisioned', FinalizerKept', Running'
    PROVE  IInv'
BY DEF IInv, VersionsNotDeprovisioned, NeverStored, Running

(* When a reconcile ends, what is left to show is about the object.         *)
LEMMA RunningDone ==
    ASSUME IInv, Done, NoOrphan', cache'.deleting = cache.deleting,
           asked' = asked,
           released' # "no" => cache.deleting,
           obj'.finalizer => released' = "no"
    PROVE  Running'
<1>1. pc' = "idle" /\ copy'.status.osb = "Blank" /\ current' = FALSE
  BY DEF Done, NoObject, NewObject, NewStatus
<1> QED
  BY <1>1
  DEF IInv, Running, HeldCurrent, DeletionSeen, AppliesGuarded,
      FinalizeJustified, ApplySteps, DeleteSteps

(* A reconcile that returns leaves nothing to justify.                      *)
LEMMA RunningReturn ==
    ASSUME IInv, Return
    PROVE  Running'
<1>1. UNCHANGED <<obj, watch, cache, broker, asked, released>> /\ Done
  BY DEF Return, apiVars, osbVars
<1>2. NoOrphan'
  BY <1>1 DEF IInv, NoOrphan
<1> QED  BY <1>1, <1>2, RunningDone DEF IInv, DeletionSeen

(* A reconcile of a version without the deletion mark starts only while the *)
(* finalizer was never removed; any other start is a deletion step.         *)
LEMMA RunningBegin ==
    ASSUME IInv, NEW next \in ApplySteps \cup DeleteSteps,
           NEW status \in Status, Begin(next, status),
           next \in DeleteSteps => cache.deleting,
           next \in ApplySteps => ~cache.deleting,
           next \in ApplySteps \ {"finalizer"} => cache.finalizer,
           next # "finalize",
           status.osb # "Deprovisioned"
    PROVE  Running'
<1>1. /\ pc' = next /\ copy' = [cache EXCEPT !.status = status]
      /\ current' = (watch = <<>>)
      /\ UNCHANGED <<obj, watch, cache, broker, asked, released>>
  BY DEF Begin, apiVars, osbVars
<1>2. /\ copy'.deleting = cache.deleting /\ copy'.finalizer = cache.finalizer
      /\ copy'.status.osb # "Deprovisioned"
  BY <1>1 DEF IInv, TypeOK, Object
<1>3. HeldCurrent'
  BY <1>1, <1>2 DEF IInv, Ordered, HeldCurrent
<1>4. DeletionSeen'
  BY <1>1 DEF IInv, DeletionSeen
<1>5. AppliesGuarded'
  BY <1>1 DEF IInv, DeletionSeen, FinalizerKept, AppliesGuarded, Versions
<1>6. FinalizeJustified' /\ NoOrphan'
  BY <1>1 DEF IInv, FinalizeJustified, NoOrphan
<1> QED  BY <1>1, <1>2, <1>3, <1>4, <1>5, <1>6 DEF Running

(* A local step stays within applying or within deleting.                   *)
LEMMA RunningLocal ==
    ASSUME IInv, NEW next \in ApplySteps \cup DeleteSteps,
           NEW status \in Status, Local(next, status),
           \/ pc \in ApplySteps \ {"finalizer"} /\ next \in ApplySteps \ {"finalizer"}
           \/ pc \in DeleteSteps /\ next \in DeleteSteps,
           status.osb = "Deprovisioned" => next = "finalize",
           next = "finalize" => status.osb = "ProvisionFailed" \/ broker = "absent"
    PROVE  Running'
<1>1. /\ pc' = next /\ copy' = [copy EXCEPT !.status = status]
      /\ UNCHANGED <<obj, watch, cache, current, broker, asked, released>>
  BY DEF Local, apiVars, osbVars
<1>2. /\ copy'.deleting = copy.deleting /\ copy'.finalizer = copy.finalizer
      /\ copy'.status = status
  BY <1>1 DEF IInv, TypeOK, Object
<1>3. HeldCurrent'
  BY <1>1, <1>2 DEF IInv, HeldCurrent
<1>4. DeletionSeen' /\ AppliesGuarded'
  BY <1>1 DEF IInv, DeletionSeen, AppliesGuarded, ApplySteps, DeleteSteps
<1>5. FinalizeJustified' /\ NoOrphan'
  BY <1>1, <1>2 DEF IInv, FinalizeJustified, NoOrphan
<1> QED  BY <1>1, <1>2, <1>3, <1>4, <1>5 DEF Running

(* One lemma per kind of step.                                              *)
LEMMA WritesKeep ==
    ASSUME IInv, Users \/ AddFinalizer \/ RemoveFinalizer \/ UpdateStatus
    PROVE  Ordered' /\ VersionsNotDeprovisioned' /\ FinalizerKept' /\ Running'
<1>1. CASE Users
  <2>1. PICK o \in Object : Stored(o) /\ o.finalizer = obj.finalizer
    BY <1>1, UsersStored
  <2>2. current' = FALSE /\ UNCHANGED <<pc, copy, broker, asked, released>>
    BY <1>1, UsersStored
  <2>3. obj' = o /\ cache' = cache
    BY <2>1 DEF Stored, Store
  <2>4. Running'
    BY <2>1, <2>2, <2>3
    DEF IInv, Running, HeldCurrent, DeletionSeen, AppliesGuarded, NeverStored,
        FinalizeJustified, NoOrphan
  <2> QED  BY <2>1, <2>2, <2>4, StoredKeeps, FinalizerKeptStored
<1>2. CASE AddFinalizer
  <2>1. PICK o \in Object : Stored(o) /\ o.finalizer = TRUE
    BY <1>2, AddFinalizerStored
  <2>2. released = "no" /\ asked # "deprovision"
    BY <1>2, AddFinalizerStored
  <2>3. /\ pc = "finalizer" /\ pc' = "apply" /\ current' = FALSE
        /\ UNCHANGED <<copy, broker, asked, released>>
    BY <1>2 DEF AddFinalizer, osbVars
  <2>4. obj' = o /\ cache' = cache
    BY <2>1 DEF Stored, Store
  <2>5. copy.status.osb # "Deprovisioned"
    BY <2>3 DEF IInv, NeverStored
  <2>6. Running'
    BY <2>1, <2>2, <2>3, <2>4, <2>5
    DEF Running, HeldCurrent, DeletionSeen, AppliesGuarded, FinalizeJustified,
        NoOrphan, ApplySteps, DeleteSteps
  <2> QED  BY <2>1, <2>3, <2>6, StoredKeeps, FinalizerKeptStored
<1>3. CASE RemoveFinalizer
  <2>1. PICK o \in Object : Stored(o) /\ o.finalizer = FALSE
    BY <1>3, RemoveFinalizerStored
  <2>2. /\ cache.deleting
        /\ copy.status.osb = "ProvisionFailed" \/ broker = "absent"
    BY <1>3, RemoveFinalizerStored
  <2>3. /\ Done /\ UNCHANGED <<cache, broker, asked>>
        /\ released' = IF copy.status.osb = "ProvisionFailed"
                         THEN "failed" ELSE "deprovisioned"
    BY <1>3 DEF RemoveFinalizer, WriteAndReturn, osbVars
  <2>4. obj'.finalizer = FALSE
    BY <2>1 DEF Stored, Store
  <2>5. NoOrphan'
    BY <2>2, <2>3 DEF NoOrphan
  <2>6. Running'
    BY <2>2, <2>3, <2>4, <2>5, RunningDone
  <2>7. FinalizerKept'
    BY <2>3 DEF FinalizerKept
  <2> QED  BY <2>1, <2>6, <2>7, StoredKeeps
<1>4. CASE UpdateStatus
  <2>1. PICK o \in Object : Stored(o) /\ o.finalizer = obj.finalizer
    BY <1>4, UpdateStatusStored
  <2>2. Done /\ UNCHANGED <<cache, broker, asked, released>>
    BY <1>4 DEF UpdateStatus, WriteAndReturn, osbVars
  <2>3. obj'.finalizer = obj.finalizer
    BY <2>1 DEF Stored, Store
  <2>4. NoOrphan'
    BY <2>2, <2>3 DEF IInv, NoOrphan
  <2>5. Running'
    BY <2>2, <2>3, <2>4, RunningDone DEF IInv, DeletionSeen
  <2> QED  BY <2>1, <2>2, <2>5, StoredKeeps, FinalizerKeptStored
<1> QED  BY <1>1, <1>2, <1>3, <1>4

(* Listers, broker, deliveries and restarts keep the invariant.              *)
LEMMA EnvironmentKeeps ==
    ASSUME IInv, Environment \/ Restart
    PROVE  Ordered' /\ VersionsNotDeprovisioned' /\ FinalizerKept' /\ Running'
<1>1. CASE Deliver
  <2>1. UNCHANGED <<obj, pc, copy, current, broker, asked, released>>
    BY <1>1 DEF Deliver, DeliverNext, workVars, osbVars
  <2>2. cache.deleting => cache'.deleting
    BY <1>1, DeliveredKeeps
  <2>3. Running'
    BY <2>1, <2>2
    DEF IInv, Running, HeldCurrent, DeletionSeen, AppliesGuarded, NeverStored,
        FinalizeJustified, NoOrphan
  <2> QED  BY <1>1, <2>3, DeliveredKeeps
<1>2. CASE SpaceChanges \/ SecretChanges \/ BindingsChange
  <2>1. UNCHANGED <<obj, watch, cache, pc, copy, current, broker, asked, released>>
    BY <1>2
    DEF SpaceChanges, SecretChanges, BindingsChange, apiVars, workVars, osbVars
  <2>2. Running'
    BY <2>1
    DEF IInv, Running, HeldCurrent, DeletionSeen, AppliesGuarded, NeverStored,
        FinalizeJustified, NoOrphan
  <2> QED  BY <2>1, <2>2, VersionsKept
<1>3. CASE BrokerFinishes
  <2>1. /\ UNCHANGED <<obj, watch, cache, pc, copy, current, asked, released>>
        /\ broker # "absent"
    BY <1>3 DEF BrokerFinishes, FinishStep, apiVars, workVars
  <2>2. HeldCurrent' /\ DeletionSeen' /\ AppliesGuarded'
    BY <2>1 DEF IInv, HeldCurrent, DeletionSeen, AppliesGuarded
  <2>3. FinalizeJustified' /\ NoOrphan'
    BY <2>1 DEF IInv, FinalizeJustified, NoOrphan
  <2>4. Running'
    BY <2>1, <2>2, <2>3 DEF IInv, NeverStored, Running
  <2> QED  BY <2>1, <2>4, VersionsKept
<1>4. CASE Restart
  <2>1. /\ Done /\ cache' = obj /\ watch' = <<>>
        /\ UNCHANGED <<obj, broker, asked, released>>
    BY <1>4 DEF Restart, Relist, osbVars
  <2>2. pc' = "idle" /\ copy'.status.osb = "Blank" /\ current' = FALSE
    BY <2>1 DEF Done, NoObject, NewObject, NewStatus
  <2>3. cache.deleting => cache'.deleting
    BY <2>1 DEF IInv, Ordered
  <2>4. Running'
    BY <2>1, <2>2, <2>3
    DEF IInv, Running, HeldCurrent, DeletionSeen, AppliesGuarded,
        FinalizeJustified, NoOrphan, ApplySteps, DeleteSteps
  <2>5. Versions' = {obj} /\ Ordered'
    BY <1>4, <2>1, VersionsRelisted, OrderedRelisted DEF Restart, IInv
  <2>6. Ordered' /\ VersionsNotDeprovisioned' /\ FinalizerKept'
    BY <2>1, <2>5
    DEF IInv, NeverStored, VersionsNotDeprovisioned, FinalizerKept, Versions
  <2> QED  BY <2>4, <2>6
<1> QED  BY <1>1, <1>2, <1>3, <1>4 DEF Environment

(* The statuses a provision computes are never "Deprovisioned", and those    *)
(* a deprovision computes are only when it succeeded.                        *)
LEMMA StatusOSB ==
    ASSUME copy \in Object, NEW a,
           copy.status.osb # "Deprovisioned"
    PROVE  /\ Provisioned(a).osb # "Deprovisioned"
           /\ ProvisionAsync(a).osb # "Deprovisioned"
           /\ a \in {"error", "async"} => Deprovisioned(a).osb # "Deprovisioned"
           /\ a \notin {"succeeded", "gone"}
                => DeprovisionAsync(a).osb # "Deprovisioned"
<1>1. copy.status \in Status
  BY DEF Object
<1>2. Provisioned("ok").osb # "Deprovisioned" /\ Provisioned("error").osb # "Deprovisioned"
      /\ Provisioned(a).osb # "Deprovisioned"
  BY <1>1 DEF Provisioned, Status
<1>3. /\ a \in {"error", "async"} => Deprovisioned(a).osb # "Deprovisioned"
      /\ Deprovisioned("error").osb # "Deprovisioned"
  BY <1>1 DEF Deprovisioned, Status
<1>4. ProvisionAsync(a).osb # "Deprovisioned"
  BY <1>1, <1>2 DEF ProvisionAsync, Status
<1>5. a \notin {"succeeded", "gone"} => DeprovisionAsync(a).osb # "Deprovisioned"
  BY <1>1, <1>3 DEF DeprovisionAsync, Status
<1> QED  BY <1>2, <1>3, <1>4, <1>5

(* The early returns and failed calls keep the invariant.                   *)
LEMMA ReturnsKeep ==
    ASSUME IInv,
           \/ FinalizerConflict \/ NamespaceTerminating \/ GetLiveFails
           \/ RemoveFinalizerFails \/ NothingChanged \/ UpdateStatusSkipped
           \/ UpdateStatusConflict
    PROVE  Ordered' /\ VersionsNotDeprovisioned' /\ FinalizerKept' /\ Running'
<1>1. Return
  BY DEF FinalizerConflict, NamespaceTerminating, GetLiveFails,
         RemoveFinalizerFails, NothingChanged, UpdateStatusSkipped,
         UpdateStatusConflict
<1>2. UNCHANGED <<obj, watch, cache, released>>
  BY <1>1 DEF Return, apiVars
<1> QED  BY <1>1, <1>2, RunningReturn, VersionsKept

(* A reconcile that starts keeps the invariant.                             *)
LEMMA BeginsKeep ==
    ASSUME IInv, BeginApply \/ BeginBlocked \/ BeginTerminating \/ BeginDelete
    PROVE  Ordered' /\ VersionsNotDeprovisioned' /\ FinalizerKept' /\ Running'
<1>1. cache.status \in Status /\ Generation(cache) \in Nat
      /\ cache.status.osb # "Deprovisioned"
  BY GenerationTyped DEF IInv, TypeOK, Object, NeverStored, Versions
<1>2. /\ Observed \in Status
      /\ [Observed EXCEPT !.ready = "DeletionBlocked"] \in Status
      /\ [Observed EXCEPT !.ready = "Terminating"] \in Status
      /\ Observed.osb # "Deprovisioned"
      /\ [Observed EXCEPT !.ready = "DeletionBlocked"].osb # "Deprovisioned"
      /\ [Observed EXCEPT !.ready = "Terminating"].osb # "Deprovisioned"
  BY <1>1 DEF Observed, Status
<1>3. UNCHANGED <<obj, watch, cache, released>>
  BY DEF BeginApply, BeginBlocked, BeginTerminating, BeginDelete, Begin, apiVars
<1>4. CASE BeginApply
  <2>1. Begin(IF cache.finalizer THEN "apply" ELSE "finalizer", cache.status)
        /\ ~cache.deleting
    BY <1>4 DEF BeginApply
  <2>2. /\ "apply" \in ApplySteps /\ "finalizer" \in ApplySteps
        /\ "apply" \notin DeleteSteps /\ "finalizer" \notin DeleteSteps
    BY DEF ApplySteps, DeleteSteps
  <2>3. Running'
    BY <1>1, <2>1, <2>2, RunningBegin
  <2> QED  BY <1>3, <2>3, VersionsKept
<1>5. CASE BeginBlocked \/ BeginTerminating \/ BeginDelete
  <2>1. /\ "status" \in DeleteSteps /\ "get" \in DeleteSteps
        /\ "status" \notin ApplySteps /\ "get" \notin ApplySteps
    BY DEF ApplySteps, DeleteSteps
  <2>2. Running'
    BY <1>2, <1>5, <2>1, RunningBegin
    DEF BeginBlocked, BeginTerminating, BeginDelete
  <2> QED  BY <1>3, <2>2, VersionsKept
<1> QED  BY <1>4, <1>5

(* The local steps of ApplyChanges keep the invariant.                      *)
LEMMA AppliesKeep ==
    ASSUME IInv,
           \/ CheckPrerequisites \/ AlreadyActuated \/ ProvisionTimeout
           \/ ProvisionImpossible \/ CallBroker \/ PollProvision
    PROVE  Ordered' /\ VersionsNotDeprovisioned' /\ FinalizerKept' /\ Running'
<1>1. pc \in ApplySteps \ {"finalizer"} /\ pc # "finalize"
  BY DEF CheckPrerequisites, AlreadyActuated, ProvisionTimeout,
         ProvisionImpossible, CallBroker, PollProvision, ApplySteps
<1>2. copy \in Object /\ copy.status \in Status /\ Generation(copy) \in Nat
      /\ copy.status.osb # "Deprovisioned"
  BY <1>1, GenerationTyped DEF IInv, TypeOK, Object, NeverStored
<1>3. \E next \in ApplySteps \ {"finalizer"}, status \in Status :
         Local(next, status) /\ status.osb # "Deprovisioned"
  <2>1. CASE CheckPrerequisites
    <3> DEFINE st == [copy.status EXCEPT
                        !.observed = Generation(copy),
                        !.backing = IF @ = "Nil" THEN "Unknown" ELSE @,
                        !.ready = "Derived",
                        !.prereq = Unmet]
    <3>1. Unmet \in Prerequisite
      BY DEF Unmet, Prerequisite
    <3>2. st \in Status /\ st.osb # "Deprovisioned"
      BY <1>2, <3>1 DEF Status
    <3>3. Local(IF Unmet \in {"Met", "Invalid"} THEN "actuate" ELSE "applied", st)
      BY <2>1 DEF CheckPrerequisites
    <3> QED  BY <3>2, <3>3 DEF ApplySteps
  <2>2. CASE AlreadyActuated \/ CallBroker
    BY <1>2, <2>2 DEF AlreadyActuated, CallBroker, ApplySteps
  <2>3. CASE ProvisionTimeout
    <3>1. Provisioned("error") \in Status
          /\ Provisioned("error").osb # "Deprovisioned"
      BY <1>2, StatusTyped, StatusOSB
    <3> QED  BY <2>3, <3>1 DEF ProvisionTimeout, ApplySteps
  <2>4. CASE ProvisionImpossible
    <3>1. [copy.status EXCEPT !.backing = "False"] \in Status
          /\ [copy.status EXCEPT !.backing = "False"].osb # "Deprovisioned"
      BY <1>2 DEF Status
    <3> QED  BY <2>4, <3>1 DEF ProvisionImpossible, ApplySteps
  <2>5. CASE PollProvision
    <3>1. PICK a \in PollAnswer : Local("applied", ProvisionAsync(a))
      BY <2>5 DEF PollProvision
    <3>2. ProvisionAsync(a) \in Status /\ ProvisionAsync(a).osb # "Deprovisioned"
      BY <1>2, StatusTyped, StatusOSB
    <3> QED  BY <3>1, <3>2 DEF ApplySteps
  <2> QED  BY <2>1, <2>2, <2>3, <2>4, <2>5
<1>4. PICK next \in ApplySteps \ {"finalizer"}, status \in Status :
         Local(next, status) /\ status.osb # "Deprovisioned"
  BY <1>3
<1>5. next # "finalize"
  BY DEF ApplySteps
<1>6. Running'
  BY <1>1, <1>4, <1>5, RunningLocal
<1>7. UNCHANGED <<obj, watch, cache, released>>
  BY <1>4 DEF Local, apiVars
<1> QED  BY <1>6, <1>7, VersionsKept

(* The local steps of deleteService keep the invariant.                     *)
LEMMA DeletesKeep ==
    ASSUME IInv,
           \/ DeleteDecides \/ DeprovisionTimeout \/ DeprovisionImpossible
           \/ DeleteAtBroker \/ PollDeprovision
    PROVE  Ordered' /\ VersionsNotDeprovisioned' /\ FinalizerKept' /\ Running'
<1>1. pc \in DeleteSteps /\ pc # "finalize"
  BY DEF DeleteDecides, DeprovisionTimeout, DeprovisionImpossible,
         DeleteAtBroker, PollDeprovision, DeleteSteps
<1>2. copy \in Object /\ copy.status \in Status
      /\ copy.status.osb # "Deprovisioned"
  BY <1>1 DEF IInv, TypeOK, Object, NeverStored
<1>3. \E next \in DeleteSteps, status \in Status :
         /\ Local(next, status)
         /\ status.osb = "Deprovisioned" => next = "finalize"
         /\ next = "finalize" => status.osb = "ProvisionFailed" \/ broker = "absent"
  <2>1. CASE DeleteDecides
    <3>1. DeleteFinished => copy.status.osb = "ProvisionFailed"
      BY <1>2 DEF DeleteFinished
    <3> QED  BY <1>2, <2>1, <3>1 DEF DeleteDecides, DeleteSteps
  <2>2. CASE DeprovisionTimeout
    <3>1. Deprovisioned("error") \in Status
          /\ Deprovisioned("error").osb # "Deprovisioned"
      BY <1>2, StatusTyped, StatusOSB
    <3> QED  BY <2>2, <3>1 DEF DeprovisionTimeout, DeleteSteps
  <2>3. CASE DeprovisionImpossible
    <3> DEFINE st == [copy.status EXCEPT !.backing = "False", !.ready = "Derived"]
    <3>1. st \in Status /\ st.osb # "Deprovisioned"
      BY <1>2 DEF Status
    <3> QED  BY <2>3, <3>1 DEF DeprovisionImpossible, DeleteSteps
  <2>4. CASE DeleteAtBroker
    BY <1>2, <2>4 DEF DeleteAtBroker, DeleteSteps
  <2>5. CASE PollDeprovision
    <3>1. PICK a \in PollAnswer :
             /\ PollDeleteStep(broker, a)
             /\ Local(IF a \in {"succeeded", "gone"} THEN "finalize" ELSE "status",
                      DeprovisionAsync(a))
      BY <2>5 DEF PollDeprovision
    <3>2. /\ DeprovisionAsync(a) \in Status
          /\ a \notin {"succeeded", "gone"}
               => DeprovisionAsync(a).osb # "Deprovisioned"
      BY <1>2, StatusTyped, StatusOSB
    <3>3. a \in {"succeeded", "gone"} => broker = "absent"
      BY <3>1 DEF PollDeleteStep
    <3> QED  BY <3>1, <3>2, <3>3 DEF DeleteSteps
  <2> QED  BY <2>1, <2>2, <2>3, <2>4, <2>5
<1>4. PICK next \in DeleteSteps, status \in Status :
         /\ Local(next, status)
         /\ status.osb = "Deprovisioned" => next = "finalize"
         /\ next = "finalize" => status.osb = "ProvisionFailed" \/ broker = "absent"
  BY <1>3
<1>5. Running'
  BY <1>1, <1>4, RunningLocal
<1>6. UNCHANGED <<obj, watch, cache, released>>
  BY <1>4 DEF Local, apiVars
<1> QED  BY <1>5, <1>6, VersionsKept

(* The live read, and the two requests to the broker.                       *)
LEMMA CallsKeep ==
    ASSUME IInv, GetLive \/ ProvisionInstance \/ DeprovisionInstance
    PROVE  Ordered' /\ VersionsNotDeprovisioned' /\ FinalizerKept' /\ Running'
<1>1. UNCHANGED <<obj, watch, cache, released>>
  BY DEF GetLive, ProvisionInstance, DeprovisionInstance, apiVars
<1>2. CASE GetLive
  <2>1. /\ pc = "get" /\ pc' = "delete" /\ current' = TRUE
        /\ copy' = [obj EXCEPT !.status.observed = Generation(obj)]
        /\ UNCHANGED <<broker, asked>>
    BY <1>2 DEF GetLive, osbVars
  <2>2. obj.status \in Status /\ obj.status.osb # "Deprovisioned"
    BY DEF IInv, TypeOK, Object, NeverStored, Versions
  <2>3. /\ copy'.deleting = obj.deleting /\ copy'.finalizer = obj.finalizer
        /\ copy'.status = [obj.status EXCEPT !.observed = Generation(obj)]
    BY <2>1 DEF IInv, TypeOK, Object
  <2>4. copy'.status.osb # "Deprovisioned"
    BY <2>2, <2>3 DEF Status
  <2>5. Running'
    BY <1>1, <2>1, <2>3, <2>4
    DEF IInv, Running, HeldCurrent, DeletionSeen, AppliesGuarded,
        FinalizeJustified, NoOrphan, ApplySteps, DeleteSteps
  <2> QED  BY <1>1, <2>5, VersionsKept
<1>3. CASE ProvisionInstance
  <2>1. pc = "provision" /\ asked' = "provision"
    BY <1>3 DEF ProvisionInstance, Ask
  <2>2. obj.finalizer /\ released = "no" /\ copy.status.osb # "Deprovisioned"
    BY <2>1 DEF IInv, AppliesGuarded, DeletionSeen, NeverStored, ApplySteps
  <2>3. NoOrphan'
    BY <1>1, <2>2 DEF NoOrphan
  <2>4. PICK a \in Answer :
              \/ a = "conflict" /\ Done
              \/ /\ pc' = IF a = "async" THEN "poll" ELSE "applied"
                 /\ copy' = [copy EXCEPT !.status = Provisioned(a)]
                 /\ UNCHANGED <<original, current>>
    BY <1>3 DEF ProvisionInstance
  <2>5. CASE Done
    <3>1. pc' = "idle" /\ copy'.status.osb = "Blank" /\ current' = FALSE
      BY <2>5 DEF Done, NoObject, NewObject, NewStatus
    <3> QED
      BY <1>1, <2>1, <2>2, <2>3, <3>1, VersionsKept
      DEF Running, HeldCurrent, DeletionSeen, AppliesGuarded,
          FinalizeJustified, ApplySteps, DeleteSteps
  <2>6. CASE /\ pc' \in {"poll", "applied"}
             /\ copy' = [copy EXCEPT !.status = Provisioned(a)]
             /\ UNCHANGED <<original, current>>
    <3>1. copy \in Object
      BY DEF IInv, TypeOK
    <3>2. Provisioned(a).osb # "Deprovisioned"
      BY <2>2, <3>1, StatusOSB
    <3>3. /\ copy'.deleting = copy.deleting /\ copy'.finalizer = copy.finalizer
          /\ copy'.status = Provisioned(a)
      BY <2>6, <3>1 DEF Object
    <3>4. HeldCurrent'
      BY <1>1, <2>6, <3>3 DEF IInv, HeldCurrent
    <3>5. DeletionSeen' /\ AppliesGuarded' /\ FinalizeJustified'
      BY <1>1, <2>1, <2>2, <2>6
      DEF DeletionSeen, AppliesGuarded, FinalizeJustified, ApplySteps, DeleteSteps
    <3> QED
      BY <1>1, <2>3, <3>2, <3>3, <3>4, <3>5, VersionsKept DEF Running
  <2> QED  BY <2>4, <2>5, <2>6
<1>4. CASE DeprovisionInstance
  <2>1. pc = "deprovision" /\ asked' = "deprovision"
    BY <1>4 DEF DeprovisionInstance, Ask
  <2>2. cache.deleting /\ copy.status.osb # "Deprovisioned"
    BY <2>1 DEF IInv, DeletionSeen, NeverStored, DeleteSteps
  <2>3. PICK a \in Answer, r \in Resource :
          /\ DeleteStep(broker, a, r)
          /\ broker' = r
          /\ copy' = [copy EXCEPT !.status =
                [Deprovisioned(a) EXCEPT !.deleteRequests = copy.deleteRequests]]
          /\ pc' = CASE a = "error" -> "status"
                     [] a = "async" -> "pollDelete"
                     [] OTHER       -> "finalize"
    BY <1>4 DEF DeprovisionInstance
  <2>4. current' = current
    BY <1>4 DEF DeprovisionInstance
  <2>5. copy \in Object /\ Deprovisioned(a) \in Status
    BY StatusTyped DEF IInv, TypeOK
  <2>6. /\ copy'.deleting = copy.deleting /\ copy'.finalizer = copy.finalizer
        /\ copy'.status =
             [Deprovisioned(a) EXCEPT !.deleteRequests = copy.deleteRequests]
    BY <2>3, <2>5 DEF Object
  <2>7. copy'.status.osb = Deprovisioned(a).osb
    BY <2>5, <2>6 DEF Status
  <2>8. copy'.status.osb = "Deprovisioned" => pc' = "finalize"
    BY <2>2, <2>3, <2>5, <2>7, StatusOSB
  <2>9. pc' = "finalize" => broker' = "absent"
    BY <2>3 DEF DeleteStep, Answer
  <2>10. pc' \in DeleteSteps /\ pc' \notin ApplySteps
    BY <2>3 DEF DeleteSteps, ApplySteps
  <2>11. broker' # "absent" => broker # "absent"
    BY <2>3 DEF DeleteStep
  <2>12. HeldCurrent'
    BY <1>1, <2>4, <2>6 DEF IInv, HeldCurrent
  <2>13. DeletionSeen' /\ AppliesGuarded' /\ FinalizeJustified' /\ NoOrphan'
    BY <1>1, <2>1, <2>2, <2>9, <2>10, <2>11
    DEF IInv, DeletionSeen, AppliesGuarded, FinalizeJustified, NoOrphan
  <2> QED  BY <1>1, <2>8, <2>12, <2>13, VersionsKept DEF Running
<1> QED  BY <1>2, <1>3, <1>4

-----------------------------------------------------------------------------
(* The theorems *)

LEMMA IInvInit == Init => IInv
<1> SUFFICES ASSUME Init PROVE IInv
  OBVIOUS
<1>1. /\ obj = NewObject /\ cache = NoObject /\ copy = NoObject
      /\ watch = <<NewObject>> /\ Len(watch) = 1 /\ watch[1] = NewObject
  BY DEF Init
<1>2. /\ ~NewObject.deleting /\ ~NewObject.finalizer
      /\ ~NoObject.deleting /\ ~NoObject.finalizer
      /\ NewObject.status.osb = "Blank" /\ NoObject.status.osb = "Blank"
  BY DEF NewObject, NoObject, NewStatus
<1>3. Ordered /\ FinalizerKept /\ NeverStored
  BY <1>1, <1>2 DEF Ordered, FinalizerKept, NeverStored, Versions
<1>4. HeldCurrent /\ DeletionSeen /\ AppliesGuarded /\ FinalizeJustified /\ NoOrphan
  BY <1>1, <1>2
  DEF Init, HeldCurrent, DeletionSeen, AppliesGuarded, FinalizeJustified,
      NoOrphan, ApplySteps, DeleteSteps
<1> QED  BY <1>3, <1>4, TypeInit DEF IInv

(* The invariant is inductive.                                              *)
LEMMA IInvStep == IInv /\ [Next]_vars => IInv'
<1> SUFFICES ASSUME IInv, [Next]_vars
             PROVE  IInv'
  OBVIOUS
<1>1. TypeOK'
  BY TypeStep DEF IInv
<1>2. CASE Next
  <2>1. CASE Users \/ AddFinalizer \/ RemoveFinalizer \/ UpdateStatus
    BY <1>1, <2>1, WritesKeep, Assembled
  <2>2. CASE Environment \/ Restart
    BY <1>1, <2>2, EnvironmentKeeps, Assembled
  <2>3. CASE \/ FinalizerConflict \/ NamespaceTerminating \/ GetLiveFails
             \/ RemoveFinalizerFails \/ NothingChanged \/ UpdateStatusSkipped
             \/ UpdateStatusConflict
    BY <1>1, <2>3, ReturnsKeep, Assembled
  <2>4. CASE BeginApply \/ BeginBlocked \/ BeginTerminating \/ BeginDelete
    BY <1>1, <2>4, BeginsKeep, Assembled
  <2>5. CASE \/ CheckPrerequisites \/ AlreadyActuated \/ ProvisionTimeout
             \/ ProvisionImpossible \/ CallBroker \/ PollProvision
    BY <1>1, <2>5, AppliesKeep, Assembled
  <2>6. CASE \/ DeleteDecides \/ DeprovisionTimeout \/ DeprovisionImpossible
             \/ DeleteAtBroker \/ PollDeprovision
    BY <1>1, <2>6, DeletesKeep, Assembled
  <2>7. CASE GetLive \/ ProvisionInstance \/ DeprovisionInstance
    BY <1>1, <2>7, CallsKeep, Assembled
  <2> QED
    BY <1>2, <2>1, <2>2, <2>3, <2>4, <2>5, <2>6, <2>7
    DEF Next, Reconcile, ReconcileApply, ReconcileDelete, ReconcileStatus
<1>3. CASE UNCHANGED vars
  BY <1>3
  DEF vars, IInv, TypeOK, Ordered, HeldCurrent, FinalizerKept, DeletionSeen,
      AppliesGuarded, NeverStored, FinalizeJustified, NoOrphan, Versions
<1> QED  BY <1>2, <1>3

(* The inductive invariant holds in every reachable state.                  *)
LEMMA Inductive == Spec => []IInv
<1> QED  BY IInvInit, IInvStep, PTL DEF Spec

(* For every bound on the informer's lag, every number of delete commands   *)
(* and every set of failures: a resource at the broker is never left        *)
(* without an API object that Kf's finalizer keeps, unless provisioning it  *)
(* was recorded as failed.                                                  *)
THEOREM NoOrphanHolds == Spec => []NoOrphan
<1>1. IInv => NoOrphan
  BY DEF IInv
<1> QED  BY <1>1, Inductive, PTL

(* The request that a step sends to the broker.                             *)
LEMMA AskedBy ==
    ASSUME [Next]_vars, ~DeprovisionInstance
    PROVE  ProvisionInstance \/ asked' = asked
BY DEF Next, vars, Users, Environment, Reconcile, ReconcileApply,
       ReconcileDelete, ReconcileStatus, RequestDelete, ForegroundDelete,
       BackgroundDelete, ForegroundDone, UserWrite, Deliver, SpaceChanges,
       SecretChanges, BindingsChange, BrokerFinishes, BeginApply, AddFinalizer,
       FinalizerConflict, NamespaceTerminating, CheckPrerequisites,
       AlreadyActuated, ProvisionTimeout, ProvisionImpossible, CallBroker,
       PollProvision, BeginBlocked, BeginTerminating, BeginDelete, GetLive,
       GetLiveFails, DeleteDecides, DeprovisionTimeout, DeprovisionImpossible,
       DeleteAtBroker, PollDeprovision, RemoveFinalizer, RemoveFinalizerFails,
       NothingChanged, UpdateStatus, UpdateStatusSkipped, UpdateStatusConflict,
       Restart, Local, Return, WriteAndReturn, Begin, osbVars

(* No interleaving of a stale cache, restarts and failed calls makes Kf     *)
(* provision an instance again that it already asked to deprovision.        *)
THEOREM NeverReprovisionedHolds == Spec => NeverReprovisioned
<1>1. IInv /\ [Next]_vars
        => [asked = "deprovision" => asked' = "deprovision"]_asked
  <2> SUFFICES ASSUME IInv, [Next]_vars, asked = "deprovision"
               PROVE  asked' = "deprovision"
    OBVIOUS
  <2>1. ~ProvisionInstance
    BY DEF IInv, DeletionSeen, ProvisionInstance, ApplySteps
  <2>2. DeprovisionInstance => asked' = "deprovision"
    BY DEF DeprovisionInstance, Ask
  <2> QED  BY <2>1, <2>2, AskedBy
<1> QED  BY <1>1, Inductive, PTL DEF Spec, NeverReprovisioned

-----------------------------------------------------------------------------
(* The refinement *)

(* Only a write moves the finalizer, and only three steps move the broker.  *)
LEMMA GuardUntouched ==
    ASSUME [Next]_vars, ~Users, ~AddFinalizer, ~RemoveFinalizer, ~UpdateStatus,
           ~ProvisionInstance, ~DeprovisionInstance, ~BrokerFinishes
    PROVE  UNCHANGED <<obj, broker, released>>
BY DEF Next, vars, Environment, Reconcile, ReconcileApply, ReconcileDelete,
       ReconcileStatus, Deliver, SpaceChanges, SecretChanges, BindingsChange,
       BeginApply, FinalizerConflict, NamespaceTerminating, CheckPrerequisites,
       AlreadyActuated, ProvisionTimeout, ProvisionImpossible, CallBroker,
       PollProvision, BeginBlocked, BeginTerminating, BeginDelete, GetLive,
       GetLiveFails, DeleteDecides, DeprovisionTimeout, DeprovisionImpossible,
       DeleteAtBroker, PollDeprovision, RemoveFinalizerFails, NothingChanged,
       UpdateStatusSkipped, UpdateStatusConflict, Restart, Local, Return, Begin,
       apiVars, osbVars

(* Every step is a step of the guarded resource, or leaves it alone.        *)
LEMMA RefinementStep ==
    ASSUME IInv, [Next]_vars
    PROVE  [External!Next]_(External!vars)
<1> USE DEF External!Next, External!vars
<1>1. CASE Users \/ UpdateStatus
  <2>1. PICK o \in Object : Stored(o) /\ o.finalizer = obj.finalizer
    BY <1>1, UsersStored, UpdateStatusStored
  <2>2. UNCHANGED <<broker, released>>
    BY <1>1, UsersStored DEF UpdateStatus, WriteAndReturn, osbVars
  <2>3. obj'.finalizer = obj.finalizer
    BY <2>1 DEF Stored, Store
  <2> QED  BY <2>2, <2>3 DEF Guard
<1>2. CASE AddFinalizer
  <2>1. PICK o \in Object : Stored(o) /\ o.finalizer = TRUE
    BY <1>2, AddFinalizerStored
  <2>2. released = "no" /\ obj'.finalizer /\ broker' = broker
    BY <1>2, <2>1, AddFinalizerStored DEF Stored, Store, AddFinalizer, osbVars
  <2> QED  BY <2>2 DEF Guard, External!Hold
<1>3. CASE RemoveFinalizer
  <2>1. PICK o \in Object : Stored(o) /\ o.finalizer = FALSE
    BY <1>3, RemoveFinalizerStored
  <2>2. copy.status.osb = "ProvisionFailed" \/ broker = "absent"
    BY <1>3, RemoveFinalizerStored
  <2>3. /\ obj.finalizer /\ ~obj'.finalizer /\ broker' = broker
        /\ released' = IF copy.status.osb = "ProvisionFailed"
                         THEN "failed" ELSE "deprovisioned"
    BY <1>3, <2>1
    DEF Stored, Store, RemoveFinalizer, WriteAndReturn, osbVars, IInv, HeldCurrent
  <2> QED  BY <2>2, <2>3 DEF Guard, External!Release, External!Abandon
<1>4. CASE ProvisionInstance
  <2>1. obj.finalizer /\ obj' = obj /\ released' = released
    BY <1>4 DEF ProvisionInstance, apiVars, IInv, AppliesGuarded, ApplySteps
  <2>2. broker' \in Resource
    BY <1>4 DEF ProvisionInstance
  <2> QED  BY <2>1, <2>2 DEF Guard, External!Operate, External!Resource, Resource
<1>5. CASE DeprovisionInstance \/ BrokerFinishes
  <2>1. obj' = obj /\ released' = released /\ broker' \in Resource
    BY <1>5 DEF DeprovisionInstance, BrokerFinishes, apiVars
  <2>2. CASE broker = "absent"
    <3>1. broker' = broker
      BY <1>5, <2>2 DEF DeprovisionInstance, BrokerFinishes, DeleteStep, FinishStep
    <3> QED  BY <2>1, <3>1 DEF Guard
  <2>3. CASE broker # "absent"
    <3>1. obj.finalizer \/ (~obj.finalizer /\ released = "failed")
      BY <2>3 DEF IInv, NoOrphan
    <3> QED
      BY <2>1, <2>3, <3>1
      DEF Guard, External!Operate, External!Drift, External!Resource, Resource
  <2> QED  BY <2>2, <2>3
<1>6. CASE UNCHANGED <<obj, broker, released>>
  BY <1>6 DEF Guard
<1> QED  BY <1>1, <1>2, <1>3, <1>4, <1>5, <1>6, GuardUntouched

(* The reconciler, with its stale cache and all its failures, implements    *)
(* the guarded-resource specification: the finalizer is stored before the   *)
(* first request reaches the broker and is taken off only when the resource *)
(* is gone or given up.                                                     *)
THEOREM Refinement == Spec => ImplementsExternalResource
<1>1. Init => External!Init
  BY DEF Init, Guard, NewObject, External!Init
<1>2. IInv /\ [Next]_vars => [External!Next]_(External!vars)
  BY RefinementStep
<1> QED
  BY <1>1, <1>2, Inductive, PTL DEF Spec, ImplementsExternalResource, External!Spec
==============================================================================
