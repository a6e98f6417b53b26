--------------------- MODULE ServiceInstanceBindingProofs ---------------------
(***************************************************************************)
(* Proofs about ServiceInstanceBinding, for every bound and every set of   *)
(* disturbances.                                                           *)
(*                                                                         *)
(* BoundIsReal is not inductive: a status that says "Bound" reaches the    *)
(* object from the reconciler's copy, which came from the cache, which     *)
(* came from an earlier version.  IInv says of all of them that they are   *)
(* backed by the broker until an unbind was sent, and that an unbind is    *)
(* only sent once the cache itself shows the deletion, after which no      *)
(* version without the deletion mark can come up again.                    *)
(***************************************************************************)
EXTENDS ServiceInstanceBinding, SequenceTheorems, TLAPS

-----------------------------------------------------------------------------
(* The versions of the cached object: how a write, a delivery and a relist *)
(* move them.  S is the set of objects.                                    *)

\* What the informer shows, will show, and what is stored.
Versions == {cache, obj} \cup {watch[i] : i \in 1 .. Len(watch)}

\* The cache, then the undelivered versions, then the object: the deletion
\* mark is never taken back along this line, and its last version is obj.
Ordered ==
    /\ cache.deleting => obj.deleting
    /\ watch = <<>> => cache = obj
    /\ watch # <<>> => watch[Len(watch)] = obj
    /\ \A i \in 1 .. Len(watch) :
          /\ cache.deleting => watch[i].deleting
          /\ watch[i].deleting => obj.deleting
          /\ \A j \in i .. Len(watch) : watch[i].deleting => watch[j].deleting

-----------------------------------------------------------------------------
(* The shape of the steps *)

(* A write appends one version and leaves the earlier ones alone.           *)
LEMMA StoreShape ==
    ASSUME NEW S, watch \in Seq(S), NEW o \in S, Store(o)
    PROVE  /\ obj' = o
           /\ watch' \in Seq(S)
           /\ Len(watch') = Len(watch) + 1 /\ Len(watch) \in Nat
           /\ watch'[Len(watch')] = o
           /\ \A i \in 1 .. Len(watch) : watch'[i] = watch[i]
           /\ watch' # <<>>
BY DEF Store

(* A delivery moves the first pending version into the cache.               *)
LEMMA DeliverShape ==
    ASSUME NEW S, watch \in Seq(S), DeliverNext
    PROVE  /\ Len(watch) \in Nat \ {0}
           /\ watch' \in Seq(S)
           /\ cache' = watch[1] /\ cache' \in S
           /\ Len(watch') = Len(watch) - 1
           /\ \A i \in 1 .. Len(watch') : watch'[i] = watch[i + 1]
           /\ watch' = <<>> <=> Len(watch) = 1
<1>1. watch # <<>> /\ watch' = Tail(watch) /\ cache' = Head(watch)
  BY DEF DeliverNext
<1>2. Len(watch) \in Nat \ {0} /\ Head(watch) = watch[1] /\ watch[1] \in S
  BY <1>1
<1>3. /\ Tail(watch) \in Seq(S)
      /\ Len(Tail(watch)) = Len(watch) - 1
      /\ \A i \in 1 .. Len(watch) - 1 : Tail(watch)[i] = watch[i + 1]
  BY <1>1, <1>2
<1>4. Tail(watch) = <<>> <=> Len(Tail(watch)) = 0
  BY <1>3, EmptySeq
<1> QED  BY <1>1, <1>2, <1>3, <1>4

-----------------------------------------------------------------------------
(* Which versions there are *)

(* The only version a write adds is the one written.                        *)
LEMMA VersionsStored ==
    ASSUME NEW S, watch \in Seq(S), NEW o \in S, Store(o), cache' = cache
    PROVE  Versions' \subseteq Versions \cup {o}
<1>1. /\ obj' = o
      /\ Len(watch') = Len(watch) + 1 /\ Len(watch) \in Nat
      /\ watch'[Len(watch')] = o
      /\ \A i \in 1 .. Len(watch) : watch'[i] = watch[i]
  BY StoreShape
<1>2. ASSUME NEW i \in 1 .. Len(watch')
      PROVE  watch'[i] \in Versions \cup {o}
  <2>1. CASE i = Len(watch')
    BY <1>1, <2>1
  <2>2. CASE i # Len(watch')
    <3>1. i \in 1 .. Len(watch)
      BY <1>1, <2>2
    <3> QED  BY <1>1, <3>1 DEF Versions
  <2> QED  BY <2>1, <2>2
<1> QED  BY <1>1, <1>2 DEF Versions

(* A delivery adds none.                                                    *)
LEMMA VersionsDelivered ==
    ASSUME NEW S, watch \in Seq(S), DeliverNext, obj' = obj
    PROVE  Versions' \subseteq Versions
<1>1. /\ Len(watch) \in Nat \ {0} /\ cache' = watch[1]
      /\ Len(watch') = Len(watch) - 1
      /\ \A i \in 1 .. Len(watch') : watch'[i] = watch[i + 1]
  BY DeliverShape
<1>2. ASSUME NEW i \in 1 .. Len(watch')
      PROVE  watch'[i] \in Versions
  <2>1. i + 1 \in 1 .. Len(watch)
    BY <1>1
  <2> QED  BY <1>1, <2>1 DEF Versions
<1> QED  BY <1>1, <1>2 DEF Versions

(* A controller that lists the objects afresh has only the stored one.      *)
LEMMA VersionsRelisted ==
    ASSUME Relist, obj' = obj
    PROVE  Versions' = {obj}
<1>1. cache' = obj /\ Len(watch') = 0
  BY DEF Relist
<1> QED  BY <1>1 DEF Versions

-----------------------------------------------------------------------------
(* The order of the versions *)

(* A write that keeps the deletion mark keeps the versions in order.        *)
LEMMA OrderedStored ==
    ASSUME NEW S, watch \in Seq(S), NEW o \in S, Store(o), cache' = cache,
           Ordered, obj.deleting => o.deleting
    PROVE  Ordered'
<1>1. /\ obj' = o
      /\ Len(watch') = Len(watch) + 1 /\ Len(watch) \in Nat
      /\ watch'[Len(watch')] = o
      /\ \A i \in 1 .. Len(watch) : watch'[i] = watch[i]
      /\ watch' # <<>>
  BY StoreShape
<1>2. ASSUME NEW i \in 1 .. Len(watch')
      PROVE  /\ cache.deleting => watch'[i].deleting
             /\ watch'[i].deleting => o.deleting
             /\ \A j \in i .. Len(watch') : watch'[i].deleting => watch'[j].deleting
  <2>1. CASE i = Len(watch')
    BY <1>1, <2>1 DEF Ordered
  <2>2. CASE i # Len(watch')
    <3>1. i \in 1 .. Len(watch) /\ watch'[i] = watch[i]
      BY <1>1, <2>2
    <3>2. /\ cache.deleting => watch[i].deleting
          /\ watch[i].deleting => obj.deleting
          /\ \A j \in i .. Len(watch) : watch[i].deleting => watch[j].deleting
      BY <3>1 DEF Ordered
    <3>3. ASSUME NEW j \in i .. Len(watch'), watch'[i].deleting
          PROVE  watch'[j].deleting
      <4>1. CASE j = Len(watch')
        BY <1>1, <3>1, <3>2, <3>3, <4>1
      <4>2. CASE j # Len(watch')
        BY <1>1, <3>1, <3>2, <3>3, <4>2
      <4> QED  BY <4>1, <4>2
    <3> QED  BY <3>1, <3>2, <3>3
  <2> QED  BY <2>1, <2>2
<1> QED  BY <1>1, <1>2 DEF Ordered

(* A delivery keeps the order, and the cache never loses the deletion mark. *)
LEMMA OrderedDelivered ==
    ASSUME NEW S, watch \in Seq(S), DeliverNext, obj' = obj, Ordered
    PROVE  Ordered' /\ (cache.deleting => cache'.deleting)
<1>1. /\ Len(watch) \in Nat \ {0} /\ cache' = watch[1]
      /\ Len(watch') = Len(watch) - 1
      /\ \A i \in 1 .. Len(watch') : watch'[i] = watch[i + 1]
      /\ watch' = <<>> <=> Len(watch) = 1
  BY DeliverShape
<1>2. watch[Len(watch)] = obj
  BY DEF DeliverNext, Ordered
<1>3. /\ cache.deleting => watch[1].deleting
      /\ watch[1].deleting => obj.deleting
      /\ \A j \in 1 .. Len(watch) : watch[1].deleting => watch[j].deleting
  BY <1>1 DEF Ordered
<1>4. ASSUME NEW i \in 1 .. Len(watch')
      PROVE  /\ cache'.deleting => watch'[i].deleting
             /\ watch'[i].deleting => obj'.deleting
             /\ \A j \in i .. Len(watch') : watch'[i].deleting => watch'[j].deleting
  <2>1. i + 1 \in 1 .. Len(watch) /\ watch'[i] = watch[i + 1]
    BY <1>1
  <2>2. /\ watch[i + 1].deleting => obj.deleting
        /\ \A j \in i + 1 .. Len(watch) : watch[i + 1].deleting => watch[j].deleting
    BY <2>1 DEF Ordered
  <2>3. ASSUME NEW j \in i .. Len(watch'), watch'[i].deleting
        PROVE  watch'[j].deleting
    <3>1. j \in 1 .. Len(watch') /\ j + 1 \in i + 1 .. Len(watch)
      BY <1>1
    <3>2. watch'[j] = watch[j + 1]
      BY <1>1, <3>1
    <3> QED  BY <2>1, <2>2, <2>3, <3>1, <3>2
  <2> QED  BY <1>1, <1>3, <2>1, <2>2, <2>3
<1>5. watch' = <<>> => cache' = obj'
  BY <1>1, <1>2
<1>6. watch' # <<>> => watch'[Len(watch')] = obj'
  BY <1>1, <1>2
<1> QED
  BY <1>1, <1>3, <1>4, <1>5, <1>6 DEF Ordered

(* A relist makes the cache the stored object.                              *)
LEMMA OrderedRelisted ==
    ASSUME Relist, obj' = obj, Ordered
    PROVE  Ordered' /\ (cache.deleting => cache'.deleting)
<1>1. cache' = obj /\ watch' = <<>> /\ Len(watch') = 0
  BY DEF Relist
<1> QED  BY <1>1 DEF Ordered

-----------------------------------------------------------------------------
(* The inductive invariant, besides Ordered *)

\* What the reconciler holds, as long as it is current, is the stored object.
HeldCurrent ==
    current => /\ copy.deleting = obj.deleting
               /\ copy.finalizer = obj.finalizer

\* Until the finalizer is removed, no version has a finalizer obj lacks.
FinalizerKept ==
    released = "no" => \A v \in Versions : v.finalizer => obj.finalizer

\* Removing it, or asking for an unbind, takes a reconcile that saw the
\* deletion mark; from then on every reconcile sees it.
DeletionSeen ==
    /\ pc \in DeleteSteps => cache.deleting
    /\ released # "no" \/ asked = "unbind" =>
          cache.deleting /\ pc \notin ApplySteps
    /\ obj.finalizer => released = "no"

\* Past its first step, a reconcile that applies changes has the finalizer
\* stored; one that deletes has started from a version with it.
Guarded ==
    /\ pc \in ApplySteps \ {"finalizer"} => obj.finalizer
    /\ pc \in DeleteSteps \ {"status"} => copy.finalizer

\* Until an unbind was sent, a status "Bound" is backed by the broker;
\* "Unbound" is never stored.
Backed(o) ==
    /\ o.status.osb # "Unbound"
    /\ asked # "unbind" /\ o.status.osb = "Bound" => broker = "present"

VersionsBacked == \A v \in Versions : Backed(v)

\* "Unbound" ends the reconcile that computed it.
CopyBacked ==
    /\ copy.status.osb = "Unbound" => pc = "finalize"
    /\ asked # "unbind" /\ copy.status.osb = "Bound" => broker = "present"

\* So are credentials, written or about to be.
CredentialsBacked ==
    asked # "unbind" /\ (credentials \/ pc \in {"write", "rewrite"})
        => broker = "present"

\* The finalizer is about to be removed for one of two reasons.
FinalizeJustified ==
    pc = "finalize" => copy.status.osb = "BindFailed" \/ broker = "absent"

\* A binding at the broker has its finalizer, or was given up as failed.
NoOrphan == broker # "absent" => obj.finalizer \/ released = "failed"

\* The parts that speak of the running reconcile.
Running ==
    /\ HeldCurrent
    /\ DeletionSeen
    /\ Guarded
    /\ CopyBacked
    /\ CredentialsBacked
    /\ FinalizeJustified
    /\ NoOrphan

IInv ==
    /\ TypeOK
    /\ Ordered
    /\ FinalizerKept
    /\ VersionsBacked
    /\ Running

-----------------------------------------------------------------------------
(* Lemmas on the operators *)

(* The API server keeps or drops an object, and changes nothing else in it.  *)
LEMMA SettleKeeps ==
    ASSUME NEW o \in Object
    PROVE  /\ Settle(o) \in Object
           /\ Settle(o).deleting = o.deleting
           /\ Settle(o).finalizer = o.finalizer
           /\ Settle(o).status = o.status
BY DEF Settle, Object

(* Giving an object another status keeps it an object, with its marks.      *)
LEMMA WithStatus ==
    ASSUME NEW o \in Object, NEW st \in Status
    PROVE  /\ [o EXCEPT !.status = st] \in Object
           /\ [o EXCEPT !.status = st].status = st
           /\ [o EXCEPT !.status = st].deleting = o.deleting
           /\ [o EXCEPT !.status = st].finalizer = o.finalizer
           /\ [o EXCEPT !.status = st].unbindRequests = o.unbindRequests
BY DEF Object

(* Every status PropagateBindStatus and its siblings compute is a status.   *)
LEMMA StatusTyped ==
    ASSUME copy \in Object, NEW a
    PROVE  /\ copy.status \in Status
           /\ BoundBy(a) \in Status
           /\ BoundAsync(a) \in Status
           /\ UnboundBy(a) \in Status
           /\ UnboundAsync(a) \in Status
<1>1. copy.status \in Status
  BY DEF Object
<1>2. BoundBy("ok") \in Status /\ BoundBy("error") \in Status
      /\ BoundBy(a) \in Status
  BY <1>1 DEF BoundBy, Status, OSBState
<1>3. UnboundBy("ok") \in Status /\ UnboundBy("error") \in Status
      /\ UnboundBy(a) \in Status
  BY <1>1 DEF UnboundBy, Status, OSBState
<1>4. BoundAsync(a) \in Status
  BY <1>1, <1>2 DEF BoundAsync, Status
<1>5. UnboundAsync(a) \in Status
  BY <1>1, <1>3 DEF UnboundAsync, Status
<1> QED  BY <1>1, <1>2, <1>3, <1>4, <1>5

(* What these statuses say of the operation: only an answer that the broker *)
(* has the binding makes it "Bound", only one that it is gone "Unbound".    *)
LEMMA StatusOSB ==
    ASSUME copy \in Object, NEW a, copy.status.osb # "Unbound"
    PROVE  /\ BoundBy(a).osb # "Unbound"
           /\ BoundBy(a).osb = "Bound" => a \notin {"error", "async"}
           /\ BoundAsync(a).osb # "Unbound"
           /\ BoundAsync(a).osb = "Bound"
                => a = "succeeded" \/ copy.status.osb = "Bound"
           /\ UnboundBy(a).osb # "Bound"
           /\ a \in {"error", "async"} => UnboundBy(a).osb # "Unbound"
           /\ UnboundAsync(a).osb = "Bound" => copy.status.osb = "Bound"
           /\ a \notin {"succeeded", "gone"} => UnboundAsync(a).osb # "Unbound"
<1>1. copy.status \in Status
  BY DEF Object
<1>2. /\ BoundBy(a).osb # "Unbound"
      /\ BoundBy(a).osb = "Bound" => a \notin {"error", "async"}
      /\ BoundBy("ok").osb # "Unbound" /\ BoundBy("error").osb = "BindFailed"
  BY <1>1 DEF BoundBy, Status
<1>3. /\ UnboundBy(a).osb # "Bound"
      /\ a \in {"error", "async"} => UnboundBy(a).osb # "Unbound"
      /\ UnboundBy("ok").osb # "Bound" /\ UnboundBy("error").osb = "UnbindFailed"
  BY <1>1 DEF UnboundBy, Status
<1>4. /\ BoundAsync(a).osb # "Unbound"
      /\ BoundAsync(a).osb = "Bound"
           => a = "succeeded" \/ copy.status.osb = "Bound"
  BY <1>1, <1>2 DEF BoundAsync, Status
<1>5. /\ UnboundAsync(a).osb = "Bound" => copy.status.osb = "Bound"
      /\ a \notin {"succeeded", "gone"} => UnboundAsync(a).osb # "Unbound"
  BY <1>1, <1>3 DEF UnboundAsync, Status
<1> QED  BY <1>2, <1>3, <1>4, <1>5

(* metadata.generation is a natural number.                                 *)
LEMMA GenerationTyped ==
    ASSUME NEW o \in Object
    PROVE  Generation(o) \in Nat
BY DEF Generation, Object

(* The status a deletion starts with.                                       *)
LEMMA ObservedTyped ==
    ASSUME cache \in Object
    PROVE  /\ Observed \in Status
           /\ [Observed EXCEPT !.ready = "Terminating"] \in Status
           /\ Observed.osb = cache.status.osb
           /\ [Observed EXCEPT !.ready = "Terminating"].osb = cache.status.osb
<1>1. cache.status \in Status /\ Generation(cache) \in Nat
  BY GenerationTyped DEF Object
<1> QED  BY <1>1 DEF Observed, Status

-----------------------------------------------------------------------------
(* Type correctness *)

(* A step on the reconciler's own copy keeps the types.                     *)
LEMMA LocalTyped ==
    ASSUME TypeOK, NEW next \in ApplySteps \cup DeleteSteps,
           NEW status \in Status, Local(next, status)
    PROVE  TypeOK'
<1>1. copy' \in Object
  BY WithStatus DEF TypeOK, Local
<1> QED
  BY <1>1 DEF TypeOK, Local, apiVars, envVars, osbVars

(* The variables a finished reconcile leaves behind are well-typed.         *)
LEMMA DoneTyped ==
    ASSUME Done
    PROVE  /\ pc' = "idle" /\ copy' \in Object /\ original' \in Status
           /\ current' \in BOOLEAN
BY DEF Done, NoObject, NewObject, NewStatus, Object, Status, OSBState

(* Returning without a write keeps the types.                               *)
LEMMA ReturnTyped ==
    ASSUME TypeOK, Return
    PROVE  TypeOK'
BY DoneTyped DEF TypeOK, Return, apiVars, envVars, osbVars

(* Starting a reconcile from the cached version keeps the types.            *)
LEMMA BeginTyped ==
    ASSUME TypeOK, NEW next \in ApplySteps \cup DeleteSteps,
           NEW status \in Status, Begin(next, status)
    PROVE  TypeOK'
<1>1. copy' \in Object /\ original' \in Status
  BY DEF TypeOK, Begin, Object
<1> QED
  BY <1>1 DEF TypeOK, Begin, apiVars, envVars, osbVars

(* A user's write of an object keeps the types.                             *)
LEMMA UserWriteTyped ==
    ASSUME TypeOK, NEW o \in Object, UserWrite(o)
    PROVE  TypeOK'
<1>1. obj' \in Object /\ watch' \in Seq(Object)
  BY SettleKeeps, StoreShape DEF TypeOK, UserWrite
<1> QED
  BY <1>1 DEF TypeOK, UserWrite, envVars, osbVars

(* A reconcile's last write keeps the types.                                *)
LEMMA WriteAndReturnTyped ==
    ASSUME TypeOK, NEW o \in Object, WriteAndReturn(o),
           released' \in {"no", "unbound", "failed"}
    PROVE  TypeOK'
<1>1. obj' \in Object /\ watch' \in Seq(Object)
  BY SettleKeeps, StoreShape DEF TypeOK, WriteAndReturn
<1> QED
  BY <1>1, DoneTyped DEF TypeOK, WriteAndReturn, envVars, osbVars

\* What the users write: one more request, or a mark.
UserVersion(o) ==
    /\ o \in Object
    /\ obj.deleting => o.deleting
    /\ o.finalizer = obj.finalizer
    /\ o.status = obj.status

(* The four user actions change neither the finalizer nor the status.       *)
LEMMA UsersWrite ==
    ASSUME TypeOK, Users
    PROVE  \E o : UserVersion(o) /\ UserWrite(o)
<1>1. obj \in Object
  BY DEF TypeOK
<1>2. CASE RequestUnbind
  <2>1. obj.unbindRequests + 1 \in Nat
    BY <1>1 DEF Object
  <2>2. UserVersion([obj EXCEPT !.unbindRequests = @ + 1])
    BY <1>1, <2>1 DEF UserVersion, Object
  <2> QED  BY <1>2, <2>2 DEF RequestUnbind
<1>3. CASE ForegroundDelete
  <2>1. UserVersion([obj EXCEPT !.deleting = TRUE, !.held = TRUE])
    BY <1>1 DEF UserVersion, Object
  <2> QED  BY <1>3, <2>1 DEF ForegroundDelete
<1>4. CASE BackgroundDelete
  <2>1. UserVersion([obj EXCEPT !.deleting = TRUE])
    BY <1>1 DEF UserVersion, Object
  <2> QED  BY <1>4, <2>1 DEF BackgroundDelete
<1>5. CASE ForegroundDone
  <2>1. UserVersion([obj EXCEPT !.held = FALSE])
    BY <1>1 DEF UserVersion, Object
  <2> QED  BY <1>5, <2>1 DEF ForegroundDone
<1> QED  BY <1>2, <1>3, <1>4, <1>5 DEF Users

-----------------------------------------------------------------------------
(* The step forms keep the invariant *)

(* A step that touches no version keeps what is said of the versions, as    *)
(* long as the broker's binding does not go away before an unbind is sent.  *)
LEMMA VersionsKept ==
    ASSUME IInv, UNCHANGED <<obj, watch, cache, released>>,
           asked' # "unbind" => asked # "unbind" /\ (broker = "present" => broker' = "present")
    PROVE  Ordered' /\ FinalizerKept' /\ VersionsBacked'
<1>1. Versions' = Versions
  BY DEF Versions
<1>2. Ordered' /\ FinalizerKept'
  BY <1>1 DEF IInv, Ordered, FinalizerKept
<1>3. VersionsBacked'
  BY <1>1 DEF IInv, VersionsBacked, Backed
<1> QED  BY <1>2, <1>3

(* A write of a version that keeps the deletion mark and is backed.         *)
LEMMA VersionsWritten ==
    ASSUME IInv, NEW o \in Object, Store(o), obj.deleting => o.deleting, Backed(o),
           UNCHANGED <<cache, broker, asked>>,
           released' = "no" => released = "no" /\ (obj.finalizer => o.finalizer)
    PROVE  Ordered' /\ FinalizerKept' /\ VersionsBacked'
<1>1. watch \in Seq(Object) /\ Ordered
  BY DEF IInv, TypeOK
<1>2. Ordered'
  BY <1>1, OrderedStored
<1>3. Versions' \subseteq Versions \cup {o} /\ obj' = o
  BY <1>1, VersionsStored DEF Store
<1>4. FinalizerKept'
  BY <1>3 DEF IInv, FinalizerKept
<1>5. VersionsBacked'
  BY <1>3 DEF IInv, VersionsBacked, Backed
<1> QED  BY <1>2, <1>4, <1>5

(* A reconcile that ends leaves nothing to justify but the object itself.   *)
LEMMA RunningDone ==
    ASSUME IInv, Done, NoOrphan', cache' = cache,
           asked' = asked, broker' = broker, credentials' = credentials,
           released' # "no" => cache.deleting,
           obj'.finalizer => released' = "no"
    PROVE  Running'
<1>1. pc' = "idle" /\ copy'.status.osb = "Blank" /\ current' = FALSE
  BY DEF Done, NoObject, NewObject, NewStatus
<1>2. HeldCurrent' /\ DeletionSeen' /\ Guarded' /\ FinalizeJustified'
  BY <1>1
  DEF IInv, Running, HeldCurrent, DeletionSeen, Guarded, FinalizeJustified,
      ApplySteps, DeleteSteps
<1>3. CopyBacked' /\ CredentialsBacked'
  BY <1>1 DEF IInv, Running, CopyBacked, CredentialsBacked
<1> QED  BY <1>2, <1>3 DEF Running

(* An early return or a failed call ends the reconcile.                     *)
LEMMA ReturnKeeps ==
    ASSUME IInv, Return
    PROVE  IInv'
<1>1. /\ UNCHANGED <<obj, watch, cache, broker, asked, released, credentials>>
      /\ Done
  BY DEF Return, apiVars, osbVars
<1>2. TypeOK'
  BY ReturnTyped DEF IInv
<1>3. Running'
  <2>1. NoOrphan'
    BY <1>1 DEF IInv, Running, NoOrphan
  <2> QED  BY <1>1, <2>1, RunningDone DEF IInv, Running, DeletionSeen
<1> QED  BY <1>1, <1>2, <1>3, VersionsKept DEF IInv

(* A reconcile of a version without the deletion mark starts only while the *)
(* finalizer was never removed; any other start is a deletion step.         *)
LEMMA BeginKeeps ==
    ASSUME IInv, NEW next \in {"finalizer", "apply", "delete", "status"},
           NEW status \in Status, Begin(next, status),
           status.osb = cache.status.osb,
           next \in {"delete", "status"} <=> cache.deleting,
           next \in {"apply", "delete"} <=> cache.finalizer
    PROVE  IInv'
<1>1. /\ pc' = next /\ copy' = [cache EXCEPT !.status = status]
      /\ current' = (watch = <<>>)
      /\ UNCHANGED <<obj, watch, cache, broker, asked, released, credentials>>
  BY DEF Begin, apiVars, osbVars
<1>2. TypeOK'
  BY BeginTyped DEF IInv, ApplySteps, DeleteSteps
<1>3. /\ copy'.deleting = cache.deleting /\ copy'.finalizer = cache.finalizer
      /\ copy'.status.osb = cache.status.osb
  BY <1>1, WithStatus DEF IInv, TypeOK
<1>4. HeldCurrent'
  BY <1>1, <1>3 DEF IInv, Ordered, HeldCurrent
<1>5. DeletionSeen'
  BY <1>1 DEF IInv, Running, DeletionSeen, ApplySteps, DeleteSteps
<1>6. Guarded'
  BY <1>1, <1>3
  DEF IInv, Running, Guarded, DeletionSeen, FinalizerKept, Versions,
      ApplySteps, DeleteSteps
<1>7. CopyBacked' /\ CredentialsBacked'
  BY <1>1, <1>3
  DEF IInv, Running, CopyBacked, CredentialsBacked, VersionsBacked, Backed, Versions
<1>8. FinalizeJustified' /\ NoOrphan'
  BY <1>1 DEF IInv, Running, FinalizeJustified, NoOrphan
<1> QED
  BY <1>1, <1>2, <1>4, <1>5, <1>6, <1>7, <1>8, VersionsKept DEF IInv, Running

\* Within one reconcile: applying stays applying, deleting stays deleting.
Follows(next) ==
    \/ /\ pc \in ApplySteps \ {"finalizer"}
       /\ next \in ApplySteps \ {"finalizer"}
    \/ pc \in DeleteSteps \ {"status"} /\ next \in DeleteSteps

(* A step on the reconciler's own copy keeps the invariant, if the status   *)
(* it computes and the step it goes to are justified.                       *)
LEMMA LocalKeeps ==
    ASSUME IInv, NEW next, NEW status \in Status, Local(next, status),
           Follows(next),
           status.osb = "Unbound" => next = "finalize",
           asked # "unbind" /\ status.osb = "Bound" => broker = "present",
           next \in {"write", "rewrite"} => broker = "present",
           next = "finalize" => status.osb = "BindFailed" \/ broker = "absent"
    PROVE  IInv'
<1>1. /\ pc' = next /\ copy' = [copy EXCEPT !.status = status]
      /\ UNCHANGED <<obj, watch, cache, current, broker, asked, released,
                     credentials>>
  BY DEF Local, apiVars, osbVars
<1>2. TypeOK'
  BY LocalTyped DEF IInv, Follows
<1>3. /\ copy'.deleting = copy.deleting /\ copy'.finalizer = copy.finalizer
      /\ copy'.status = status
  BY <1>1, WithStatus DEF IInv, TypeOK
<1>4. HeldCurrent'
  BY <1>1, <1>3 DEF IInv, Running, HeldCurrent
<1>5. DeletionSeen' /\ Guarded'
  BY <1>1, <1>3
  DEF IInv, Running, DeletionSeen, Guarded, Follows, ApplySteps, DeleteSteps
<1>6. CopyBacked' /\ CredentialsBacked'
  BY <1>1, <1>3 DEF IInv, Running, CopyBacked, CredentialsBacked
<1>7. FinalizeJustified' /\ NoOrphan'
  BY <1>1, <1>3 DEF IInv, Running, FinalizeJustified, NoOrphan
<1> QED
  BY <1>1, <1>2, <1>4, <1>5, <1>6, <1>7, VersionsKept DEF IInv, Running

-----------------------------------------------------------------------------
(* The actions keep the invariant *)

(* What the users write.                                                    *)
LEMMA UsersKeep ==
    ASSUME IInv, Users
    PROVE  IInv'
<1>1. PICK o : UserVersion(o) /\ UserWrite(o)
  BY UsersWrite DEF IInv
<1>2. o \in Object
  BY <1>1 DEF UserVersion
<1> DEFINE w == Settle(o)
<1>3. /\ w \in Object /\ w.deleting = o.deleting /\ w.finalizer = o.finalizer
      /\ w.status = o.status
  BY <1>2, SettleKeeps
<1>4. /\ Store(w) /\ current' = FALSE
      /\ UNCHANGED <<cache, pc, copy, credentials, broker, asked, released>>
  BY <1>1 DEF UserWrite, osbVars
<1>5. /\ obj.deleting => w.deleting
      /\ w.finalizer = obj.finalizer /\ w.status = obj.status
  BY <1>1, <1>3 DEF UserVersion
<1> HIDE DEF w
<1>6. Backed(w)
  BY <1>5 DEF IInv, VersionsBacked, Backed, Versions
<1>7. Ordered' /\ FinalizerKept' /\ VersionsBacked'
  BY <1>3, <1>4, <1>5, <1>6, VersionsWritten
<1>8. obj' = w
  BY <1>4 DEF Store
<1>9. Running'
  BY <1>4, <1>5, <1>8
  DEF IInv, Running, HeldCurrent, DeletionSeen, Guarded, CopyBacked,
      CredentialsBacked, FinalizeJustified, NoOrphan
<1> QED  BY <1>1, <1>2, <1>7, <1>9, UserWriteTyped DEF IInv

(* The finalizer is added to a copy that is still the stored object.        *)
LEMMA AddFinalizerKeeps ==
    ASSUME IInv, AddFinalizer
    PROVE  IInv' /\ released = "no" /\ obj'.finalizer
<1> DEFINE w == [copy EXCEPT !.finalizer = TRUE]
<1>1. /\ w \in Object /\ w.deleting = copy.deleting /\ w.finalizer = TRUE
      /\ w.status = copy.status
  BY DEF IInv, TypeOK, Object
<1>2. /\ pc = "finalizer" /\ pc' = "apply" /\ current /\ Store(w) /\ current' = FALSE
      /\ UNCHANGED <<cache, copy, credentials, broker, asked, released>>
  BY DEF AddFinalizer, osbVars
<1> HIDE DEF w
<1>3. copy.deleting = obj.deleting /\ copy.finalizer = obj.finalizer
  BY <1>2 DEF IInv, Running, HeldCurrent
<1>4. released = "no" /\ asked # "unbind"
  BY <1>2 DEF IInv, Running, DeletionSeen, ApplySteps
<1>5. Backed(w)
  BY <1>1, <1>2 DEF IInv, Running, CopyBacked, Backed
<1>6. Ordered' /\ FinalizerKept' /\ VersionsBacked'
  BY <1>1, <1>2, <1>3, <1>4, <1>5, VersionsWritten
<1>7. obj' = w
  BY <1>2 DEF Store
<1>8. HeldCurrent' /\ DeletionSeen' /\ Guarded' /\ FinalizeJustified' /\ NoOrphan'
  BY <1>1, <1>2, <1>4, <1>7
  DEF HeldCurrent, DeletionSeen, Guarded, FinalizeJustified, NoOrphan,
      ApplySteps, DeleteSteps
<1>9. CopyBacked' /\ CredentialsBacked'
  BY <1>2 DEF IInv, Running, CopyBacked, CredentialsBacked
<1>10. TypeOK'
  <2>1. obj' \in Object /\ watch' \in Seq(Object)
    BY <1>1, <1>2, StoreShape DEF IInv, TypeOK
  <2> QED
    BY <2>1 DEF IInv, TypeOK, AddFinalizer, envVars, osbVars, ApplySteps
<1> QED  BY <1>1, <1>3, <1>4, <1>6, <1>7, <1>8, <1>9, <1>10 DEF IInv, Running

(* The finalizer is taken off a copy that is still the stored object.       *)
LEMMA RemoveFinalizerKeeps ==
    ASSUME IInv, RemoveFinalizer
    PROVE  /\ IInv'
           /\ obj.finalizer /\ ~obj'.finalizer
           /\ copy.status.osb = "BindFailed" \/ broker = "absent"
<1> DEFINE w == [copy EXCEPT !.finalizer = FALSE, !.status = obj.status]
           s == Settle(w)
<1>1. /\ w \in Object /\ w.deleting = copy.deleting /\ w.finalizer = FALSE
      /\ w.status = obj.status
  BY DEF IInv, TypeOK, Object
<1>2. /\ s \in Object /\ s.deleting = copy.deleting /\ s.finalizer = FALSE
      /\ s.status = obj.status
  BY <1>1, SettleKeeps
<1>3. WriteAndReturn(w) /\ pc = "finalize" /\ current
  BY DEF RemoveFinalizer
<1>4. /\ Store(s) /\ Done
      /\ UNCHANGED <<cache, credentials, broker, asked>>
  BY <1>3 DEF WriteAndReturn, osbVars
<1> HIDE DEF w, s
<1>5. released' = IF copy.status.osb = "BindFailed" THEN "failed" ELSE "unbound"
  BY DEF RemoveFinalizer
<1>6. /\ copy.deleting = obj.deleting /\ copy.finalizer = obj.finalizer
      /\ copy.finalizer /\ cache.deleting
  BY <1>3
  DEF IInv, Running, HeldCurrent, Guarded, DeletionSeen, DeleteSteps
<1>7. copy.status.osb = "BindFailed" \/ broker = "absent"
  BY <1>3 DEF IInv, Running, FinalizeJustified
<1>8. Backed(s)
  BY <1>2 DEF IInv, VersionsBacked, Backed, Versions
<1>9. Ordered' /\ FinalizerKept' /\ VersionsBacked'
  BY <1>2, <1>4, <1>5, <1>6, <1>8, VersionsWritten
<1>10. obj' = s
  BY <1>4 DEF Store
<1>11. NoOrphan'
  BY <1>4, <1>5, <1>7 DEF NoOrphan
<1>12. Running'
  BY <1>2, <1>4, <1>6, <1>10, <1>11, RunningDone
<1>13. TypeOK'
  BY <1>1, <1>3, <1>5, WriteAndReturnTyped DEF IInv
<1> QED  BY <1>2, <1>6, <1>7, <1>9, <1>10, <1>12, <1>13 DEF IInv

(* updateStatus puts the copy's status on a cache that is up to date.       *)
LEMMA UpdateStatusKeeps ==
    ASSUME IInv, UpdateStatus
    PROVE  IInv' /\ obj'.finalizer = obj.finalizer
<1> DEFINE w == [cache EXCEPT !.status = copy.status]
           s == Settle(w)
<1>1. /\ w \in Object /\ w.deleting = cache.deleting
      /\ w.finalizer = cache.finalizer /\ w.status = copy.status
  BY DEF IInv, TypeOK, Object
<1>2. /\ s \in Object /\ s.deleting = cache.deleting
      /\ s.finalizer = cache.finalizer /\ s.status = copy.status
  BY <1>1, SettleKeeps
<1>3. WriteAndReturn(w) /\ watch = <<>> /\ pc # "finalize" /\ released' = released
  BY DEF UpdateStatus
<1>4. /\ Store(s) /\ Done
      /\ UNCHANGED <<cache, credentials, broker, asked>>
  BY <1>3 DEF WriteAndReturn, osbVars
<1> HIDE DEF w, s
<1>5. cache = obj
  BY <1>3 DEF IInv, Ordered
<1>6. Backed(s)
  BY <1>2, <1>3 DEF IInv, Running, CopyBacked, Backed
<1>7. Ordered' /\ FinalizerKept' /\ VersionsBacked'
  BY <1>2, <1>3, <1>4, <1>5, <1>6, VersionsWritten
<1>8. obj' = s
  BY <1>4 DEF Store
<1>9. NoOrphan'
  BY <1>2, <1>3, <1>4, <1>5, <1>8 DEF IInv, Running, NoOrphan
<1>10. Running'
  BY <1>2, <1>3, <1>4, <1>5, <1>8, <1>9, RunningDone
  DEF IInv, Running, DeletionSeen
<1>11. TypeOK'
  BY <1>1, <1>3, WriteAndReturnTyped DEF IInv, TypeOK
<1> QED  BY <1>2, <1>5, <1>7, <1>8, <1>10, <1>11 DEF IInv

(* Listers, broker, deliveries and restarts.                                *)
LEMMA EnvironmentKeeps ==
    ASSUME IInv, Environment \/ Restart
    PROVE  IInv'
<1>1. CASE Deliver
  <2>1. /\ DeliverNext
        /\ UNCHANGED <<obj, pc, copy, current, credentials, broker, asked, released>>
    BY <1>1 DEF Deliver, workVars, osbVars
  <2>2. watch \in Seq(Object) /\ Ordered
    BY DEF IInv, TypeOK
  <2>3. Ordered' /\ (cache.deleting => cache'.deleting)
    BY <2>1, <2>2, OrderedDelivered
  <2>4. Versions' \subseteq Versions
    BY <2>1, <2>2, VersionsDelivered
  <2>5. FinalizerKept' /\ VersionsBacked'
    BY <2>1, <2>4 DEF IInv, FinalizerKept, VersionsBacked, Backed
  <2>6. Running'
    BY <2>1, <2>3
    DEF IInv, Running, HeldCurrent, DeletionSeen, Guarded, CopyBacked,
        CredentialsBacked, FinalizeJustified, NoOrphan
  <2>7. cache' \in Object /\ watch' \in Seq(Object)
    BY <2>1, <2>2, DeliverShape
  <2>8. TypeOK'
    BY <1>1, <2>7 DEF IInv, TypeOK, Deliver, workVars, envVars, osbVars
  <2> QED  BY <2>3, <2>5, <2>6, <2>8 DEF IInv
<1>2. CASE ParamsChange \/ InstanceChanges \/ NamespaceTerminates
  <2>1. UNCHANGED <<obj, watch, cache, pc, copy, original, current, credentials,
                    broker, asked, released>>
    BY <1>2
    DEF ParamsChange, InstanceChanges, NamespaceTerminates, apiVars, workVars,
        osbVars
  <2>2. params' \in Params /\ instance' \in Instance /\ terminating' \in BOOLEAN
    <3>1. CASE ParamsChange
      BY <3>1 DEF IInv, TypeOK, ParamsChange, Params
    <3>2. CASE InstanceChanges
      BY <3>2 DEF IInv, TypeOK, InstanceChanges, Instance
    <3>3. CASE NamespaceTerminates
      BY <3>3 DEF IInv, TypeOK, NamespaceTerminates
    <3> QED  BY <1>2, <3>1, <3>2, <3>3
  <2>3. TypeOK'
    BY <2>1, <2>2 DEF IInv, TypeOK
  <2>4. Running'
    BY <2>1
    DEF IInv, Running, HeldCurrent, DeletionSeen, Guarded, CopyBacked,
        CredentialsBacked, FinalizeJustified, NoOrphan
  <2> QED  BY <2>1, <2>3, <2>4, VersionsKept DEF IInv
<1>3. CASE BrokerFinishes
  <2>1. /\ UNCHANGED <<obj, watch, cache, pc, copy, current, credentials, asked,
                       released>>
        /\ broker \notin {"absent", "present"}
        /\ broker' \in Resource
    BY <1>3 DEF BrokerFinishes, FinishStep, apiVars, workVars
  <2>2. TypeOK'
    BY <1>3, <2>1 DEF IInv, TypeOK, BrokerFinishes, apiVars, workVars, envVars
  <2>3. HeldCurrent' /\ DeletionSeen' /\ Guarded'
    BY <2>1 DEF IInv, Running, HeldCurrent, DeletionSeen, Guarded
  <2>4. CopyBacked' /\ CredentialsBacked'
    BY <2>1 DEF IInv, Running, CopyBacked, CredentialsBacked
  <2>5. FinalizeJustified' /\ NoOrphan'
    BY <2>1 DEF IInv, Running, FinalizeJustified, NoOrphan
  <2> QED  BY <2>1, <2>2, <2>3, <2>4, <2>5, VersionsKept DEF IInv, Running
<1>4. CASE Restart
  <2>1. /\ Done /\ Relist
        /\ UNCHANGED <<obj, credentials, broker, asked, released>>
    BY <1>4 DEF Restart, osbVars
  <2>2. Ordered' /\ (cache.deleting => cache'.deleting)
    BY <2>1, OrderedRelisted DEF IInv
  <2>3. Versions' = {obj} /\ obj \in Versions
    BY <2>1, VersionsRelisted DEF Versions
  <2>4. FinalizerKept' /\ VersionsBacked'
    BY <2>1, <2>3 DEF IInv, FinalizerKept, VersionsBacked, Backed
  <2>5. pc' = "idle" /\ copy'.status.osb = "Blank" /\ current' = FALSE
    BY <2>1 DEF Done, NoObject, NewObject, NewStatus
  <2>6. HeldCurrent' /\ DeletionSeen' /\ Guarded' /\ FinalizeJustified' /\ NoOrphan'
    BY <2>1, <2>2, <2>5
    DEF IInv, Running, HeldCurrent, DeletionSeen, Guarded, FinalizeJustified,
        NoOrphan, ApplySteps, DeleteSteps
  <2>7. CopyBacked' /\ CredentialsBacked'
    BY <2>1, <2>5 DEF IInv, Running, CopyBacked, CredentialsBacked
  <2>8. TypeOK'
    BY <1>4, DoneTyped DEF IInv, TypeOK, Restart, Relist, envVars, osbVars
  <2> QED  BY <2>2, <2>4, <2>6, <2>7, <2>8 DEF IInv, Running
<1> QED  BY <1>1, <1>2, <1>3, <1>4 DEF Environment

(* The early returns and failed calls.                                      *)
LEMMA ReturnsKeep ==
    ASSUME IInv,
           \/ FinalizerConflict \/ NamespaceTerminating \/ RemoveFinalizerFails
           \/ NothingChanged \/ UpdateStatusSkipped \/ UpdateStatusConflict
    PROVE  IInv'
BY ReturnKeeps
DEF FinalizerConflict, NamespaceTerminating, RemoveFinalizerFails,
    NothingChanged, UpdateStatusSkipped, UpdateStatusConflict

(* A reconcile that starts.                                                 *)
LEMMA BeginsKeep ==
    ASSUME IInv, BeginApply \/ BeginTerminating \/ BeginDelete
    PROVE  IInv'
<1>1. /\ cache.status \in Status
      /\ cache.deleting \in BOOLEAN /\ cache.finalizer \in BOOLEAN
      /\ Observed \in Status
      /\ [Observed EXCEPT !.ready = "Terminating"] \in Status
      /\ Observed.osb = cache.status.osb
      /\ [Observed EXCEPT !.ready = "Terminating"].osb = cache.status.osb
  BY ObservedTyped DEF IInv, TypeOK, Object
<1>2. CASE BeginApply
  BY <1>1, <1>2, BeginKeeps DEF BeginApply
<1>3. CASE BeginTerminating
  BY <1>1, <1>3, BeginKeeps DEF BeginTerminating
<1>4. CASE BeginDelete
  BY <1>1, <1>4, BeginKeeps DEF BeginDelete
<1> QED  BY <1>2, <1>3, <1>4

(* The local steps of ApplyChanges.  "Bound" is computed anew only from the *)
(* broker's own report, and credentials are asked for once it has one.      *)
LEMMA AppliesKeep ==
    ASSUME IInv,
           \/ CheckPrerequisites \/ AlreadyActuated \/ BindTimeout
           \/ BindImpossible \/ CallBroker \/ PollBind
           \/ WriteCredentialsFails \/ CredentialsSettled \/ FetchCredentials
           \/ GetBinding \/ GetBindingFails
    PROVE  IInv'
<1>1. pc \in ApplySteps \ {"finalizer"}
  BY DEF CheckPrerequisites, AlreadyActuated, BindTimeout, BindImpossible,
         CallBroker, PollBind, WriteCredentialsFails, CredentialsSettled,
         FetchCredentials, GetBinding, GetBindingFails, ApplySteps
<1>2. /\ copy \in Object /\ copy.status \in Status /\ Generation(copy) \in Nat
      /\ copy.status.osb # "Unbound"
      /\ asked # "unbind" /\ copy.status.osb = "Bound" => broker = "present"
  BY <1>1, GenerationTyped
  DEF IInv, Running, TypeOK, Object, CopyBacked, ApplySteps
<1>3. \E next \in ApplySteps \ {"finalizer"}, status \in Status :
         /\ Local(next, status)
         /\ status.osb # "Unbound"
         /\ asked # "unbind" /\ status.osb = "Bound" => broker = "present"
         /\ next \in {"write", "rewrite"} => broker = "present"
  <2>1. CASE CheckPrerequisites
    <3> DEFINE st == [copy.status EXCEPT
                        !.observed = Generation(copy),
                        !.backing = IF @ = "Nil" THEN "Unknown" ELSE @,
                        !.ready = "Derived",
                        !.params = params,
                        !.instance = IF ParamsStop THEN @ ELSE instance]
    <3>1. params \in Params /\ instance \in Instance
      BY DEF IInv, TypeOK
    <3>2. st \in Status /\ st.osb = copy.status.osb
      BY <1>2, <3>1 DEF Status
    <3>3. Local(IF ParamsStop \/ InstanceStop THEN "applied" ELSE "actuate", st)
      BY <2>1 DEF CheckPrerequisites
    <3> HIDE DEF st
    <3> QED  BY <1>2, <3>2, <3>3 DEF ApplySteps
  <2>2. CASE AlreadyActuated \/ CallBroker \/ CredentialsSettled \/ FetchCredentials
             \/ GetBinding
    BY <1>2, <2>2
    DEF AlreadyActuated, CallBroker, CredentialsSettled, FetchCredentials,
        GetBinding, ApplySteps
  <2>3. CASE BindTimeout
    <3>1. BoundBy("error") \in Status /\ BoundBy("error").osb \notin {"Unbound", "Bound"}
      BY <1>2, StatusTyped, StatusOSB
    <3> QED  BY <2>3, <3>1 DEF BindTimeout, ApplySteps
  <2>4. CASE BindImpossible
    <3> DEFINE st == [copy.status EXCEPT !.backing = "False"]
    <3>1. st \in Status /\ st.osb = copy.status.osb
      BY <1>2 DEF Status
    <3>2. Local("applied", st)
      BY <2>4 DEF BindImpossible
    <3> HIDE DEF st
    <3> QED  BY <1>2, <3>1, <3>2 DEF ApplySteps
  <2>5. CASE PollBind
    <3>1. PICK a \in PollAnswer : PollCreateStep(broker, a) /\ Local("creds", BoundAsync(a))
      BY <2>5 DEF PollBind
    <3>2. /\ BoundAsync(a) \in Status /\ BoundAsync(a).osb # "Unbound"
          /\ BoundAsync(a).osb = "Bound"
               => a = "succeeded" \/ copy.status.osb = "Bound"
      BY <1>2, StatusTyped, StatusOSB
    <3>3. a = "succeeded" => broker = "present"
      BY <3>1 DEF PollCreateStep
    <3> QED  BY <1>2, <3>1, <3>2, <3>3 DEF ApplySteps
  <2>6. CASE WriteCredentialsFails
    <3>1. PICK c \in {"error", copy.status.creds} :
             Local(IF pc = "write" THEN "creds" ELSE "applied",
                   [copy.status EXCEPT !.creds = c])
      BY <2>6 DEF WriteCredentialsFails
    <3> DEFINE st == [copy.status EXCEPT !.creds = c]
    <3>2. st \in Status /\ st.osb = copy.status.osb
      BY <1>2 DEF Status
    <3>3. Local(IF pc = "write" THEN "creds" ELSE "applied", st)
      BY <3>1
    <3> HIDE DEF st
    <3> QED  BY <1>2, <3>2, <3>3 DEF ApplySteps
  <2>7. CASE GetBindingFails
    <3> DEFINE st == [copy.status EXCEPT !.creds = "error"]
    <3>1. st \in Status /\ st.osb = copy.status.osb
      BY <1>2 DEF Status
    <3>2. Local("applied", st)
      BY <2>7 DEF GetBindingFails
    <3> HIDE DEF st
    <3> QED  BY <1>2, <3>1, <3>2 DEF ApplySteps
  <2> QED  BY <2>1, <2>2, <2>3, <2>4, <2>5, <2>6, <2>7
<1>4. PICK next \in ApplySteps \ {"finalizer"}, status \in Status :
         /\ Local(next, status)
         /\ status.osb # "Unbound"
         /\ asked # "unbind" /\ status.osb = "Bound" => broker = "present"
         /\ next \in {"write", "rewrite"} => broker = "present"
  BY <1>3
<1>5. Follows(next) /\ next # "finalize"
  BY <1>1 DEF Follows, ApplySteps
<1> QED  BY <1>4, <1>5, LocalKeeps

(* The local steps of deleteServiceBinding.  The finalizer is to be removed *)
(* only for a binding that failed, or that the broker reports gone.         *)
LEMMA DeletesKeep ==
    ASSUME IInv,
           \/ InstanceGone \/ DeleteDecides \/ UnbindTimeout
           \/ UnbindImpossible \/ DeleteAtBroker \/ PollUnbind
    PROVE  IInv'
<1>1. pc \in DeleteSteps \ {"status"} /\ pc # "finalize"
  BY DEF InstanceGone, DeleteDecides, UnbindTimeout, UnbindImpossible,
         DeleteAtBroker, PollUnbind, DeleteSteps
<1>2. /\ copy \in Object /\ copy.status \in Status
      /\ copy.status.osb # "Unbound"
      /\ asked # "unbind" /\ copy.status.osb = "Bound" => broker = "present"
  BY <1>1 DEF IInv, Running, TypeOK, Object, CopyBacked
<1>3. \E next \in DeleteSteps, status \in Status :
         /\ Local(next, status)
         /\ status.osb = "Unbound" => next = "finalize"
         /\ status.osb = "Bound" => copy.status.osb = "Bound"
         /\ next = "finalize" => status.osb = "BindFailed" \/ broker = "absent"
  <2>1. CASE InstanceGone \/ UnbindImpossible
    <3> DEFINE st == [copy.status EXCEPT !.backing = "False", !.ready = "Derived"]
    <3>1. st \in Status /\ st.osb = copy.status.osb
      BY <1>2 DEF Status
    <3> QED  BY <1>2, <2>1, <3>1 DEF InstanceGone, UnbindImpossible, DeleteSteps
  <2>2. CASE DeleteDecides
    <3>1. DeleteFinished => copy.status.osb = "BindFailed"
      BY <1>2 DEF DeleteFinished
    <3> QED  BY <1>2, <2>2, <3>1 DEF DeleteDecides, DeleteSteps
  <2>3. CASE UnbindTimeout
    <3>1. /\ UnboundBy("error") \in Status
          /\ UnboundBy("error").osb \notin {"Bound", "Unbound"}
      BY <1>2, StatusTyped, StatusOSB
    <3> QED  BY <2>3, <3>1 DEF UnbindTimeout, DeleteSteps
  <2>4. CASE DeleteAtBroker
    BY <1>2, <2>4 DEF DeleteAtBroker, DeleteSteps
  <2>5. CASE PollUnbind
    <3>1. PICK a \in PollAnswer :
             /\ PollDeleteStep(broker, a)
             /\ Local(IF a \in {"succeeded", "gone"} THEN "finalize" ELSE "status",
                      UnboundAsync(a))
      BY <2>5 DEF PollUnbind
    <3>2. /\ UnboundAsync(a) \in Status
          /\ UnboundAsync(a).osb = "Bound" => copy.status.osb = "Bound"
          /\ a \notin {"succeeded", "gone"} => UnboundAsync(a).osb # "Unbound"
      BY <1>2, StatusTyped, StatusOSB
    <3>3. a \in {"succeeded", "gone"} => broker = "absent"
      BY <3>1 DEF PollDeleteStep
    <3> QED  BY <3>1, <3>2, <3>3 DEF DeleteSteps
  <2> QED  BY <2>1, <2>2, <2>3, <2>4, <2>5
<1>4. PICK next \in DeleteSteps, status \in Status :
         /\ Local(next, status)
         /\ status.osb = "Unbound" => next = "finalize"
         /\ status.osb = "Bound" => copy.status.osb = "Bound"
         /\ next = "finalize" => status.osb = "BindFailed" \/ broker = "absent"
  BY <1>3
<1>5. Follows(next) /\ next \notin {"write", "rewrite"}
  BY <1>1 DEF Follows, DeleteSteps
<1> QED  BY <1>2, <1>4, <1>5, LocalKeeps

(* Writing the credentials Secret of a binding the broker has.              *)
LEMMA WriteCredentialsKeeps ==
    ASSUME IInv, WriteCredentials
    PROVE  IInv'
<1>1. /\ pc \in {"write", "rewrite"} /\ pc' \in {"creds", "applied"}
      /\ copy' = [copy EXCEPT !.status.creds = "written"]
      /\ UNCHANGED <<obj, watch, cache, current, broker, asked, released>>
  BY DEF WriteCredentials, apiVars, osbVars
<1>2. asked # "unbind" /\ broker = "present"
  BY <1>1 DEF IInv, Running, DeletionSeen, CredentialsBacked, ApplySteps
<1>3. copy \in Object /\ copy.status \in Status
  BY DEF IInv, TypeOK, Object
<1>4. /\ [copy.status EXCEPT !.creds = "written"] \in Status
      /\ [copy.status EXCEPT !.creds = "written"].osb = copy.status.osb
  BY <1>3 DEF Status
<1>5. copy' = [copy EXCEPT !.status = [copy.status EXCEPT !.creds = "written"]]
  BY <1>1, <1>3 DEF Object
<1>6. /\ copy' \in Object
      /\ copy'.deleting = copy.deleting /\ copy'.finalizer = copy.finalizer
      /\ copy'.status.osb = copy.status.osb
  BY <1>3, <1>4, <1>5, WithStatus
<1>7. TypeOK'
  BY <1>6
  DEF IInv, TypeOK, WriteCredentials, apiVars, envVars, osbVars, ApplySteps
<1>8. HeldCurrent' /\ DeletionSeen' /\ Guarded' /\ FinalizeJustified' /\ NoOrphan'
  BY <1>1, <1>6
  DEF IInv, Running, HeldCurrent, DeletionSeen, Guarded, FinalizeJustified,
      NoOrphan, ApplySteps, DeleteSteps
<1>9. CopyBacked' /\ CredentialsBacked'
  BY <1>1, <1>2, <1>6 DEF IInv, Running, CopyBacked, CredentialsBacked
<1> QED  BY <1>1, <1>7, <1>8, <1>9, VersionsKept DEF IInv, Running

(* Bind: the finalizer is stored, no unbind was sent yet, and a binding the *)
(* broker has is not lost.                                                  *)
LEMMA BindKeeps ==
    ASSUME IInv, Bind
    PROVE  IInv' /\ obj.finalizer
<1>1. /\ pc = "bind" /\ asked' = "bind"
      /\ UNCHANGED <<obj, watch, cache, released, credentials>>
  BY DEF Bind, apiVars
<1>2. obj.finalizer /\ released = "no" /\ asked # "unbind"
  BY <1>1 DEF IInv, Running, Guarded, DeletionSeen, ApplySteps
<1>3. PICK a \in Answer, r \in Resource :
          /\ CreateStep(broker, a, r)
          /\ broker' = r
          /\ \/ a = "conflict" /\ Done
             \/ /\ a # "conflict"
                /\ pc' = CASE a = "ok"    -> "write"
                           [] a = "async" -> "poll"
                           [] OTHER       -> "applied"
                /\ copy' = [copy EXCEPT !.status = BoundBy(a)]
                /\ UNCHANGED <<original, current>>
  BY DEF Bind
<1>4. /\ broker = "present" => broker' = "present"
      /\ a = "ok" => broker' = "present"
      /\ a \in {"ok", "async", "conflict", "error"}
  BY <1>3 DEF CreateStep
<1>5. NoOrphan'
  BY <1>1, <1>2 DEF NoOrphan
<1>6. Ordered' /\ FinalizerKept' /\ VersionsBacked'
  BY <1>1, <1>2, <1>4, VersionsKept
<1>7. CASE Done
  <2>1. pc' = "idle" /\ copy'.status.osb = "Blank" /\ current' = FALSE
    BY <1>7 DEF Done, NoObject, NewObject, NewStatus
  <2>2. HeldCurrent' /\ DeletionSeen' /\ Guarded' /\ FinalizeJustified'
    BY <1>1, <1>2, <2>1
    DEF HeldCurrent, DeletionSeen, Guarded, FinalizeJustified, ApplySteps,
        DeleteSteps
  <2>3. CopyBacked' /\ CredentialsBacked'
    BY <1>1, <1>2, <1>4, <2>1 DEF IInv, Running, CopyBacked, CredentialsBacked
  <2>4. TypeOK'
    BY <1>1, <1>3, <1>7, DoneTyped DEF IInv, TypeOK, Bind, apiVars, envVars
  <2> QED  BY <1>2, <1>5, <1>6, <2>2, <2>3, <2>4 DEF IInv, Running
<1>8. CASE /\ a # "conflict"
           /\ pc' = CASE a = "ok"    -> "write"
                      [] a = "async" -> "poll"
                      [] OTHER       -> "applied"
           /\ copy' = [copy EXCEPT !.status = BoundBy(a)]
           /\ UNCHANGED <<original, current>>
  <2>1. copy \in Object /\ copy.status.osb # "Unbound"
    BY <1>1 DEF IInv, Running, TypeOK, CopyBacked
  <2>2. /\ BoundBy(a) \in Status /\ BoundBy(a).osb # "Unbound"
        /\ BoundBy(a).osb = "Bound" => a = "ok"
    BY <1>4, <1>8, <2>1, StatusTyped, StatusOSB
  <2>3. /\ copy' \in Object
        /\ copy'.deleting = copy.deleting /\ copy'.finalizer = copy.finalizer
        /\ copy'.status = BoundBy(a)
    BY <1>8, <2>1, <2>2, WithStatus
  <2>4. pc' \in {"write", "poll", "applied"} /\ (pc' = "write" => a = "ok")
    BY <1>8
  <2>5. HeldCurrent'
    BY <1>1, <1>8, <2>3 DEF IInv, Running, HeldCurrent
  <2>6. DeletionSeen' /\ Guarded' /\ FinalizeJustified'
    BY <1>1, <1>2, <2>4
    DEF DeletionSeen, Guarded, FinalizeJustified, ApplySteps, DeleteSteps
  <2>7. CopyBacked' /\ CredentialsBacked'
    BY <1>1, <1>2, <1>4, <2>2, <2>3, <2>4
    DEF IInv, Running, CopyBacked, CredentialsBacked
  <2>8. TypeOK'
    BY <1>1, <1>3, <1>8, <2>3, <2>4
    DEF IInv, TypeOK, Bind, apiVars, envVars, ApplySteps
  <2> QED  BY <1>2, <1>5, <1>6, <2>5, <2>6, <2>7, <2>8 DEF IInv, Running
<1> QED  BY <1>3, <1>7, <1>8

(* Unbind: the reconcile saw the deletion mark, and goes on to remove the   *)
(* finalizer only if the broker answered that the binding is gone.          *)
LEMMA UnbindKeeps ==
    ASSUME IInv, Unbind
    PROVE  IInv'
<1>1. /\ pc = "unbind" /\ asked' = "unbind"
      /\ UNCHANGED <<obj, watch, cache, current, released, credentials>>
  BY DEF Unbind, apiVars
<1>2. cache.deleting /\ copy.finalizer /\ copy.status.osb # "Unbound"
  BY <1>1 DEF IInv, Running, DeletionSeen, Guarded, CopyBacked, DeleteSteps
<1>3. PICK a \in Answer, r \in Resource :
          /\ DeleteStep(broker, a, r)
          /\ broker' = r
          /\ copy' = [copy EXCEPT !.status =
                [UnboundBy(a) EXCEPT !.unbindRequests = copy.unbindRequests]]
          /\ pc' = CASE a = "error" -> "status"
                     [] a = "async" -> "pollDelete"
                     [] OTHER       -> "finalize"
  BY DEF Unbind
<1>4. /\ broker' # "absent" => broker # "absent"
      /\ a \notin {"error", "async"} => broker' = "absent"
  BY <1>3 DEF DeleteStep
<1>5. copy \in Object /\ copy.unbindRequests \in Nat /\ UnboundBy(a) \in Status
  BY StatusTyped DEF IInv, TypeOK, Object
<1> DEFINE st == [UnboundBy(a) EXCEPT !.unbindRequests = copy.unbindRequests]
<1>6. st \in Status /\ st.osb = UnboundBy(a).osb
  BY <1>5 DEF Status
<1>7. copy' = [copy EXCEPT !.status = st]
  BY <1>3
<1> HIDE DEF st
<1>8. /\ copy' \in Object
      /\ copy'.deleting = copy.deleting /\ copy'.finalizer = copy.finalizer
      /\ copy'.status.osb = UnboundBy(a).osb
  BY <1>5, <1>6, <1>7, WithStatus
<1>9. /\ pc' \in {"status", "pollDelete", "finalize"}
      /\ pc' = "finalize" <=> a \notin {"error", "async"}
  BY <1>3
<1>10. copy'.status.osb = "Unbound" => pc' = "finalize"
  BY <1>2, <1>5, <1>8, <1>9, StatusOSB
<1>11. HeldCurrent'
  BY <1>1, <1>8 DEF IInv, Running, HeldCurrent
<1>12. DeletionSeen' /\ Guarded' /\ FinalizeJustified' /\ NoOrphan'
  BY <1>1, <1>2, <1>4, <1>8, <1>9
  DEF IInv, Running, DeletionSeen, Guarded, FinalizeJustified, NoOrphan,
      ApplySteps, DeleteSteps
<1>13. CopyBacked' /\ CredentialsBacked'
  BY <1>1, <1>10 DEF CopyBacked, CredentialsBacked
<1>14. TypeOK'
  BY <1>1, <1>3, <1>8, <1>9
  DEF IInv, TypeOK, Unbind, apiVars, envVars, DeleteSteps
<1> QED  BY <1>1, <1>11, <1>12, <1>13, <1>14, VersionsKept DEF IInv, Running

-----------------------------------------------------------------------------
(* The theorems *)

(* A new object, not yet in the cache.                                      *)
LEMMA IInvInit == Init => IInv
<1> SUFFICES ASSUME Init PROVE IInv
  OBVIOUS
<1>1. NewStatus \in Status
  BY DEF NewStatus, Status, OSBState
<1>2. /\ NewObject \in Object /\ NoObject \in Object
      /\ ~NewObject.deleting /\ ~NewObject.finalizer
      /\ ~NoObject.deleting /\ ~NoObject.finalizer
      /\ NewObject.status.osb = "Blank" /\ NoObject.status.osb = "Blank"
  BY <1>1 DEF NewObject, NoObject, Object, NewStatus
<1>3. /\ obj = NewObject /\ cache = NoObject /\ copy = NoObject
      /\ watch = <<NewObject>> /\ Len(watch) = 1 /\ watch[1] = NewObject
      /\ watch \in Seq(Object)
  BY <1>2 DEF Init
<1>4. TypeOK
  <2>1. /\ pc \in {"idle"} \cup ApplySteps \cup DeleteSteps
        /\ asked \in {"none", "bind", "unbind"}
        /\ released \in {"no", "unbound", "failed"}
    BY DEF Init
  <2>2. current \in BOOLEAN /\ terminating \in BOOLEAN /\ credentials \in BOOLEAN
    BY DEF Init
  <2>3. broker \in Resource /\ params \in Params /\ instance \in Instance
    BY DEF Init, Resource, Params, Instance
  <2> QED  BY <1>1, <1>2, <1>3, <2>1, <2>2, <2>3 DEF Init, TypeOK
<1>5. Versions = {NewObject, NoObject}
  BY <1>3 DEF Versions
<1>6. Ordered
  BY <1>2, <1>3 DEF Ordered
<1>7. FinalizerKept /\ VersionsBacked
  BY <1>2, <1>5 DEF FinalizerKept, VersionsBacked, Backed
<1>8. Running
  BY <1>2, <1>3
  DEF Init, Running, HeldCurrent, DeletionSeen, Guarded, CopyBacked,
      CredentialsBacked, FinalizeJustified, NoOrphan, ApplySteps, DeleteSteps
<1> QED  BY <1>4, <1>6, <1>7, <1>8 DEF IInv

(* The invariant is inductive.                                              *)
LEMMA IInvStep == IInv /\ [Next]_vars => IInv'
<1> SUFFICES ASSUME IInv, [Next]_vars
             PROVE  IInv'
  OBVIOUS
<1>1. CASE Users
  BY <1>1, UsersKeep
<1>2. CASE Environment \/ Restart
  BY <1>2, EnvironmentKeeps
<1>3. CASE ReconcileApply
  BY <1>3, BeginsKeep, AddFinalizerKeeps, ReturnsKeep, AppliesKeep, BindKeeps,
     WriteCredentialsKeeps
  DEF ReconcileApply
<1>4. CASE ReconcileDelete
  BY <1>4, BeginsKeep, DeletesKeep, UnbindKeeps, RemoveFinalizerKeeps, ReturnsKeep
  DEF ReconcileDelete
<1>5. CASE ReconcileStatus
  BY <1>5, ReturnsKeep, UpdateStatusKeeps DEF ReconcileStatus
<1>6. CASE UNCHANGED vars
  BY <1>6
  DEF vars, IInv, TypeOK, Ordered, Versions, FinalizerKept, VersionsBacked,
      Backed, Running, HeldCurrent, DeletionSeen, Guarded, CopyBacked,
      CredentialsBacked, FinalizeJustified, NoOrphan
<1> QED
  BY <1>1, <1>2, <1>3, <1>4, <1>5, <1>6 DEF Next, Reconcile

(* The inductive invariant holds in every reachable state.                  *)
LEMMA Inductive == Spec => []IInv
<1> QED  BY IInvInit, IInvStep, PTL DEF Spec

(* The reconciler's state, the stored object and every cached or pending    *)
(* version of it keep their types, for every bound.                         *)
THEOREM TypeCorrect == Spec => []TypeOK
<1>1. IInv => TypeOK
  BY DEF IInv
<1> QED  BY <1>1, Inductive, PTL

(* For every lag of the informer, every number of unbind commands and every *)
(* set of failures: a binding that is not being deleted and is reported     *)
(* "Bound", or whose credentials the App was given, exists at the broker.   *)
THEOREM BoundIsRealHolds == Spec => []BoundIsReal
<1>1. IInv => BoundIsReal
  <2> SUFFICES ASSUME IInv, ~obj.deleting, obj.status.osb = "Bound" \/ credentials
               PROVE  broker = "present"
    BY DEF BoundIsReal
  <2>1. asked # "unbind"
    BY DEF IInv, Running, DeletionSeen, Ordered
  <2> QED
    BY <2>1
    DEF IInv, VersionsBacked, Backed, Versions, Running, CredentialsBacked
<1> QED  BY <1>1, Inductive, PTL

(* Only two steps send the broker a request.                                *)
LEMMA AskedBy ==
    ASSUME [Next]_vars, ~Unbind
    PROVE  Bind \/ asked' = asked
BY DEF Next, vars, Users, Environment, Reconcile, ReconcileApply,
       ReconcileDelete, ReconcileStatus, RequestUnbind, ForegroundDelete,
       BackgroundDelete, ForegroundDone, UserWrite, Deliver, ParamsChange,
       InstanceChanges, NamespaceTerminates, BrokerFinishes, BeginApply,
       AddFinalizer, FinalizerConflict, NamespaceTerminating,
       CheckPrerequisites, AlreadyActuated, BindTimeout, BindImpossible,
       CallBroker, PollBind, WriteCredentials, WriteCredentialsFails,
       CredentialsSettled, FetchCredentials, GetBinding, GetBindingFails,
       BeginTerminating, BeginDelete, InstanceGone, DeleteDecides,
       UnbindTimeout, UnbindImpossible, DeleteAtBroker, PollUnbind,
       RemoveFinalizer, RemoveFinalizerFails, NothingChanged, UpdateStatus,
       UpdateStatusSkipped, UpdateStatusConflict, Restart, Local, Return,
       WriteAndReturn, Begin, osbVars

(* No interleaving of a stale cache, restarts and failed calls makes Kf     *)
(* bind again what it already asked to unbind.                              *)
THEOREM NeverReboundHolds == Spec => NeverRebound
<1>1. IInv /\ [Next]_vars => [asked = "unbind" => asked' = "unbind"]_asked
  <2> SUFFICES ASSUME IInv, [Next]_vars, asked = "unbind"
               PROVE  asked' = "unbind"
    OBVIOUS
  <2>1. ~Bind
    BY DEF IInv, Running, DeletionSeen, Bind, ApplySteps
  <2>2. Unbind => asked' = "unbind"
    BY DEF Unbind
  <2> QED  BY <2>1, <2>2, AskedBy
<1> QED  BY <1>1, Inductive, PTL DEF Spec, NeverRebound

-----------------------------------------------------------------------------
(* The refinement *)

(* Only a write moves the finalizer, and only three steps move the broker.  *)
LEMMA GuardUntouched ==
    ASSUME [Next]_vars, ~Users, ~AddFinalizer, ~RemoveFinalizer, ~UpdateStatus,
           ~Bind, ~Unbind, ~BrokerFinishes
    PROVE  UNCHANGED <<obj, broker, released>>
BY DEF Next, vars, Environment, Reconcile, ReconcileApply, ReconcileDelete,
       ReconcileStatus, Deliver, ParamsChange, InstanceChanges,
       NamespaceTerminates, BeginApply, FinalizerConflict,
       NamespaceTerminating, CheckPrerequisites, AlreadyActuated, BindTimeout,
       BindImpossible, CallBroker, PollBind, WriteCredentials,
       WriteCredentialsFails, CredentialsSettled, FetchCredentials, GetBinding,
       GetBindingFails, BeginTerminating, BeginDelete, InstanceGone,
       DeleteDecides, UnbindTimeout, UnbindImpossible, DeleteAtBroker,
       PollUnbind, RemoveFinalizerFails, NothingChanged, UpdateStatusSkipped,
       UpdateStatusConflict, Restart, Local, Return, Begin, apiVars, osbVars

(* Every step is a step of the guarded resource, or leaves it alone.        *)
LEMMA RefinementStep ==
    ASSUME IInv, [Next]_vars
    PROVE  [External!Next]_(External!vars)
<1> USE DEF External!Next, External!vars
<1>1. CASE Users
  <2>1. PICK o : UserVersion(o) /\ UserWrite(o)
    BY <1>1, UsersWrite DEF IInv
  <2>2. obj' = Settle(o) /\ UNCHANGED <<broker, released>>
    BY <2>1 DEF UserWrite, Store, osbVars
  <2>3. obj'.finalizer = obj.finalizer
    BY <2>1, <2>2, SettleKeeps DEF UserVersion
  <2> QED  BY <2>2, <2>3 DEF Guard
<1>2. CASE UpdateStatus
  <2>1. UNCHANGED <<broker, released>> /\ obj'.finalizer = obj.finalizer
    BY <1>2, UpdateStatusKeeps DEF UpdateStatus, WriteAndReturn, osbVars
  <2> QED  BY <2>1 DEF Guard
<1>3. CASE AddFinalizer
  <2>1. /\ released = "no" /\ obj'.finalizer
        /\ UNCHANGED <<broker, released>>
    BY <1>3, AddFinalizerKeeps DEF AddFinalizer, osbVars
  <2> QED  BY <2>1 DEF Guard, External!Hold
<1>4. CASE RemoveFinalizer
  <2>1. /\ obj.finalizer /\ ~obj'.finalizer
        /\ copy.status.osb = "BindFailed" \/ broker = "absent"
    BY <1>4, RemoveFinalizerKeeps
  <2>2. /\ broker' = broker
        /\ released' = IF copy.status.osb = "BindFailed" THEN "failed" ELSE "unbound"
    BY <1>4 DEF RemoveFinalizer, WriteAndReturn, osbVars
  <2> QED  BY <2>1, <2>2 DEF Guard, External!Release, External!Abandon
<1>5. CASE Bind
  <2>1. obj.finalizer
    BY <1>5, BindKeeps
  <2>2. obj' = obj /\ released' = released /\ broker' \in Resource
    BY <1>5 DEF Bind, apiVars
  <2> QED  BY <2>1, <2>2 DEF Guard, External!Operate, External!Resource, Resource
<1>6. CASE Unbind \/ BrokerFinishes
  <2>1. obj' = obj /\ released' = released /\ broker' \in Resource
    BY <1>6 DEF Unbind, BrokerFinishes, apiVars
  <2>2. CASE broker = "absent"
    <3>1. broker' = broker
      BY <1>6, <2>2 DEF Unbind, BrokerFinishes, DeleteStep, FinishStep
    <3> QED  BY <2>1, <3>1 DEF Guard
  <2>3. CASE broker # "absent"
    <3>1. obj.finalizer \/ (~obj.finalizer /\ released = "failed")
      BY <2>3 DEF IInv, Running, NoOrphan
    <3> QED
      BY <2>1, <2>3, <3>1
      DEF Guard, External!Operate, External!Drift, External!Resource, Resource
  <2> QED  BY <2>2, <2>3
<1>7. CASE UNCHANGED <<obj, broker, released>>
  BY <1>7 DEF Guard
<1> QED
  BY <1>1, <1>2, <1>3, <1>4, <1>5, <1>6, <1>7, GuardUntouched

(* The reconciler, although it deletes from a cached copy, implements the   *)
(* guarded-resource specification: the finalizer is stored before the first *)
(* Bind and is taken off only when the binding is gone or given up.         *)
THEOREM Refinement == Spec => ImplementsExternalResource
<1>1. Init => External!Init
  BY DEF Init, Guard, NewObject, External!Init
<1>2. IInv /\ [Next]_vars => [External!Next]_(External!vars)
  BY RefinementStep
<1> QED
  BY <1>1, <1>2, Inductive, PTL DEF Spec, ImplementsExternalResource, External!Spec
==============================================================================
