---------------------------- MODULE BrokersProofs ----------------------------
(***************************************************************************)
(* Proofs about Brokers, for every set of service instances, every lag of  *)
(* the informer and every bound on changes and faults.                     *)
(*                                                                         *)
(* CatalogIsFresh is about the stored broker only, but the status that is  *)
(* written comes from a run's copy, which came from a listed version: the  *)
(* invariant says of every version, and of the copy, that a good catalog   *)
(* is no older than the request it answers.  InUseStays rests on the       *)
(* finalizer, which stays as long as a guarded instance is listed.         *)
(***************************************************************************)
EXTENDS Brokers, SequenceTheorems, TLAPS

-----------------------------------------------------------------------------
(* The versions of the cached object: how a write, a delivery and a relist *)
(* move them.  S is the set of objects.                                    *)

\* What the informer shows, will show, and what is stored.
Versions == {cache, obj} \cup {watch[i] : i \in 1 .. Len(watch)}

\* The cache, then the undelivered versions, then the object: the deletion
\* mark is never taken back along this line, and its last version is obj.
Ordered ==
    /\ cache.deleting => obj.deleting
    /\ watch = <<>> => cache = obj
    /\ watch # <<>> => watch[Len(watch)] = obj
    /\ \A i \in 1 .. Len(watch) :
          /\ cache.deleting => watch[i].deleting
          /\ watch[i].deleting => obj.deleting
          /\ \A j \in i .. Len(watch) : watch[i].deleting => watch[j].deleting

-----------------------------------------------------------------------------
(* The shape of the steps *)

(* A write appends one version and leaves the earlier ones alone.           *)
LEMMA StoreShape ==
    ASSUME NEW S, watch \in Seq(S), NEW o \in S, Store(o)
    PROVE  /\ obj' = o
           /\ watch' \in Seq(S)
           /\ Len(watch') = Len(watch) + 1 /\ Len(watch) \in Nat
           /\ watch'[Len(watch')] = o
           /\ \A i \in 1 .. Len(watch) : watch'[i] = watch[i]
           /\ watch' # <<>>
BY DEF Store

(* A delivery moves the first pending version into the cache.               *)
LEMMA DeliverShape ==
    ASSUME NEW S, watch \in Seq(S), DeliverNext
    PROVE  /\ Len(watch) \in Nat \ {0}
           /\ watch' \in Seq(S)
           /\ cache' = watch[1] /\ cache' \in S
           /\ Len(watch') = Len(watch) - 1
           /\ \A i \in 1 .. Len(watch') : watch'[i] = watch[i + 1]
           /\ watch' = <<>> <=> Len(watch) = 1
<1>1. watch # <<>> /\ watch' = Tail(watch) /\ cache' = Head(watch)
  BY DEF DeliverNext
<1>2. Len(watch) \in Nat \ {0} /\ Head(watch) = watch[1] /\ watch[1] \in S
  BY <1>1
<1>3. /\ Tail(watch) \in Seq(S)
      /\ Len(Tail(watch)) = Len(watch) - 1
      /\ \A i \in 1 .. Len(watch) - 1 : Tail(watch)[i] = watch[i + 1]
  BY <1>1, <1>2
<1>4. Tail(watch) = <<>> <=> Len(Tail(watch)) = 0
  BY <1>3, EmptySeq
<1> QED  BY <1>1, <1>2, <1>3, <1>4

-----------------------------------------------------------------------------
(* Which versions there are *)

(* The only version a write adds is the one written.                        *)
LEMMA VersionsStored ==
    ASSUME NEW S, watch \in Seq(S), NEW o \in S, Store(o), cache' = cache
    PROVE  Versions' \subseteq Versions \cup {o}
<1>1. /\ obj' = o
      /\ Len(watch') = Len(watch) + 1 /\ Len(watch) \in Nat
      /\ watch'[Len(watch')] = o
      /\ \A i \in 1 .. Len(watch) : watch'[i] = watch[i]
  BY StoreShape
<1>2. ASSUME NEW i \in 1 .. Len(watch')
      PROVE  watch'[i] \in Versions \cup {o}
  <2>1. CASE i = Len(watch')
    BY <1>1, <2>1
  <2>2. CASE i # Len(watch')
    <3>1. i \in 1 .. Len(watch)
      BY <1>1, <2>2
    <3> QED  BY <1>1, <3>1 DEF Versions
  <2> QED  BY <2>1, <2>2
<1> QED  BY <1>1, <1>2 DEF Versions

(* A delivery adds none.                                                    *)
LEMMA VersionsDelivered ==
    ASSUME NEW S, watch \in Seq(S), DeliverNext, obj' = obj
    PROVE  Versions' \subseteq Versions
<1>1. /\ Len(watch) \in Nat \ {0} /\ cache' = watch[1]
      /\ Len(watch') = Len(watch) - 1
      /\ \A i \in 1 .. Len(watch') : watch'[i] = watch[i + 1]
  BY DeliverShape
<1>2. ASSUME NEW i \in 1 .. Len(watch')
      PROVE  watch'[i] \in Versions
  <2>1. i + 1 \in 1 .. Len(watch)
    BY <1>1
  <2> QED  BY <1>1, <2>1 DEF Versions
<1> QED  BY <1>1, <1>2 DEF Versions

(* A controller that lists the objects afresh has only the stored one.      *)
LEMMA VersionsRelisted ==
    ASSUME Relist, obj' = obj
    PROVE  Versions' = {obj}
<1>1. cache' = obj /\ Len(watch') = 0
  BY DEF Relist
<1> QED  BY <1>1 DEF Versions

-----------------------------------------------------------------------------
(* The order of the versions *)

(* A write that keeps the deletion mark keeps the versions in order.        *)
LEMMA OrderedStored ==
    ASSUME NEW S, watch \in Seq(S), NEW o \in S, Store(o), cache' = cache,
           Ordered, obj.deleting => o.deleting
    PROVE  Ordered'
<1>1. /\ obj' = o
      /\ Len(watch') = Len(watch) + 1 /\ Len(watch) \in Nat
      /\ watch'[Len(watch')] = o
      /\ \A i \in 1 .. Len(watch) : watch'[i] = watch[i]
      /\ watch' # <<>>
  BY StoreShape
<1>2. ASSUME NEW i \in 1 .. Len(watch')
      PROVE  /\ cache.deleting => watch'[i].deleting
             /\ watch'[i].deleting => o.deleting
             /\ \A j \in i .. Len(watch') : watch'[i].deleting => watch'[j].deleting
  <2>1. CASE i = Len(watch')
    BY <1>1, <2>1 DEF Ordered
  <2>2. CASE i # Len(watch')
    <3>1. i \in 1 .. Len(watch) /\ watch'[i] = watch[i]
      BY <1>1, <2>2
    <3>2. /\ cache.deleting => watch[i].deleting
          /\ watch[i].deleting => obj.deleting
          /\ \A j \in i .. Len(watch) : watch[i].deleting => watch[j].deleting
      BY <3>1 DEF Ordered
    <3>3. ASSUME NEW j \in i .. Len(watch'), watch'[i].deleting
          PROVE  watch'[j].deleting
      <4>1. CASE j = Len(watch')
        BY <1>1, <3>1, <3>2, <3>3, <4>1
      <4>2. CASE j # Len(watch')
        BY <1>1, <3>1, <3>2, <3>3, <4>2
      <4> QED  BY <4>1, <4>2
    <3> QED  BY <3>1, <3>2, <3>3
  <2> QED  BY <2>1, <2>2
<1> QED  BY <1>1, <1>2 DEF Ordered

(* A delivery keeps the order, and the cache never loses the deletion mark. *)
LEMMA OrderedDelivered ==
    ASSUME NEW S, watch \in Seq(S), DeliverNext, obj' = obj, Ordered
    PROVE  Ordered' /\ (cache.deleting => cache'.deleting)
<1>1. /\ Len(watch) \in Nat \ {0} /\ cache' = watch[1]
      /\ Len(watch') = Len(watch) - 1
      /\ \A i \in 1 .. Len(watch') : watch'[i] = watch[i + 1]
      /\ watch' = <<>> <=> Len(watch) = 1
  BY DeliverShape
<1>2. watch[Len(watch)] = obj
  BY DEF DeliverNext, Ordered
<1>3. /\ cache.deleting => watch[1].deleting
      /\ watch[1].deleting => obj.deleting
      /\ \A j \in 1 .. Len(watch) : watch[1].deleting => watch[j].deleting
  BY <1>1 DEF Ordered
<1>4. ASSUME NEW i \in 1 .. Len(watch')
      PROVE  /\ cache'.deleting => watch'[i].deleting
             /\ watch'[i].deleting => obj'.deleting
             /\ \A j \in i .. Len(watch') : watch'[i].deleting => watch'[j].deleting
  <2>1. i + 1 \in 1 .. Len(watch) /\ watch'[i] = watch[i + 1]
    BY <1>1
  <2>2. /\ watch[i + 1].deleting => obj.deleting
        /\ \A j \in i + 1 .. Len(watch) : watch[i + 1].deleting => watch[j].deleting
    BY <2>1 DEF Ordered
  <2>3. ASSUME NEW j \in i .. Len(watch'), watch'[i].deleting
        PROVE  watch'[j].deleting
    <3>1. j \in 1 .. Len(watch') /\ j + 1 \in i + 1 .. Len(watch)
      BY <1>1
    <3>2. watch'[j] = watch[j + 1]
      BY <1>1, <3>1
    <3> QED  BY <2>1, <2>2, <2>3, <3>1, <3>2
  <2> QED  BY <1>1, <1>3, <2>1, <2>2, <2>3
<1>5. watch' = <<>> => cache' = obj'
  BY <1>1, <1>2
<1>6. watch' # <<>> => watch'[Len(watch')] = obj'
  BY <1>1, <1>2
<1> QED
  BY <1>1, <1>3, <1>4, <1>5, <1>6 DEF Ordered

(* A relist makes the cache the stored object.                              *)
LEMMA OrderedRelisted ==
    ASSUME Relist, obj' = obj, Ordered
    PROVE  Ordered' /\ (cache.deleting => cache'.deleting)
<1>1. cache' = obj /\ watch' = <<>> /\ Len(watch') = 0
  BY DEF Relist
<1> QED  BY <1>1 DEF Ordered

-----------------------------------------------------------------------------
(* The inductive invariant *)

\* No version asks for more updates than were made, and one with a good
\* catalog has the catalog of the request it has processed, or a later one.
Fits(v) ==
    /\ v.requests <= catalog
    /\ v.catalog = "True" => v.services >= v.seen

ObjectInv ==
    /\ obj \in Broker /\ cache \in Broker
    /\ watch \in Seq(Broker) /\ Len(watch) <= MaxLag
    /\ Ordered
    /\ \A v \in Versions : Fits(v)
    /\ obj.requests = catalog

RunInv ==
    /\ copy \in Broker /\ original \in Broker
    /\ queued \in BOOLEAN /\ pc \in {"idle", "fetch", "update"}
    /\ Fits(copy)

\* An instance that was listed when the deletion was asked for is still
\* there and still listed, and keeps the finalizer in place.
Protected ==
    \A i \in guarded :
        /\ inst[i] = "brokered" /\ instSeen[i] = "brokered"
        /\ obj.finalizer /\ obj.exists

Counts ==
    /\ catalog \in Version \ {0} /\ wanted = catalog /\ catalog <= changes + 1
    /\ changes \in 0..MaxChanges /\ faults \in 0..MaxFaults

Surroundings ==
    /\ kind \in Kinds /\ secret \in SecretState /\ secretSeen \in SecretState
    /\ inst \in [Instances -> InstanceState]
    /\ instSeen \in [Instances -> InstanceState]
    /\ hookSeen \in [Instances -> InstanceState]
    /\ terminating \in BOOLEAN /\ guarded \subseteq Instances

IInv == ObjectInv /\ RunInv /\ Protected /\ Counts /\ Surroundings

-----------------------------------------------------------------------------
(* Broker objects *)

(* The fields of a broker have their types.                                 *)
LEMMA Fields ==
    ASSUME NEW o \in Broker
    PROVE  /\ o.requests \in Version /\ o.seen \in Version /\ o.services \in Version
           /\ o.creds \in ConditionStatus /\ o.populated \in ConditionStatus
           /\ o.catalog \in ConditionStatus /\ o.ready \in ConditionStatus
           /\ {o.exists, o.deleting, o.finalizer, o.held} \subseteq BOOLEAN
BY DEF Broker

\* Two versions that agree on what the properties look at.
Alike(o, v) ==
    /\ o \in Broker
    /\ o.deleting = v.deleting /\ o.finalizer = v.finalizer
    /\ o.requests = v.requests /\ o.seen = v.seen /\ o.services = v.services
    /\ o.catalog = v.catalog

(* The API server only decides whether the object goes away, which the      *)
(* finalizer prevents.                                                      *)
LEMMA SettleShape ==
    ASSUME NEW o \in Broker
    PROVE  /\ Alike(Settle(o), o)
           /\ o.finalizer => Settle(o).exists
BY DEF Settle, Broker, Alike

(* The changes of users and of the API server.                              *)
LEMMA UserShapes ==
    ASSUME NEW o \in Broker
    PROVE  /\ Alike([o EXCEPT !.held = FALSE], o)
           /\ \A h \in BOOLEAN :
                 LET p == [o EXCEPT !.deleting = TRUE, !.held = h]
                 IN  /\ p \in Broker /\ p.deleting /\ p.finalizer = o.finalizer
                     /\ p.requests = o.requests /\ p.seen = o.seen
                     /\ p.services = o.services /\ p.catalog = o.catalog
           /\ \A n \in Version :
                 LET p == [o EXCEPT !.requests = n]
                 IN  /\ p \in Broker /\ p.deleting = o.deleting
                     /\ p.finalizer = o.finalizer /\ p.exists = o.exists
                     /\ p.requests = n /\ p.seen = o.seen
                     /\ p.services = o.services /\ p.catalog = o.catalog
BY DEF Broker, Alike

(* The reconciler's changes outside of the catalog.                         *)
LEMMA FinalizerShapes ==
    ASSUME NEW o \in Broker
    PROVE  /\ \A c \in ConditionStatus :
                 /\ Alike([o EXCEPT !.ready = c], o)
                 /\ [o EXCEPT !.ready = c].exists = o.exists
           /\ \A b \in BOOLEAN :
                 LET p == [o EXCEPT !.finalizer = b]
                 IN  /\ p \in Broker /\ p.deleting = o.deleting /\ p.finalizer = b
                     /\ p.requests = o.requests /\ p.seen = o.seen
                     /\ p.services = o.services /\ p.catalog = o.catalog
BY DEF Broker, Alike

(* Neither do the credentials' conditions matter.                           *)
LEMMA CredentialsShape ==
    ASSUME NEW o \in Broker
    PROVE  Alike(Credentials(o), o)
<1>1. \A c, d \in ConditionStatus :
         /\ Alike([o EXCEPT !.creds = c], o)
         /\ Alike([o EXCEPT !.creds = c, !.populated = d], o)
  BY DEF Broker, Alike
<1>2. {"True", "False", "Unknown"} = ConditionStatus
  BY DEF ConditionStatus
<1>3. CASE kind = "volume"
  <2>1. Credentials(o) = [o EXCEPT !.creds = "True", !.populated = "True"]
    BY <1>3 DEF Credentials
  <2> QED  BY <1>1, <1>2, <2>1
<1>4. CASE kind # "volume" /\ secretSeen = "none"
  <2>1. Credentials(o) = [o EXCEPT !.creds = "Unknown"]
    BY <1>4 DEF Credentials
  <2> QED  BY <1>1, <1>2, <2>1
<1>5. CASE kind # "volume" /\ secretSeen = "foreign"
  <2>1. Credentials(o) = [o EXCEPT !.creds = "False"]
    BY <1>5 DEF Credentials
  <2> QED  BY <1>1, <1>2, <2>1
<1>6. CASE kind # "volume" /\ secretSeen = "bad"
  <2>1. Credentials(o) = [o EXCEPT !.creds = "True", !.populated = "False"]
    BY <1>6 DEF Credentials
  <2> QED  BY <1>1, <1>2, <2>1
<1>7. CASE kind # "volume" /\ secretSeen \notin {"none", "foreign", "bad"}
  <2>1. Credentials(o) = [o EXCEPT !.creds = "True", !.populated = "True"]
    BY <1>7 DEF Credentials
  <2> QED  BY <1>1, <1>2, <2>1
<1> QED  BY <1>3, <1>4, <1>5, <1>6, <1>7

(* A status update takes the catalog from the run, the rest from the        *)
(* lister.                                                                  *)
LEMMA StatusShape ==
    ASSUME cache \in Broker, NEW b \in Broker
    PROVE  /\ WithStatusOf(b) \in Broker
           /\ WithStatusOf(b).deleting = cache.deleting
           /\ WithStatusOf(b).finalizer = cache.finalizer
           /\ WithStatusOf(b).exists = cache.exists
           /\ WithStatusOf(b).requests = cache.requests
           /\ WithStatusOf(b).seen = b.seen
           /\ WithStatusOf(b).services = b.services
           /\ WithStatusOf(b).catalog = b.catalog
BY DEF WithStatusOf, Broker

(* A new broker has no catalog.                                             *)
LEMMA NewShape ==
    /\ NewBroker \in Broker /\ NewBroker.requests = 1
    /\ NewBroker.catalog = "Unknown" /\ ~NewBroker.deleting
    /\ [NewBroker EXCEPT !.exists = FALSE] \in Broker
    /\ [NewBroker EXCEPT !.exists = FALSE].requests = 1
    /\ [NewBroker EXCEPT !.exists = FALSE].catalog = "Unknown"
    /\ ~[NewBroker EXCEPT !.exists = FALSE].deleting
<1>1. MaxChanges \in Nat
  BY BrokersAssumption
<1>2. {0, 1} \subseteq Version
  BY <1>1 DEF Version
<1> QED  BY <1>2 DEF NewBroker, Broker, ConditionStatus

-----------------------------------------------------------------------------
(* The steps of the object *)

(* A step that changes neither the object nor the catalog.                  *)
LEMMA ObjectKept ==
    ASSUME ObjectInv, UNCHANGED <<objVars, catalog>>
    PROVE  ObjectInv'
<1>1. UNCHANGED <<obj, watch, cache, catalog>>
  BY DEF objVars
<1> QED  BY <1>1 DEF ObjectInv, Ordered, Versions, Fits

(* A write of a version that fits.                                          *)
LEMMA ObjectWritten ==
    ASSUME ObjectInv, NEW o \in Broker, Write(o), obj.deleting => o.deleting,
           catalog \in Nat, catalog' \in Nat, catalog <= catalog',
           o.requests = catalog',
           o.catalog = "True" => o.services >= o.seen
    PROVE  ObjectInv' /\ obj' = o
<1>1. Store(o) /\ cache' = cache
  BY DEF Write
<1>2. /\ obj' = o /\ watch' \in Seq(Broker)
      /\ Len(watch') = Len(watch) + 1 /\ Len(watch) \in Nat
  BY <1>1, StoreShape DEF ObjectInv
<1>3. Len(watch') <= MaxLag
  BY <1>1, <1>2, LagAssumption DEF Store
<1>4. Ordered'
  BY <1>1, OrderedStored DEF ObjectInv
<1>5. Versions' \subseteq Versions \cup {o}
  BY <1>1, VersionsStored DEF ObjectInv
<1>6. Versions \subseteq Broker
  BY DEF ObjectInv, Versions
<1>7. ASSUME NEW v \in Versions' PROVE Fits(v)'
  <2>1. CASE v = o
    BY <2>1 DEF Fits
  <2>2. CASE v \in Versions
    <3>1. v.requests \in Version /\ Fits(v)
      BY <1>6, <2>2, Fields DEF ObjectInv
    <3>2. v.requests \in Nat
      BY <3>1 DEF Version
    <3> QED  BY <3>1, <3>2 DEF Fits
  <2> QED  BY <1>5, <1>7, <2>1, <2>2
<1> QED  BY <1>1, <1>2, <1>3, <1>4, <1>7 DEF ObjectInv

(* A delivery.                                                              *)
LEMMA ObjectDelivered ==
    ASSUME ObjectInv, DeliverNext, UNCHANGED <<obj, catalog>>
    PROVE  ObjectInv'
<1>1. /\ watch' \in Seq(Broker) /\ cache' \in Broker /\ Len(watch) \in Nat
      /\ Len(watch') = Len(watch) - 1
  BY DeliverShape DEF ObjectInv
<1>2. Len(watch') <= MaxLag
  BY <1>1, LagAssumption DEF ObjectInv
<1>3. Ordered'
  BY OrderedDelivered DEF ObjectInv
<1>4. Versions' \subseteq Versions
  BY VersionsDelivered DEF ObjectInv
<1> QED  BY <1>1, <1>2, <1>3, <1>4 DEF ObjectInv, Fits

(* A relist.                                                                *)
LEMMA ObjectRelisted ==
    ASSUME ObjectInv, Relist, UNCHANGED <<obj, catalog>>
    PROVE  ObjectInv'
<1>1. watch' = <<>> /\ cache' = obj /\ Len(watch') = 0
  BY DEF Relist
<1>2. Ordered'
  BY OrderedRelisted DEF ObjectInv
<1>3. Versions' \subseteq Versions
  BY VersionsRelisted DEF Versions
<1>4. watch' \in Seq(Broker) /\ Len(watch') <= MaxLag
  BY <1>1, LagAssumption
<1> QED  BY <1>1, <1>2, <1>3, <1>4 DEF ObjectInv, Fits

(* The lister has the stored object when nothing is on its way.             *)
LEMMA ListerCurrent ==
    ASSUME ObjectInv, watch = <<>>
    PROVE  cache = obj
BY DEF ObjectInv, Ordered

(* The catalog's version is a number within the bound.                      *)
LEMMA CountsTyped ==
    ASSUME Counts
    PROVE  /\ MaxChanges \in Nat /\ MaxFaults \in Nat /\ catalog >= 1
           /\ catalog \in Nat /\ changes \in Nat /\ faults \in Nat
           /\ \A what : Fault(what) => faults' \in 0..MaxFaults
           /\ Change => changes' \in 0..MaxChanges /\ changes' = changes + 1
BY BrokersAssumption DEF Counts, Version, Fault, Change

(* A run that returns.                                                      *)
LEMMA Returned ==
    ASSUME Counts, NEW again \in BOOLEAN, Return(again), catalog' = catalog
    PROVE  RunInv'
<1>1. catalog \in Nat /\ catalog >= 1
  BY CountsTyped
<1> QED  BY <1>1, NewShape DEF Return, RunInv, Fits

-----------------------------------------------------------------------------
(* The reconciler *)

(* A step of the reconciler changes nothing but the object, the run and the *)
(* count of faults.                                                         *)
LEMMA SurroundingsKept ==
    ASSUME IInv, Same, faults' \in 0..MaxFaults
    PROVE  Counts' /\ Surroundings'
BY DEF IInv, Same, childVars, histVars, Counts, Surroundings

(* The finalizer stays in place when the object is left alone.              *)
LEMMA ProtectedKept ==
    ASSUME Protected, Same, obj'.finalizer = obj.finalizer, obj'.exists = obj.exists
    PROVE  Protected'
BY DEF Protected, Same, childVars, histVars

(* An update that the reconciler bases on the lister.                       *)
LEMMA UpdateKeeps ==
    ASSUME IInv, Same, NEW o \in Broker, UpdateOrFail(o),
           o.deleting = cache.deleting, o.requests = cache.requests,
           o.seen = cache.seen, o.services = cache.services,
           o.catalog = cache.catalog,
           cache.finalizer /\ guarded # {} => o.finalizer
    PROVE  IInv'
<1>1. ObjectInv /\ RunInv /\ Protected /\ Counts /\ catalog' = catalog
  BY DEF IInv, Same
<1>2. faults' \in 0..MaxFaults
  BY <1>1, CountsTyped DEF UpdateOrFail, Counts
<1>3. Counts' /\ Surroundings'
  BY <1>2, SurroundingsKept
<1>4. RunInv'
  BY <1>1, Returned DEF UpdateOrFail
<1>5. ObjectInv' /\ Protected'
  <2>1. CASE UNCHANGED objVars
    <3>1. obj' = obj
      BY <2>1 DEF objVars
    <3> QED  BY <1>1, <2>1, <3>1, ObjectKept, ProtectedKept
  <2>2. CASE watch = <<>> /\ Write(Settle(o))
    <3>1. cache = obj
      BY <1>1, <2>2, ListerCurrent
    <3>2. Alike(Settle(o), o) /\ (o.finalizer => Settle(o).exists)
      BY SettleShape
    <3>3. Fits(cache) /\ cache.requests = catalog /\ catalog \in Nat
      BY <1>1, <3>1, CountsTyped DEF ObjectInv, Versions
    <3>4. ObjectInv' /\ obj' = Settle(o)
      <4> DEFINE s == Settle(o)
      <4>1. /\ s \in Broker /\ s.deleting = cache.deleting /\ s.requests = catalog
            /\ s.catalog = "True" => s.services >= s.seen
        BY <3>2, <3>3 DEF Alike, Fits
      <4>2. Write(s)
        BY <2>2
      <4> HIDE DEF s
      <4>3. ObjectInv' /\ obj' = s
        BY <1>1, <3>1, <3>3, <4>1, <4>2, ObjectWritten
      <4> QED  BY <4>3 DEF s
    <3>5. ASSUME NEW i \in guarded
          PROVE  obj'.finalizer /\ obj'.exists
      BY <1>1, <3>1, <3>2, <3>4 DEF Protected, Alike
    <3> QED  BY <1>1, <3>4, <3>5 DEF Protected, Same, childVars, histVars
  <2> QED  BY <2>1, <2>2 DEF UpdateOrFail
<1> QED  BY <1>3, <1>4, <1>5 DEF IInv

(* The finalizer is added, and removed only when no guarded instance is     *)
(* listed any more.                                                         *)
LEMMA FinalizerKeeps ==
    ASSUME IInv, AddFinalizer \/ Finalize
    PROVE  IInv'
<1>1. cache \in Broker /\ Same
  BY DEF IInv, ObjectInv, AddFinalizer, Finalize
<1>2. {"True", "False", "Unknown"} = ConditionStatus
  BY DEF ConditionStatus
<1>3. CASE AddFinalizer
  <2> DEFINE o == [cache EXCEPT !.finalizer = TRUE]
  <2>1. /\ o \in Broker /\ o.deleting = cache.deleting /\ o.requests = cache.requests
        /\ o.seen = cache.seen /\ o.services = cache.services
        /\ o.catalog = cache.catalog /\ o.finalizer
    BY <1>1, FinalizerShapes
  <2>2. UpdateOrFail(o)
    BY <1>3 DEF AddFinalizer
  <2> HIDE DEF o
  <2> QED  BY <1>1, <2>1, <2>2, UpdateKeeps
<1>4. CASE Finalize /\ (cache.finalizer => childrenExist)
  <2>1. PICK c \in ConditionStatus : UpdateOrFail([cache EXCEPT !.ready = c])
    BY <1>2, <1>4 DEF Finalize
  <2> DEFINE o == [cache EXCEPT !.ready = c]
  <2>2. Alike(o, cache)
    BY <1>1, FinalizerShapes
  <2>3. UpdateOrFail(o)
    BY <2>1
  <2> HIDE DEF o
  <2> QED  BY <1>1, <2>2, <2>3, UpdateKeeps DEF Alike
<1>5. CASE Finalize /\ cache.finalizer /\ ~childrenExist
  <2> DEFINE o == [cache EXCEPT !.finalizer = FALSE]
  <2>1. /\ o \in Broker /\ o.deleting = cache.deleting /\ o.requests = cache.requests
        /\ o.seen = cache.seen /\ o.services = cache.services
        /\ o.catalog = cache.catalog
    BY <1>1, FinalizerShapes
  <2>2. UpdateOrFail(o)
    BY <1>5 DEF Finalize
  <2>3. guarded = {}
    BY <1>5 DEF childrenExist, IInv, Protected, Surroundings
  <2> HIDE DEF o
  <2> QED  BY <1>1, <2>1, <2>2, <2>3, UpdateKeeps
<1> QED  BY <1>3, <1>4, <1>5

(* A run without writes: one that does nothing, one that starts, and one    *)
(* that has fetched the catalog, which is then no older than the request.   *)
LEMMA RunKeeps ==
    ASSUME IInv, Skip \/ ApplyChanges \/ ReconcileCatalog
    PROVE  IInv'
<1>1. ObjectInv /\ RunInv /\ Protected /\ Counts /\ catalog \in Nat
  BY CountsTyped DEF IInv
<1>2. Same /\ UNCHANGED <<objVars, obj>> /\ catalog' = catalog
  BY DEF Skip, ApplyChanges, ReconcileCatalog, Same, objVars
<1>3. faults' \in 0..MaxFaults
  BY <1>1, CountsTyped DEF Skip, ApplyChanges, ReconcileCatalog, Counts
<1>4. Counts' /\ Surroundings' /\ ObjectInv' /\ Protected'
  BY <1>1, <1>2, <1>3, SurroundingsKept, ObjectKept, ProtectedKept
<1>5. RunInv'
  <2>1. CASE Skip
    BY <1>1, <1>2, <2>1, Returned DEF Skip
  <2>2. CASE ApplyChanges
    <3>1. cache \in Broker /\ Fits(cache)
      BY <1>1 DEF ObjectInv, Versions
    <3>2. Alike(Credentials(cache), cache)
      BY <3>1, CredentialsShape
    <3>3. copy' = Credentials(cache) /\ original' = cache /\ queued' = FALSE
          /\ pc' \in {"fetch", "update"}
      BY <2>2 DEF ApplyChanges
    <3>4. copy' \in Broker /\ Fits(copy')
      BY <3>1, <3>2, <3>3 DEF Alike, Fits
    <3> QED  BY <1>2, <3>1, <3>3, <3>4 DEF RunInv, Fits
  <2>3. CASE ReconcileCatalog
    <3>1. copy \in Broker /\ copy.requests <= catalog /\ catalog \in Version
          /\ copy.requests \in Version
      BY <1>1, Fields DEF RunInv, Fits, Counts
    <3>2. MarkReconciliationError("other") = "False"
      BY DEF MarkReconciliationError
    <3>3. \/ \E v \in {copy.requests, catalog} :
                copy' = [copy EXCEPT !.seen = copy.requests, !.catalog = "True",
                                     !.services = v]
          \/ copy' = [copy EXCEPT !.seen = copy.requests, !.catalog = "False"]
      BY <2>3, <3>2 DEF ReconcileCatalog
    <3>4. /\ copy' \in Broker /\ copy'.requests = copy.requests
          /\ copy'.catalog = "True" => copy'.services >= copy'.seen
      <4>1. ASSUME NEW v \in {copy.requests, catalog},
                   copy' = [copy EXCEPT !.seen = copy.requests, !.catalog = "True",
                                        !.services = v]
            PROVE  /\ copy' \in Broker /\ copy'.requests = copy.requests
                   /\ copy'.services >= copy'.seen
        <5>1. v \in Version /\ v >= copy.requests
          BY <3>1, <1>1, BrokersAssumption DEF Version, Broker
        <5>2. /\ copy' \in Broker /\ copy'.requests = copy.requests
              /\ copy'.services = v /\ copy'.seen = copy.requests
          BY <3>1, <4>1, <5>1 DEF Broker, ConditionStatus
        <5> QED  BY <5>1, <5>2
      <4>2. ASSUME copy' = [copy EXCEPT !.seen = copy.requests, !.catalog = "False"]
            PROVE  /\ copy' \in Broker /\ copy'.requests = copy.requests
                   /\ copy'.catalog = "False"
        BY <3>1, <4>2 DEF Broker, ConditionStatus
      <4> QED  BY <3>3, <4>1, <4>2
    <3>5. pc' = "update" /\ original' = original /\ queued' = queued
      BY <2>3 DEF ReconcileCatalog
    <3> QED  BY <1>1, <1>2, <3>1, <3>4, <3>5 DEF RunInv, Fits
  <2> QED  BY <2>1, <2>2, <2>3
<1> QED  BY <1>4, <1>5 DEF IInv

(* The status update.                                                       *)
LEMMA StatusKeeps ==
    ASSUME IInv, UpdateStatus
    PROVE  IInv'
<1> DEFINE b == [copy EXCEPT !.ready =
                    Happy({copy.creds, copy.populated, copy.catalog})]
<1> DEFINE o == WithStatusOf(b)
<1>1. ObjectInv /\ RunInv /\ Protected /\ Counts /\ Same /\ catalog' = catalog
  BY DEF IInv, UpdateStatus, Same
<1>2. Alike(b, copy)
  <2>1. Happy({copy.creds, copy.populated, copy.catalog}) \in ConditionStatus
    BY DEF Happy, ConditionStatus
  <2> QED  BY <1>1, <2>1, FinalizerShapes DEF RunInv
<1>3. /\ o \in Broker /\ o.deleting = cache.deleting /\ o.finalizer = cache.finalizer
      /\ o.exists = cache.exists /\ o.requests = cache.requests
      /\ o.seen = copy.seen /\ o.services = copy.services /\ o.catalog = copy.catalog
  BY <1>1, <1>2, StatusShape DEF ObjectInv, Alike
<1>4. /\ Return(queued) \/ Return(TRUE)
      /\ UNCHANGED objVars \/ (watch = <<>> /\ Write(o))
      /\ UNCHANGED faults \/ Fault("api")
  BY DEF UpdateStatus
<1> HIDE DEF o, b
<1>5. faults' \in 0..MaxFaults
  BY <1>1, <1>4, CountsTyped DEF Counts
<1>6. Counts' /\ Surroundings'
  BY <1>1, <1>5, SurroundingsKept
<1>7. RunInv'
  BY <1>1, <1>4, Returned DEF RunInv
<1>8. ObjectInv' /\ Protected'
  <2>1. CASE UNCHANGED objVars
    <3>1. obj' = obj
      BY <2>1 DEF objVars
    <3> QED  BY <1>1, <2>1, <3>1, ObjectKept, ProtectedKept
  <2>2. CASE watch = <<>> /\ Write(o)
    <3>1. cache = obj /\ obj.requests = catalog /\ catalog \in Nat
      BY <1>1, <2>2, ListerCurrent, CountsTyped DEF ObjectInv
    <3>2. o.catalog = "True" => o.services >= o.seen
      BY <1>1, <1>3 DEF RunInv, Fits
    <3>3. ObjectInv' /\ obj' = o
      BY <1>1, <1>3, <2>2, <3>1, <3>2, ObjectWritten
    <3> QED  BY <1>1, <1>3, <3>1, <3>3, ProtectedKept
  <2> QED  BY <1>4, <2>1, <2>2
<1> QED  BY <1>6, <1>7, <1>8 DEF IInv

-----------------------------------------------------------------------------
(* Users, the informers and the broker *)

(* Time goes on without a new catalog.                                      *)
LEMMA CountsKept ==
    ASSUME Counts, UNCHANGED <<wanted, catalog>>, changes' \in 0..MaxChanges,
           changes <= changes', faults' \in 0..MaxFaults
    PROVE  Counts'
<1>1. catalog \in Nat /\ changes \in Nat /\ MaxChanges \in Nat
  BY CountsTyped
<1>2. changes' \in Nat /\ catalog <= changes + 1
  BY <1>1 DEF Counts
<1>3. \A a, b, c \in Nat : a <= b + 1 /\ b <= c => a <= c + 1
  OBVIOUS
<1>4. catalog' = catalog /\ catalog <= changes' + 1
  BY <1>1, <1>2, <1>3
<1> QED  BY <1>4 DEF Counts

(* A step that leaves the broker and the run alone.                         *)
LEMMA AroundKeeps ==
    ASSUME IInv, UNCHANGED <<objVars, recVars, wanted, catalog>>, queued' \in BOOLEAN,
           changes' \in 0..MaxChanges, changes <= changes', faults' \in 0..MaxFaults,
           Surroundings', guarded' \subseteq guarded,
           \A i \in guarded' : inst'[i] = inst[i] /\ instSeen'[i] \in {instSeen[i], inst[i]}
    PROVE  IInv'
<1>1. ObjectInv /\ RunInv /\ Protected /\ Counts
  BY DEF IInv
<1>2. UNCHANGED <<obj, watch, cache, pc, copy, original>>
  BY DEF objVars, recVars
<1>3. ObjectInv'
  BY <1>1, ObjectKept
<1>4. RunInv'
  BY <1>1, <1>2 DEF RunInv, Fits
<1>5. Protected'
  BY <1>1, <1>2 DEF Protected
<1>6. Counts'
  BY <1>1, CountsKept
<1> QED  BY <1>3, <1>4, <1>5, <1>6 DEF IInv

(* The informers, and the users' changes to Secrets and instances.          *)
LEMMA AroundSteps ==
    ASSUME IInv,
           \/ DeliverSecret \/ Resync
           \/ \E i \in Instances : DeliverInstance(i)
           \/ \E s \in SecretState : ChangeSecret(s)
           \/ \E i \in Instances : CreateInstance(i) \/ DeleteInstance(i)
    PROVE  IInv'
<1>1. RunInv /\ Protected /\ Counts /\ Surroundings
  BY DEF IInv
<1>2. /\ changes \in Nat /\ changes \in 0..MaxChanges /\ faults \in 0..MaxFaults
      /\ Change => changes' \in 0..MaxChanges /\ changes' = changes + 1
      /\ queued \in BOOLEAN
  BY <1>1, CountsTyped DEF Counts, RunInv
<1>3. {"none", "brokered", "osb", "volume", "other"} \subseteq InstanceState
  BY DEF InstanceState
<1>4. CASE DeliverSecret \/ Resync
  <2>1. /\ UNCHANGED <<objVars, recVars, wanted, guarded, catalog, changes, faults, kind,
                       secret, inst, instSeen, hookSeen, terminating>>
        /\ secretSeen' \in {secretSeen, secret} /\ queued' \in BOOLEAN
    BY <1>4 DEF DeliverSecret, Resync, childVars, histVars
  <2>2. Surroundings'
    BY <1>1, <2>1 DEF Surroundings
  <2> QED  BY <1>2, <2>1, <2>2, AroundKeeps
<1>5. CASE \E i \in Instances : DeliverInstance(i)
  <2>1. PICK i \in Instances : DeliverInstance(i)
    BY <1>5
  <2>2. /\ UNCHANGED <<objVars, recVars, wanted, guarded, catalog, changes, faults, kind,
                       secret, secretSeen, inst, terminating, queued>>
        /\ instSeen' \in {instSeen, [instSeen EXCEPT ![i] = inst[i]]}
        /\ hookSeen' \in {hookSeen, [hookSeen EXCEPT ![i] = inst[i]]}
    BY <2>1 DEF DeliverInstance, histVars
  <2>3. Surroundings'
    BY <1>1, <2>2 DEF Surroundings
  <2>4. \A j \in guarded : instSeen'[j] \in {instSeen[j], inst[j]}
    BY <1>1, <2>2 DEF Surroundings
  <2> QED  BY <1>2, <2>2, <2>3, <2>4, AroundKeeps
<1>6. CASE \E s \in SecretState : ChangeSecret(s)
  <2>1. /\ UNCHANGED <<objVars, recVars, wanted, guarded, catalog, faults, kind,
                       secretSeen, inst, instSeen, hookSeen, terminating, queued>>
        /\ secret' \in SecretState /\ Change
    BY <1>6 DEF ChangeSecret, histVars
  <2>2. Surroundings'
    BY <1>1, <2>1 DEF Surroundings
  <2> QED  BY <1>2, <2>1, <2>2, AroundKeeps
<1>7. CASE \E i \in Instances : CreateInstance(i) \/ DeleteInstance(i)
  <2>1. PICK i \in Instances : CreateInstance(i) \/ DeleteInstance(i)
    BY <1>7
  <2>2. /\ UNCHANGED <<objVars, recVars, wanted, catalog, faults, kind, secret,
                       secretSeen, instSeen, hookSeen, terminating, queued>>
        /\ Change
    BY <2>1 DEF CreateInstance, DeleteInstance, histVars
  <2>3. PICK s \in InstanceState : inst' = [inst EXCEPT ![i] = s]
    BY <1>3, <2>1 DEF CreateInstance, DeleteInstance
  <2>4. guarded' \subseteq guarded /\ i \notin guarded'
    <3>1. CASE DeleteInstance(i)
      BY <3>1 DEF DeleteInstance
    <3>2. CASE CreateInstance(i)
      <4>1. i \notin guarded /\ guarded' = guarded
        BY <1>1, <3>2 DEF CreateInstance, Protected, histVars
      <4> QED  BY <4>1
    <3> QED  BY <2>1, <3>1, <3>2
  <2>5. \A j \in guarded' : inst'[j] = inst[j]
    BY <1>1, <2>3, <2>4 DEF Surroundings
  <2>6. Surroundings'
    BY <1>1, <2>2, <2>3, <2>4 DEF Surroundings
  <2> QED  BY <1>2, <2>2, <2>4, <2>5, <2>6, AroundKeeps
<1> QED  BY <1>4, <1>5, <1>6, <1>7

(* A new catalog, and the request to fetch it.                              *)
LEMMA RequestKeeps ==
    ASSUME IInv, RequestUpdate
    PROVE  IInv'
<1> DEFINE o == [obj EXCEPT !.requests = obj.requests + 1]
<1>1. ObjectInv /\ RunInv /\ Protected /\ Counts /\ Surroundings
  BY DEF IInv
<1>2. /\ UNCHANGED <<secret, secretSeen, inst, instSeen, hookSeen, pc, copy, original,
                     guarded, kind, terminating, queued, faults>>
      /\ Change /\ catalog' = catalog + 1 /\ wanted' = catalog' /\ Write(o)
  BY DEF RequestUpdate, childVars, recVars
<1>3. /\ catalog \in Nat /\ changes \in Nat /\ MaxChanges \in Nat
      /\ catalog <= changes + 1
      /\ changes' \in 0..MaxChanges /\ changes' = changes + 1
  BY <1>1, <1>2, CountsTyped DEF Counts
<1>4. catalog' \in Version \ {0} /\ catalog' <= changes' + 1
  BY <1>2, <1>3 DEF Version
<1>5. obj.requests = catalog /\ obj \in Broker /\ Fits(obj)
  BY <1>1 DEF ObjectInv, Versions
<1>6. /\ o \in Broker /\ o.deleting = obj.deleting /\ o.finalizer = obj.finalizer
      /\ o.exists = obj.exists /\ o.requests = catalog' /\ o.seen = obj.seen
      /\ o.services = obj.services /\ o.catalog = obj.catalog
  <2>1. o = [obj EXCEPT !.requests = catalog'] /\ catalog' \in Version
    BY <1>2, <1>4, <1>5
  <2>2. LET q == [obj EXCEPT !.requests = catalog']
        IN  /\ q \in Broker /\ q.deleting = obj.deleting
            /\ q.finalizer = obj.finalizer /\ q.exists = obj.exists
            /\ q.requests = catalog' /\ q.seen = obj.seen
            /\ q.services = obj.services /\ q.catalog = obj.catalog
    BY <1>5, <2>1, UserShapes
  <2> QED  BY <2>1, <2>2
<1> HIDE DEF o
<1>7. ObjectInv' /\ obj' = o
  BY <1>1, <1>2, <1>3, <1>5, <1>6, ObjectWritten DEF Fits
<1>8. RunInv'
  <2>1. copy.requests \in Nat
    BY <1>1, Fields DEF RunInv, Version
  <2> QED  BY <1>1, <1>2, <1>3, <2>1 DEF RunInv, Fits
<1>9. Protected' /\ Counts' /\ Surroundings'
  BY <1>1, <1>2, <1>3, <1>4, <1>6, <1>7 DEF Protected, Counts, Surroundings
<1> QED  BY <1>7, <1>8, <1>9 DEF IInv

(* The deletion is asked for: the webhook has listed no instance of this    *)
(* broker, so the guarded ones are those that the controller has listed.    *)
LEMMA DeleteKeeps ==
    ASSUME IInv, DeleteBroker
    PROVE  IInv'
<1>1. ObjectInv /\ RunInv /\ Protected /\ Counts /\ Surroundings
  BY DEF IInv
<1>2. PICK h \in BOOLEAN :
         Write(Settle([obj EXCEPT !.deleting = TRUE, !.held = h]))
  BY DEF DeleteBroker
<1> DEFINE p == [obj EXCEPT !.deleting = TRUE, !.held = h]
<1> DEFINE o == Settle(p)
<1>3. UNCHANGED <<secret, secretSeen, inst, instSeen, hookSeen, pc, copy, original,
                  wanted, kind, catalog, queued, faults>>
      /\ Change
  BY DEF DeleteBroker, childVars, recVars
<1>4. obj \in Broker /\ obj.requests = catalog /\ Fits(obj) /\ catalog \in Nat
  BY <1>1, CountsTyped DEF ObjectInv, Versions
<1>5. /\ p \in Broker /\ p.deleting /\ p.finalizer = obj.finalizer
      /\ p.requests = obj.requests /\ p.seen = obj.seen
      /\ p.services = obj.services /\ p.catalog = obj.catalog
  BY <1>4, UserShapes
<1> HIDE DEF p
<1>6. Alike(o, p) /\ (p.finalizer => o.exists)
  BY <1>5, SettleShape
<1>7. Write(o)
  BY <1>2 DEF p
<1> HIDE DEF o
<1>8. ObjectInv' /\ obj' = o
  BY <1>1, <1>3, <1>4, <1>5, <1>6, <1>7, ObjectWritten DEF Alike, Fits
<1>9. RunInv'
  BY <1>1, <1>3 DEF RunInv, Fits
<1>10. Counts'
  <2>1. /\ catalog \in Nat /\ changes \in Nat
        /\ changes' \in 0..MaxChanges /\ changes' = changes + 1
    BY <1>1, <1>3, CountsTyped
  <2> QED  BY <1>1, <1>3, <2>1 DEF Counts
<1>11. Surroundings'
  <2>1. terminating' \in BOOLEAN /\ guarded' \subseteq Instances
    BY <1>1 DEF DeleteBroker, Surroundings
  <2> QED  BY <1>1, <1>3, <2>1 DEF Surroundings
<1>12. Protected'
  <2>1. ASSUME NEW i \in guarded'
        PROVE  inst[i] = "brokered" /\ instSeen[i] = "brokered" /\ obj.finalizer
    <3>1. i \in Instances /\ inst[i] \in OfThis /\ hookSeen[i] \in {"none", "volume"}
      BY DEF DeleteBroker, validateServiceInstanceNotExists
    <3>2. \/ obj.finalizer /\ instSeen[i] = "brokered" /\ inst[i] = "brokered"
          \/ hookSeen[i] = inst[i] /\ inst[i] # "volume"
      BY DEF DeleteBroker
    <3> QED  BY <3>1, <3>2 DEF OfThis
  <2> QED  BY <1>3, <1>5, <1>6, <1>8, <2>1 DEF Protected, Alike
<1> QED  BY <1>8, <1>9, <1>10, <1>11, <1>12 DEF IInv

(* The other finalizer goes.                                                *)
LEMMA ReleaseKeeps ==
    ASSUME IInv, Release
    PROVE  IInv'
<1> DEFINE p == [obj EXCEPT !.held = FALSE]
<1> DEFINE o == Settle(p)
<1>1. ObjectInv /\ RunInv /\ Protected /\ Counts /\ Surroundings
  BY DEF IInv
<1>2. UNCHANGED <<secret, secretSeen, inst, instSeen, hookSeen, pc, copy, original,
                  wanted, guarded, kind, terminating, catalog, queued, changes, faults>>
  BY DEF Release, childVars, recVars, histVars
<1>3. obj \in Broker /\ obj.requests = catalog /\ Fits(obj) /\ catalog \in Nat
  BY <1>1, CountsTyped DEF ObjectInv, Versions
<1>4. Alike(p, obj)
  BY <1>3, UserShapes
<1> HIDE DEF p
<1>5. Alike(o, p) /\ (p.finalizer => o.exists)
  BY <1>4, SettleShape DEF Alike
<1>6. Write(o)
  BY DEF Release, o, p
<1> HIDE DEF o
<1>7. ObjectInv' /\ obj' = o
  BY <1>1, <1>2, <1>3, <1>4, <1>5, <1>6, ObjectWritten DEF Alike, Fits
<1>8. Protected'
  BY <1>1, <1>2, <1>4, <1>5, <1>7 DEF Protected, Alike
<1>9. RunInv' /\ Counts' /\ Surroundings'
  BY <1>1, <1>2 DEF RunInv, Fits, Counts, Surroundings
<1> QED  BY <1>7, <1>8, <1>9 DEF IInv

(* Deliveries of the object, and restarts.                                  *)
LEMMA RefreshKeeps ==
    ASSUME IInv, Deliver \/ Crash
    PROVE  IInv'
<1>1. ObjectInv /\ RunInv /\ Protected /\ Counts /\ Surroundings
  BY DEF IInv
<1>2. CASE Deliver
  <2>1. /\ UNCHANGED <<secret, secretSeen, inst, instSeen, hookSeen, pc, copy, original,
                       wanted, guarded, kind, terminating, catalog, changes, faults, obj>>
        /\ DeliverNext /\ queued' = TRUE
    BY <1>2 DEF Deliver, childVars, recVars, histVars
  <2>2. ObjectInv'
    BY <1>1, <2>1, ObjectDelivered
  <2>3. RunInv' /\ Protected' /\ Counts' /\ Surroundings'
    BY <1>1, <2>1 DEF RunInv, Fits, Protected, Counts, Surroundings
  <2> QED  BY <2>2, <2>3 DEF IInv
<1>3. CASE Crash
  <2>1. /\ UNCHANGED <<obj, secret, inst, hookSeen, wanted, guarded, kind, terminating,
                       catalog, changes>>
        /\ Return(TRUE) /\ Relist /\ secretSeen' = secret /\ instSeen' = inst
        /\ faults' \in 0..MaxFaults
    BY <1>1, <1>3, CountsTyped DEF Crash, histVars
  <2>2. ObjectInv'
    BY <1>1, <2>1, ObjectRelisted
  <2>3. RunInv'
    BY <1>1, <2>1, Returned
  <2>4. Protected' /\ Counts' /\ Surroundings'
    BY <1>1, <2>1 DEF Protected, Counts, Surroundings
  <2> QED  BY <2>2, <2>3, <2>4 DEF IInv
<1> QED  BY <1>2, <1>3

-----------------------------------------------------------------------------
(* The theorems *)

(* A broker that was just created.                                          *)
LEMMA IInvInit == Init => IInv
<1> SUFFICES ASSUME Init PROVE IInv
  OBVIOUS
<1>1. MaxChanges \in Nat /\ MaxFaults \in Nat
  BY BrokersAssumption
<1>2. Counts
  BY <1>1 DEF Init, Counts, Version
<1>3. ObjectInv
  <2> DEFINE n == [NewBroker EXCEPT !.exists = FALSE]
  <2>1. /\ obj = NewBroker /\ cache = n /\ watch = <<NewBroker>> /\ catalog = 1
        /\ Len(watch) = 1 /\ watch[1] = NewBroker
    BY DEF Init
  <2>2. /\ n \in Broker /\ n.requests = 1 /\ n.catalog = "Unknown" /\ ~n.deleting
        /\ NewBroker \in Broker /\ NewBroker.requests = 1
        /\ NewBroker.catalog = "Unknown" /\ ~NewBroker.deleting
    BY NewShape
  <2> HIDE DEF n
  <2>3. watch \in Seq(Broker) /\ Len(watch) <= MaxLag
    BY <2>1, <2>2, LagAssumption
  <2>4. Ordered
    BY <2>1, <2>2 DEF Ordered
  <2>5. ASSUME NEW v \in Versions PROVE v \in {n, NewBroker}
    BY <2>1 DEF Versions
  <2>6. \A v \in Versions : Fits(v)
    BY <2>1, <2>2, <2>5 DEF Fits
  <2> QED  BY <2>1, <2>2, <2>3, <2>4, <2>6 DEF ObjectInv
<1>4. RunInv
  <2>1. copy = NewBroker /\ original = NewBroker /\ queued = FALSE /\ pc = "idle"
        /\ catalog = 1
    BY DEF Init
  <2>2. Fits(NewBroker)
    BY <2>1, NewShape DEF Fits
  <2> QED  BY <2>1, <2>2, NewShape DEF RunInv
<1>5. Protected /\ Surroundings
  BY DEF Init, Protected, Surroundings, SecretState, InstanceState
<1> QED  BY <1>2, <1>3, <1>4, <1>5 DEF IInv

(* Every step keeps the invariant.                                          *)
LEMMA IInvStep == IInv /\ [Next]_vars => IInv'
<1> SUFFICES ASSUME IInv, [Next]_vars PROVE IInv'
  OBVIOUS
<1>1. CASE Reconcile
  BY <1>1, RunKeeps, FinalizerKeeps, StatusKeeps DEF Reconcile
<1>2. CASE Users
  BY <1>2, RequestKeeps, DeleteKeeps, AroundSteps DEF Users
<1>3. CASE DeliverSecret \/ Resync \/ \E i \in Instances : DeliverInstance(i)
  BY <1>3, AroundSteps
<1>4. CASE Deliver \/ Release \/ Crash
  BY <1>4, ReleaseKeeps, RefreshKeeps
<1>5. CASE UNCHANGED vars
  <2>1. /\ UNCHANGED <<objVars, recVars, wanted, catalog, queued, changes, faults, guarded,
                       kind, secret, secretSeen, inst, instSeen, hookSeen, terminating>>
    BY <1>5 DEF vars, childVars, histVars
  <2>2. Surroundings' /\ queued \in BOOLEAN /\ changes \in 0..MaxChanges
        /\ faults \in 0..MaxFaults /\ changes \in Nat
    BY <2>1, CountsTyped DEF IInv, Surroundings, RunInv, Counts
  <2> QED  BY <2>1, <2>2, AroundKeeps
<1> QED  BY <1>1, <1>2, <1>3, <1>4, <1>5 DEF Next

(* The invariant holds in every reachable state.                            *)
LEMMA Inductive == Spec => []IInv
BY IInvInit, IInvStep, PTL DEF Spec

(* The variables keep their types, whatever the bounds are: in particular   *)
(* no counter of update requests leaves its range.                          *)
THEOREM TypeCorrect == Spec => []TypeOK
<1>1. IInv => TypeOK
  BY DEF IInv, ObjectInv, RunInv, Counts, Surroundings, TypeOK
<1> QED  BY <1>1, Inductive, PTL

(* A broker that says it has processed the latest update request, with a    *)
(* good catalog, has a catalog no older than that request.                  *)
THEOREM CatalogIsFreshHolds == Spec => []CatalogIsFresh
<1>1. IInv => CatalogIsFresh
  BY DEF IInv, ObjectInv, Versions, Fits, Counts, CatalogIsFresh
<1> QED  BY <1>1, Inductive, PTL

(* A broker does not go away under an instance that the controller had      *)
(* listed when its deletion was asked for.                                  *)
THEOREM InUseStaysHolds == Spec => []InUseStays
<1>1. IInv => InUseStays
  BY DEF IInv, Protected, InUseStays
<1> QED  BY <1>1, Inductive, PTL
==============================================================================
