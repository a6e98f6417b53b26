---------------------------- MODULE CachedObject ----------------------------
(***************************************************************************)
(* One Kubernetes API object as a controller sees it.                      *)
(*                                                                         *)
(* The API server keeps the object of record, obj.  Every write appends    *)
(* the new version to watch, from which the informer updates cache one     *)
(* version at a time, so cache is always a past version of obj and         *)
(* cache = obj once watch is empty.  Kubernetes' optimistic lock (the      *)
(* resourceVersion of a write must be the stored one) lets a write based   *)
(* on the cache through exactly when watch = <<>>.                         *)
(*                                                                         *)
(* The API server and the informers are external to Kf: this is how its    *)
(* reconcilers use them.                                                   *)
(***************************************************************************)
EXTENDS Naturals, Sequences

CONSTANT MaxLag     \* bound: versions the informer may be behind

ASSUME LagAssumption == MaxLag \in Nat \ {0}

VARIABLES
    obj,        \* the object stored by the API server
    watch,      \* versions of it the informer has not delivered yet
    cache       \* the informer's (lister's) version

Store(o) ==
    /\ Len(watch) < MaxLag
    /\ obj' = o
    /\ watch' = Append(watch, o)

\* An object goes away when it is marked deleted and no finalizer is left.
Settle(o) ==
    [o EXCEPT !.exists = ~o.deleting \/ o.finalizer \/ o.held]

\* The informer applies the next version.
DeliverNext ==
    /\ watch # <<>>
    /\ cache' = Head(watch)
    /\ watch' = Tail(watch)

\* A controller that starts lists the objects afresh.
Relist ==
    /\ cache' = obj
    /\ watch' = <<>>
==============================================================================
