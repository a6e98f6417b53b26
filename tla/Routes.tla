------------------------------- MODULE Routes -------------------------------
(***************************************************************************)
(* Routes: how the App reconciler and the Route reconciler agree on which  *)
(* Apps a Route sends traffic to.                                          *)
(*                                                                         *)
(* An App declares route bindings in its spec.  The App reconciler creates *)
(* the Routes and lists the bindings in the App's status; the Route        *)
(* reconciler collects the bindings of all Apps on a domain, writes them   *)
(* into the domain's one VirtualService and into the Routes' statuses; the *)
(* App reconciler reads the Routes' statuses to report the bindings Ready, *)
(* and reports a binding a Route still holds but the App no longer         *)
(* declares as Orphaned, so that the Route gets reconciled and lets go.    *)
(*                                                                         *)
(* Nothing polls: a reconciler runs because the delivery of a version of   *)
(* an object it watches enqueued it, or because it failed.  All Routes are *)
(* on one domain, the Route reconciler's work queue key.  Of the App       *)
(* reconciler only the routes part and the status update appear here.      *)
(***************************************************************************)
EXTENDS Conditions, Sequences, FiniteSets

CONSTANTS
    Apps,           \* names of the Apps of the Space
    RouteNames,     \* the Routes of the domain
    MaxLag,         \* bound: versions an informer may be behind
    MaxEvents,      \* bound: changes users make and things that go wrong
    Track,          \* RouteTrackVirtualService of config-defaults
    Disturbances    \* what may go wrong: calls of the "api" or updates of
                    \* the "routestatus" fail, the "vs" is deleted

ASSUME RoutesAssumption ==
    /\ MaxLag \in Nat \ {0} /\ MaxEvents \in Nat
    /\ Track \in BOOLEAN /\ Disturbances \subseteq {"api", "routestatus", "vs"}

VARIABLES
    app, appWatch, appCache,        \* the App objects
    route, routeWatch, routeCache,  \* the Route objects
    vs, vsWatch, vsCache,           \* the domain's VirtualService
    permitted,      \* the Space's status lists the domain (it stays so)
    appQueue,       \* Apps enqueued for the App reconciler
    domainQueued,   \* the domain is enqueued for the Route reconciler
    apc, acopy, adone,   \* App reconciler: where it is, its copy of the
                         \* App, the Routes it made sure of
    rpc, rcopy, rbind, rstale, rtodo, rvs,   \* Route reconciler, see RBegin
    events          \* how many so far

appVars == <<app, appWatch, appCache>>
routeVars == <<route, routeWatch, routeCache>>
vsVars == <<vs, vsWatch, vsCache>>
appRec == <<apc, acopy, adone>>
routeRec == <<rpc, rcopy, rbind, rstale, rtodo, rvs>>
vars == <<appVars, routeVars, vsVars, permitted, appQueue, domainQueued,
          appRec, routeRec, events>>

\* A stopped App binds its routes with weight 0.
Weights == {0, 1}
Destination == Apps \X Weights
RouteBindingStatus == {"Ready", "Unknown", "Orphaned"}
AppRouteStatus ==
    [route: RouteNames, weight: Weights, state: RouteBindingStatus]
App == [routes: SUBSET RouteNames, weight: Weights,
        status: SUBSET AppRouteStatus, ready: ConditionStatus]
Route == [exists: BOOLEAN, observed: BOOLEAN, ready: ConditionStatus,
          bindings: SUBSET Destination]
VirtualService ==
    [exists: BOOLEAN, deleting: BOOLEAN, table: [RouteNames -> SUBSET Destination]]

NoBindings == [r \in RouteNames |-> {}]
NoRoute ==
    [exists |-> FALSE, observed |-> FALSE, ready |-> "Unknown", bindings |-> {}]
NoVS == [exists |-> FALSE, deleting |-> FALSE, table |-> NoBindings]
NewApp == [routes |-> {}, weight |-> 1, status |-> {}, ready |-> "Unknown"]

-----------------------------------------------------------------------------
(* Writes, informers and the work queues. *)

StoreApp(a, o) ==
    /\ Len(appWatch[a]) < MaxLag
    /\ app' = [app EXCEPT ![a] = o]
    /\ appWatch' = [appWatch EXCEPT ![a] = Append(@, o)]
    /\ UNCHANGED appCache

StoreRoute(r, o) ==
    /\ Len(routeWatch[r]) < MaxLag
    /\ route' = [route EXCEPT ![r] = o]
    /\ routeWatch' = [routeWatch EXCEPT ![r] = Append(@, o)]
    /\ UNCHANGED routeCache

StoreVS(o) ==
    /\ Len(vsWatch) < MaxLag
    /\ vs' = o /\ vsWatch' = Append(vsWatch, o)
    /\ UNCHANGED vsCache

\* An API call fails for a reason other than a conflict, or something else that
\* nobody asked for happens.
Fail(kind) ==
    /\ kind \in Disturbances /\ events < MaxEvents
    /\ events' = events + 1

\* Mutant: orphaned bindings do not enqueue the domain.
BuildEnqueuerDeclared(o) == \E e \in o.status : e.state # "Orphaned"

\* Route reconciler, BuildEnqueuer: the domain of every binding of the
\* App's status, orphaned ones included.
BuildEnqueuer(o) == o.status # {}

\* The App informer: the App reconciler takes the App, the Route reconciler
\* the domains of its bindings.
DeliverApp(a) ==
    /\ appWatch[a] # <<>>
    /\ appCache' = [appCache EXCEPT ![a] = Head(appWatch[a])]
    /\ appWatch' = [appWatch EXCEPT ![a] = Tail(@)]
    /\ appQueue' = appQueue \union {a}
    /\ domainQueued' = (domainQueued \/ BuildEnqueuer(Head(appWatch[a])))
    /\ UNCHANGED <<app, routeVars, vsVars, permitted, appRec, routeRec,
                   events>>

\* The Route informer: the Route reconciler takes its domain, the App
\* reconciler the Apps whose status names the domain.
DeliverRoute(r) ==
    /\ routeWatch[r] # <<>>
    /\ routeCache' = [routeCache EXCEPT ![r] = Head(routeWatch[r])]
    /\ routeWatch' = [routeWatch EXCEPT ![r] = Tail(@)]
    /\ appQueue' = appQueue \union {a \in Apps : appCache[a].status # {}}
    /\ domainQueued' = TRUE
    /\ UNCHANGED <<appVars, route, vsVars, permitted, appRec, routeRec,
                   events>>

\* The VirtualService informer: the Route reconciler takes the domain.
DeliverVS ==
    /\ vsWatch # <<>>
    /\ vsCache' = Head(vsWatch) /\ vsWatch' = Tail(vsWatch)
    /\ domainQueued' = TRUE
    /\ UNCHANGED <<appVars, routeVars, vs, permitted, appQueue, appRec, routeRec,
                   events>>

-----------------------------------------------------------------------------
(* Users. *)

\* map-route, unmap-route, start and stop update the App through its client.
MapRoute(a, r) ==
    /\ events < MaxEvents /\ r \notin app[a].routes
    /\ StoreApp(a, [app[a] EXCEPT !.routes = @ \union {r}])
    /\ events' = events + 1
    /\ UNCHANGED <<routeVars, vsVars, permitted, appQueue, domainQueued,
                   appRec, routeRec>>

UnmapRoute(a, r) ==
    /\ events < MaxEvents /\ r \in app[a].routes
    /\ StoreApp(a, [app[a] EXCEPT !.routes = @ \ {r}])
    /\ events' = events + 1
    /\ UNCHANGED <<routeVars, vsVars, permitted, appQueue, domainQueued,
                   appRec, routeRec>>

StartOrStop(a) ==
    /\ events < MaxEvents
    /\ StoreApp(a, [app[a] EXCEPT !.weight = 1 - @])
    /\ events' = events + 1
    /\ UNCHANGED <<routeVars, vsVars, permitted, appQueue, domainQueued,
                   appRec, routeRec>>

\* delete-route, after it unmapped the Route from every App, and
\* delete-orphaned-routes, for a Route in sync without bindings.
DeleteRoute(r) ==
    /\ events < MaxEvents /\ route[r].exists
    /\ \/ \A a \in Apps : r \notin app[a].routes
       \/ route[r].observed /\ route[r].bindings = {}
    /\ StoreRoute(r, NoRoute)
    /\ rstale' = rstale \union {r}
    /\ events' = events + 1
    /\ UNCHANGED <<appVars, vsVars, permitted, appQueue, domainQueued, appRec,
                   rpc, rcopy, rbind, rtodo, rvs>>

\* Someone deletes the VirtualService in the foreground: it is there, marked
\* as being deleted, until Kubernetes has it gone.
DeleteVS ==
    /\ Fail("vs") /\ vs.exists /\ ~vs.deleting
    /\ StoreVS([vs EXCEPT !.deleting = TRUE])
    /\ UNCHANGED <<appVars, routeVars, permitted, appQueue, domainQueued, appRec,
                   routeRec>>

VSGone ==
    /\ vs.deleting /\ StoreVS(NoVS)
    /\ UNCHANGED <<appVars, routeVars, permitted, appQueue, domainQueued, appRec,
                   routeRec, events>>

-----------------------------------------------------------------------------
(* The App reconciler. *)

ABegin(a) ==
    /\ a \in appQueue /\ apc[a] = "idle"
    /\ appQueue' = appQueue \ {a}
    /\ acopy' = [acopy EXCEPT ![a] = appCache[a]]
    /\ adone' = [adone EXCEPT ![a] = {}]
    /\ apc' = [apc EXCEPT ![a] = "routes"]
    /\ UNCHANGED <<appVars, routeVars, vsVars, permitted, domainQueued,
                   routeRec, events>>

AFinish(a, failed) ==
    /\ apc' = [apc EXCEPT ![a] = "idle"]
    /\ acopy' = [acopy EXCEPT ![a] = NewApp]
    /\ adone' = [adone EXCEPT ![a] = {}]
    /\ appQueue' = IF failed THEN appQueue \union {a} ELSE appQueue

\* The run ends: with a status that differs from the one it started from it
\* goes on to update it, whether it failed or not.
AResult(a, status, ready, failed) ==
    IF status = acopy[a].status /\ ready = acopy[a].ready
      THEN AFinish(a, failed)
      ELSE /\ apc' = [apc EXCEPT ![a] = IF failed THEN "failed" ELSE "update"]
           /\ acopy' = [acopy EXCEPT ![a].status = status, ![a].ready = ready]
           /\ UNCHANGED <<adone, appQueue>>

\* The next Route the App declares and the lister does not know is created.
\* An error ends the run; the binding statuses stay as they were.
ACreateRoute(a) ==
    /\ apc[a] = "routes"
    /\ \E r \in acopy[a].routes \ adone[a] :
        /\ ~routeCache[r].exists
        /\ \/ /\ ~route[r].exists
              /\ StoreRoute(r, [NoRoute EXCEPT !.exists = TRUE])
              /\ rstale' = rstale \union {r}
              /\ adone' = [adone EXCEPT ![a] = @ \union {r}]
              /\ UNCHANGED <<apc, acopy, appQueue, events>>
           \/ /\ \E err \in {"exists", "api"} :
                 /\ IF err = "exists"
                      THEN route[r].exists /\ UNCHANGED events
                      ELSE Fail("api")
                 /\ AResult(a, acopy[a].status, MarkReconciliationError(err), TRUE)
              /\ UNCHANGED <<routeVars, rstale>>
    /\ UNCHANGED <<appVars, vsVars, permitted, domainQueued, rpc, rcopy,
                   rbind, rtodo, rvs>>

\* The bindings the App declares, Ready once the Route has them, and the ones
\* a Route still holds without the App declaring them.
PropagateRouteStatus(o, a) ==
    LET ready(r) ==
            /\ routeCache[r].exists /\ routeCache[r].observed
            /\ routeCache[r].ready = "True"
            /\ <<a, o.weight>> \in routeCache[r].bindings
        declared ==
            {[route |-> r, weight |-> o.weight,
              state |-> IF ready(r) THEN "Ready" ELSE "Unknown"]
               : r \in o.routes}
        undeclared ==
            {[route |-> r, weight |-> w, state |-> "Orphaned"]
               : r \in {x \in RouteNames : routeCache[x].exists}, w \in Weights}
    IN  declared \union
        {e \in undeclared :
            /\ <<a, e.weight>> \in routeCache[e.route].bindings
            /\ ~(e.route \in o.routes /\ e.weight = o.weight)}

\* A binding is False when its Route is; an extra binding is Unknown.
RouteCondition(status) ==
    SummarizeChildConditions([e \in status |->
        CASE e.state = "Ready" -> "True"
          [] /\ e.state = "Unknown"
             /\ routeCache[e.route].exists /\ routeCache[e.route].observed
             /\ routeCache[e.route].ready = "False" -> "False"
          [] OTHER -> "Unknown"])

\* Every declared Route is there: the run computes the new status.
AStatus(a) ==
    /\ apc[a] = "routes"
    /\ \A r \in acopy[a].routes : r \in adone[a] \/ routeCache[r].exists
    /\ LET status == PropagateRouteStatus(acopy[a], a)
       IN  AResult(a, status, RouteCondition(status), FALSE)
    /\ UNCHANGED <<appVars, routeVars, vsVars, permitted, domainQueued,
                   routeRec, events>>

\* updateStatus puts the status into the version the lister has now.
AUpdateStatus(a) ==
    LET updated == [appCache[a] EXCEPT !.status = acopy[a].status,
                                       !.ready = acopy[a].ready]
    IN  /\ apc[a] \in {"update", "failed"}
        /\ \/ /\ updated = appCache[a]
              /\ AFinish(a, apc[a] = "failed")
              /\ UNCHANGED <<appVars, events>>
           \/ /\ updated # appCache[a] /\ appWatch[a] = <<>>
              /\ StoreApp(a, updated)
              /\ AFinish(a, apc[a] = "failed")
              /\ UNCHANGED events
           \/ /\ updated # appCache[a]
              /\ \/ appWatch[a] # <<>> /\ UNCHANGED events
                 \/ Fail("api")
              /\ AFinish(a, TRUE)
              /\ UNCHANGED appVars
        /\ UNCHANGED <<routeVars, vsVars, permitted, domainQueued, routeRec>>

-----------------------------------------------------------------------------
(* The Route reconciler. *)

\* The bindings of the Apps' statuses, without the orphaned ones: the Route
\* must let go of those.
AppBindings ==
    [r \in RouteNames |->
        {d \in Destination :
            \E e \in appCache[d[1]].status :
                /\ e.route = r /\ e.weight = d[2] /\ e.state # "Orphaned"}]

\* It reads the Routes (rcopy; rstale are those whose copy is not the
\* stored version), and the bindings (rbind) from the listers.
RBegin ==
    /\ domainQueued /\ rpc = "idle"
    /\ domainQueued' = FALSE
    /\ rpc' = "virtualservice"
    /\ rcopy' = routeCache
    /\ rbind' = AppBindings
    /\ rstale' = {r \in RouteNames : routeWatch[r] # <<>>}
    /\ rtodo' = {r \in RouteNames : routeCache[r].exists}
    /\ UNCHANGED <<appVars, routeVars, vsVars, permitted, appQueue, appRec,
                   rvs, events>>

\* The VirtualService that serves the Routes found; bindings of other Routes
\* are left out.
MakeVirtualService ==
    [exists |-> TRUE, deleting |-> FALSE,
     table |-> [r \in RouteNames |-> IF r \in rtodo THEN rbind[r] ELSE {}]]

\* The VirtualService is deleted when the domain is not permitted or has no
\* Routes; else it is created when the lister has none, left alone when it is
\* being deleted or the lister's copy is as desired, and updated otherwise, in
\* vain when that copy is behind.  rvs: it is there, it is not, or the error.
ReconcileVirtualService ==
    LET remove == ~permitted \/ rtodo = {}
        keep == ~remove /\ (vsCache.deleting \/ vsCache = MakeVirtualService)
        create == ~remove /\ ~vsCache.exists
        update == ~remove /\ ~create /\ ~keep
    IN  /\ rpc = "virtualservice"
        /\ rpc' = "status"
        /\ \/ /\ remove /\ rvs' = "nil"
              /\ IF vs.exists /\ ~vs.deleting THEN StoreVS(NoVS) ELSE UNCHANGED vsVars
              /\ UNCHANGED events
           \/ /\ keep /\ rvs' = IF vsCache.deleting THEN "nil" ELSE "vs"
              /\ UNCHANGED <<vsVars, events>>
           \/ /\ (create /\ ~vs.exists) \/ (update /\ vsWatch = <<>>)
              /\ StoreVS(MakeVirtualService) /\ rvs' = "vs"
              /\ UNCHANGED events
           \/ /\ \/ create /\ vs.exists /\ rvs' = "exists"
                 \/ update /\ vsWatch # <<>> /\ vs.exists /\ rvs' = "conflict"
                 \/ update /\ ~vs.exists /\ rvs' = "notfound"
              /\ UNCHANGED <<vsVars, events>>
           \/ /\ remove \/ create \/ update
              /\ Fail("api") /\ rvs' = "api"
              /\ UNCHANGED vsVars
        /\ UNCHANGED <<appVars, routeVars, permitted, appQueue, domainQueued, appRec,
                       rcopy, rbind, rstale, rtodo>>

\* The VirtualService was not reconciled.
VSErr == rvs \notin {"nil", "vs"}

\* PropagateVirtualService and PropagateSpaceDomain.
RouteReady ==
    Happy({CASE ~Track \/ rvs = "vs" -> "True"
             [] Track /\ VSErr -> MarkReconciliationError(rvs)
             [] OTHER -> "Unknown",
           IF permitted THEN "True" ELSE "False"})

\* One Route's status.  An update that fails is logged and forgotten.
RUpdateStatus(r) ==
    LET updated == [exists |-> TRUE, observed |-> TRUE, ready |-> RouteReady,
                    bindings |-> rbind[r]]
    IN  /\ rpc = "status" /\ r \in rtodo
        /\ rtodo' = rtodo \ {r}
        /\ \/ /\ updated = rcopy[r] \/ r \in rstale
              /\ UNCHANGED <<routeVars, events>>
           \/ /\ updated # rcopy[r] /\ r \notin rstale
              /\ StoreRoute(r, updated)
              /\ UNCHANGED events
           \/ /\ updated # rcopy[r]
              /\ Fail("routestatus")
              /\ UNCHANGED routeVars
        /\ UNCHANGED <<appVars, vsVars, permitted, appQueue, domainQueued,
                       appRec, rpc, rcopy, rbind, rstale, rvs>>

RFinish ==
    /\ rpc = "status" /\ rtodo = {}
    /\ rpc' = "idle"
    /\ domainQueued' = (domainQueued \/ VSErr)
    /\ rcopy' = [r \in RouteNames |-> NoRoute]
    /\ rbind' = NoBindings
    /\ rstale' = {}
    /\ rvs' = "nil"
    /\ UNCHANGED <<appVars, routeVars, vsVars, permitted, appQueue, appRec,
                   rtodo, events>>

-----------------------------------------------------------------------------
\* Apps and Routes as the reconcilers leave them once they agree that every
\* App is mapped to the Routes M; for M = {} the Apps are new.
MappedApp(M) ==
    [NewApp EXCEPT
        !.routes = M,
        !.status = {[route |-> r, weight |-> 1,
                     state |-> IF permitted THEN "Ready" ELSE "Unknown"] : r \in M},
        !.ready = IF M = {} THEN "Unknown"
                  ELSE IF permitted THEN "True" ELSE "False"]

MappedRoute(mapped) ==
    IF mapped
      THEN [exists |-> TRUE, observed |-> TRUE,
            ready |-> IF permitted THEN "True" ELSE "False",
            bindings |-> Apps \X {1}]
      ELSE NoRoute

\* The controller starts: the informers deliver every object (the
\* VirtualService with the Routes, which enqueue the same domain).
Init ==
    /\ permitted \in BOOLEAN
    /\ \E M \in SUBSET RouteNames :
        /\ app = [a \in Apps |-> MappedApp(M)]
        /\ route = [r \in RouteNames |-> MappedRoute(r \in M)]
        /\ vs = IF permitted /\ M # {}
                  THEN [exists |-> TRUE, deleting |-> FALSE,
                        table |-> [r \in RouteNames |-> route[r].bindings]]
                  ELSE NoVS
    /\ appCache = app /\ appWatch = [a \in Apps |-> <<app[a]>>]
    /\ routeCache = route
    /\ routeWatch = [r \in RouteNames |->
                        IF route[r].exists THEN <<route[r]>> ELSE <<>>]
    /\ vsCache = vs /\ vsWatch = <<>>
    /\ appQueue = {} /\ domainQueued = FALSE
    /\ apc = [a \in Apps |-> "idle"] /\ acopy = [a \in Apps |-> NewApp]
    /\ adone = [a \in Apps |-> {}]
    /\ rpc = "idle" /\ rcopy = [r \in RouteNames |-> NoRoute]
    /\ rbind = NoBindings
    /\ rstale = {} /\ rtodo = {} /\ rvs = "nil"
    /\ events = 0

User ==
    \/ \E a \in Apps, r \in RouteNames : MapRoute(a, r) \/ UnmapRoute(a, r)
    \/ \E a \in Apps : StartOrStop(a)
    \/ \E r \in RouteNames : DeleteRoute(r)
    \/ DeleteVS

Deliver ==
    \/ DeliverVS
    \/ \E a \in Apps : DeliverApp(a)
    \/ \E r \in RouteNames : DeliverRoute(r)

AppReconciler(a) ==
    ABegin(a) \/ ACreateRoute(a) \/ AStatus(a) \/ AUpdateStatus(a)

RouteReconciler ==
    \/ RBegin \/ ReconcileVirtualService \/ RFinish
    \/ \E r \in RouteNames : RUpdateStatus(r)

Next ==
    \/ User \/ Deliver \/ RouteReconciler \/ VSGone
    \/ \E a \in Apps : AppReconciler(a)

Spec == Init /\ [][Next]_vars

\* The informers deliver, the reconcilers run what is enqueued, and Kubernetes
\* finishes deletions.  Users need not do anything.
Fairness ==
    /\ \A a \in Apps : WF_vars(DeliverApp(a)) /\ WF_vars(AppReconciler(a))
    /\ \A r \in RouteNames : WF_vars(DeliverRoute(r))
    /\ WF_vars(RouteReconciler) /\ WF_vars(DeliverVS) /\ WF_vars(VSGone)

FairSpec == Spec /\ Fairness

-----------------------------------------------------------------------------
(* Properties. *)

(* Every variable keeps the shape of the Go value it stands for.             *)
TypeOK ==
    /\ app \in [Apps -> App] /\ appCache \in [Apps -> App]
    /\ \A a \in Apps : appWatch[a] \in Seq(App) /\ Len(appWatch[a]) <= MaxLag
    /\ route \in [RouteNames -> Route] /\ routeCache \in [RouteNames -> Route]
    /\ \A r \in RouteNames :
        routeWatch[r] \in Seq(Route) /\ Len(routeWatch[r]) <= MaxLag
    /\ {vs, vsCache} \subseteq VirtualService
    /\ vsWatch \in Seq(VirtualService) /\ Len(vsWatch) <= MaxLag
    /\ permitted \in BOOLEAN /\ domainQueued \in BOOLEAN
    /\ appQueue \subseteq Apps
    /\ apc \in [Apps -> {"idle", "routes", "update", "failed"}]
    /\ acopy \in [Apps -> App] /\ adone \in [Apps -> SUBSET RouteNames]
    /\ rpc \in {"idle", "virtualservice", "status"}
    /\ rcopy \in [RouteNames -> Route]
    /\ rbind \in [RouteNames -> SUBSET Destination]
    /\ {rstale, rtodo} \subseteq SUBSET RouteNames
    /\ rvs \in {"nil", "vs", "exists", "conflict", "notfound", "api"}
    /\ events \in 0..MaxEvents

\* What the two reconcilers must arrive at.
Declared(r) == {<<a, app[a].weight>> : a \in {x \in Apps : r \in app[x].routes}}

Served ==
    \A r \in RouteNames :
        /\ Declared(r) # {} => route[r].exists
        /\ route[r].exists => route[r].bindings = Declared(r)
        /\ vs.table[r] = IF vs.exists /\ route[r].exists THEN Declared(r) ELSE {}

Reported ==
    \A a \in Apps :
        app[a].status = {[route |-> r, weight |-> app[a].weight,
                          state |-> IF permitted THEN "Ready" ELSE "Unknown"]
                            : r \in app[a].routes}

(* Once the users stop changing things, the Routes' statuses and the         *)
(* VirtualService send traffic to exactly the Apps that declare the Routes,  *)
(* with their weights, and the Apps report exactly their own bindings: an    *)
(* unmapped App is let go of although neither reconciler polls.              *)
RoutesConverge ==
    <>[](/\ Served /\ Reported
         /\ vs.exists <=> permitted /\ \E r \in RouteNames : route[r].exists)
==============================================================================
