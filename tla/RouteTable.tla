----------------------------- MODULE RouteTable -----------------------------
(***************************************************************************)
(* The rules of a domain's VirtualService: which App a request reaches.    *)
(*                                                                         *)
(* The Route reconciler turns the domain's Routes, the Apps' bindings and  *)
(* the bound route services into one list of rules, of which Istio takes   *)
(* the first that matches.  The state is the input of that computation, as *)
(* the users' commands build it up; the rules are operators of it, checked *)
(* against the answer a request should get.                                *)
(*                                                                         *)
(* A path is a sequence of segments, a segment is the number of its        *)
(* characters.  Hosts and Apps are numbered in the order of their names;   *)
(* the host 0 is the wildcard "*".  Every App has one port, and paths are  *)
(* plain text, without the variables gorilla/mux allows.                   *)
(***************************************************************************)
EXTENDS Integers, SequencesExt

CONSTANTS
    Hosts,          \* the host names in use
    Paths,          \* the paths in use
    Apps,           \* the Apps of the Space
    Services,       \* the route services of the Space
    MaxWeight,      \* bound: weight of one binding
    MaxRoutes,      \* bound: Routes of the domain that exist or are bound
    MaxBindings,    \* bound: route bindings of all Apps
    MaxServices     \* bound: route service bindings

MaxInt32 == 2147483647

ASSUME RouteTableAssumption ==
    /\ Hosts \subseteq Nat \ {0} /\ Apps \subseteq Nat \ {0}
    /\ Paths \subseteq Seq(Nat \ {0})
    /\ IsFiniteSet(Apps) /\ IsFiniteSet(Paths)
    /\ {MaxWeight, MaxRoutes, MaxBindings, MaxServices} \subseteq Nat
    \* Weights, their sums and 100 times a weight are int32.
    /\ 100 * MaxWeight <= MaxInt32 /\ MaxBindings * MaxWeight <= MaxInt32

VARIABLES
    routes,         \* the Routes that exist
    spec,           \* spec.routes of every App: a Route's weight
    stopped,        \* Apps whose spec.instances.stopped is set
    services        \* the route services bound to every Route

vars == <<routes, spec, stopped, services>>

Wildcard == 0
RouteSpecFields == [host: Hosts \union {Wildcard}, path: Paths]

-----------------------------------------------------------------------------
(* The users' commands, and the App reconciler, which creates the Routes that *)
(* an App binds.                                                              *)

Bindings == UNION {{<<a, r>> : r \in DOMAIN spec[a]} : a \in Apps}

\* The Routes that exist or that an App binds.
Named == routes \union UNION {DOMAIN spec[a] : a \in Apps}

\* Mutant: the webhook lets a negative weight pass.
MapRouteUnvalidated(a, r, w) ==
    /\ Cardinality(Bindings \union {<<a, r>>}) <= MaxBindings
    /\ Cardinality(Named \union {r}) <= MaxRoutes
    /\ spec' = [spec EXCEPT ![a] = [x \in DOMAIN @ \union {r} |->
                                        IF x = r THEN w ELSE @[x]]]
    /\ UNCHANGED <<routes, stopped, services>>

\* map-route writes the App: it takes an earlier mapping of the Route off and
\* puts the new one on.  The webhook refuses a negative weight.
MapRoute(a, r, w) ==
    /\ w >= 0
    /\ Cardinality(Bindings \union {<<a, r>>}) <= MaxBindings
    /\ Cardinality(Named \union {r}) <= MaxRoutes
    /\ spec' = [spec EXCEPT ![a] = [x \in DOMAIN @ \union {r} |->
                                        IF x = r THEN w ELSE @[x]]]
    /\ UNCHANGED <<routes, stopped, services>>

\* The App reconciler creates a Route that the App binds and that is missing.
CreateRouteOf(a, r) ==
    /\ r \in DOMAIN spec[a] /\ r \notin routes
    /\ routes' = routes \union {r}
    /\ UNCHANGED <<spec, stopped, services>>

UnmapRoute(a, r) ==
    /\ r \in DOMAIN spec[a]
    /\ spec' = [spec EXCEPT ![a] = [x \in DOMAIN @ \ {r} |-> @[x]]]
    /\ UNCHANGED <<routes, stopped, services>>

StartOrStop(a) ==
    /\ stopped' = IF a \in stopped THEN stopped \ {a} ELSE stopped \union {a}
    /\ UNCHANGED <<routes, spec, services>>

CreateRoute(r) ==
    /\ r \notin routes /\ Cardinality(Named \union {r}) <= MaxRoutes
    /\ routes' = routes \union {r}
    /\ UNCHANGED <<spec, stopped, services>>

\* delete-route first unmaps the Route from every App.  One that is mapped
\* again meanwhile is created again by the App reconciler.
DeleteRoute(r) ==
    /\ r \in routes
    /\ routes' = routes \ {r}
    /\ spec' = [a \in Apps |-> [x \in DOMAIN spec[a] \ {r} |-> spec[a][x]]]
    /\ UNCHANGED <<stopped, services>>

BindRouteService(r, s) ==
    /\ r \in routes /\ s \notin services[r]
    /\ Cardinality({x \in RouteSpecFields \X Services : x[2] \in services[x[1]]})
         < MaxServices
    /\ services' = [services EXCEPT ![r] = @ \union {s}]
    /\ UNCHANGED <<routes, spec, stopped>>

UnbindRouteService(r, s) ==
    /\ s \in services[r]
    /\ services' = [services EXCEPT ![r] = @ \ {s}]
    /\ UNCHANGED <<routes, spec, stopped>>

Init ==
    /\ routes = {}
    /\ spec = [a \in Apps |-> <<>>]
    /\ stopped = {}
    /\ services = [r \in RouteSpecFields |-> {}]

Next ==
    \/ \E a \in Apps, r \in RouteSpecFields :
        \/ \E w \in -1..MaxWeight : MapRoute(a, r, w)
        \/ UnmapRoute(a, r) \/ CreateRouteOf(a, r)
    \/ \E a \in Apps : StartOrStop(a)
    \/ \E r \in RouteSpecFields :
        \/ CreateRoute(r) \/ DeleteRoute(r)
        \/ \E s \in Services : BindRouteService(r, s) \/ UnbindRouteService(r, s)

Spec == Init /\ [][Next]_vars

-----------------------------------------------------------------------------
(* The rules. *)

\* The loop that adds up a list of numbers.
Total(s) ==
    LET sum[i \in 0..Len(s)] == IF i = 0 THEN 0 ELSE sum[i - 1] + s[i]
    IN  sum[Len(s)]

\* sort.Sort of a list without duplicates.
Sorted(S, before(_, _)) ==
    CHOOSE s \in [1..Cardinality(S) -> S] :
        \A i, j \in 1..Cardinality(S) : i < j => before(s[i], s[j])

\* len(Path) of path.Join("/", ...): the root is "/".
PathLen(p) == IF p = <<>> THEN 1 ELSE Total([i \in 1..Len(p) |-> 1 + p[i]])

\* Some order of the paths of one length, for the comparison of their text.
PathRank == CHOOSE f \in [Paths -> 1..Cardinality(Paths)] : IsInjective(f)

\* Mutant: "*" is the first host in alphabetical order.
LessWildcardFirst(r, t) ==
    \/ r.host < t.host
    \/ /\ r.host = t.host
       /\ \/ PathLen(r.path) > PathLen(t.path)
          \/ /\ PathLen(r.path) = PathLen(t.path)
             /\ PathRank[r.path] < PathRank[t.path]

\* RouteSpecFieldsSlice.Less: by host, the wildcard last, then longer paths
\* first.
Less(r, t) ==
    \/ /\ r.host # t.host /\ r.host # Wildcard
       /\ t.host = Wildcard \/ r.host < t.host
    \/ /\ r.host = t.host
       /\ \/ PathLen(r.path) > PathLen(t.path)
          \/ /\ PathLen(r.path) = PathLen(t.path)
             /\ PathRank[r.path] < PathRank[t.path]

\* The Route's bindings in order of the App: MakeRoutes gives the bindings of
\* a stopped App weight 0.
BindingSlice(r) ==
    LET bound == {a \in Apps : r \in DOMAIN spec[a]}
        apps == Sorted(bound, <)
    IN  [i \in DOMAIN apps |->
            [app |-> apps[i],
             weight |-> IF apps[i] \in stopped THEN 0 ELSE spec[apps[i]][r]]]

SumWeights(slice) == Total([i \in 1..Len(slice) |-> slice[i].weight])

\* Mutant: the remainder of the rounding is dropped.
normalizeRouteWeightsRoundDown(slice) ==
    LET total == SumWeights(slice)
    IN  IF total = 0 THEN <<>>
        ELSE [i \in DOMAIN slice |->
                [slice[i] EXCEPT !.weight = (100 * @) \div total]]

\* Percentages, rounded down; the remainder is handed out one by one from the
\* first entry on.  No destination is left when all weights are 0.
normalizeRouteWeights(slice) ==
    LET total == SumWeights(slice)
        rounded == [i \in DOMAIN slice |->
                       [slice[i] EXCEPT !.weight = (100 * @) \div total]]
        remainder == 100 - SumWeights(rounded)
    IN  IF total = 0 THEN <<>>
        ELSE [i \in DOMAIN slice |->
                [rounded[i] EXCEPT !.weight = IF i <= remainder THEN @ + 1 ELSE @]]

\* A rule: the requests it matches and where it sends them.
NoApp == 0
NotFound == [kind |-> "404"]
ToApps(split) == [kind |-> "apps", split |-> split]
ToService(s) == [kind |-> "service", service |-> s]

\* Rules of the bound Apps: one for each App a request can name in X-Kf-App,
\* then the one that splits the traffic.
AppRules(r) ==
    LET slice == BindingSlice(r)
        split == normalizeRouteWeights(slice)
        rule(app, to) == [host |-> r.host, path |-> r.path, app |-> app,
                          processed |-> FALSE, to |-> to]
        named == [i \in DOMAIN slice |->
                    rule(slice[i].app,
                         IF slice[i].weight = 0 THEN NotFound
                         ELSE ToApps(<<[app |-> slice[i].app, weight |-> 100]>>))]
    IN  named \o <<rule(NoApp, IF split = <<>> THEN NotFound ELSE ToApps(split))>>

\* With a route service, only requests it has processed get to the Apps; the
\* others go to it.  Of several, list names the one the lister has last.
buildRoutesFor(r, list) ==
    LET rules == AppRules(r)
    IN  IF services[r] = {}
          THEN rules
          ELSE [i \in DOMAIN rules |-> [rules[i] EXCEPT !.processed = TRUE]]
               \o <<[host |-> r.host, path |-> r.path, app |-> NoApp,
                     processed |-> FALSE, to |-> ToService(list[r])]>>

MakeVirtualService(list) ==
    LET sorted == Sorted(routes, Less)
    IN  FlattenSeq([i \in DOMAIN sorted |-> buildRoutesFor(sorted[i], list)])

-----------------------------------------------------------------------------
(* Istio: the first rule that matches; no rule, no App. *)

Request == [host: Hosts \union {1 + Cardinality(Hosts)}, path: Paths,
            app: Apps \union {NoApp}, processed: BOOLEAN]

Matches(rule, req) ==
    /\ rule.host \in {Wildcard, req.host}
    /\ IsPrefix(rule.path, req.path)
    /\ rule.app \in {NoApp, req.app}
    /\ rule.processed => req.processed

Dispatch(rules, req) ==
    LET i == SelectInSeq(rules, LAMBDA rule : Matches(rule, req))
    IN  IF i = 0 THEN NotFound ELSE rules[i].to

-----------------------------------------------------------------------------
(* Properties. *)

\* What the last route service of the lists may be.
Lists ==
    {f \in [RouteSpecFields -> Services] :
        \A r \in RouteSpecFields : services[r] # {} => f[r] \in services[r]}

(* Every input of the computation keeps its shape; no weight is negative,     *)
(* although map-route passes on what the user gives it.                       *)
TypeOK ==
    /\ routes \subseteq RouteSpecFields
    /\ \A a \in Apps :
        /\ DOMAIN spec[a] \subseteq RouteSpecFields
        /\ \A r \in DOMAIN spec[a] : spec[a][r] \in 0..MaxWeight
    /\ stopped \subseteq Apps
    /\ services \in [RouteSpecFields -> SUBSET Services]

\* The Route a request is for: the exact host before the wildcard, then the
\* longest path.
IsFor(req, r) ==
    LET candidates == {c \in routes : c.host \in {Wildcard, req.host}
                                        /\ IsPrefix(c.path, req.path)}
    IN  /\ r \in candidates
        /\ \A c \in candidates :
            \/ c.host = Wildcard /\ r.host # Wildcard
            \/ c.host = r.host /\ Len(c.path) <= Len(r.path)

\* A request the route service has not seen goes to it; a request that names
\* a bound App goes to that App if it takes requests, that is, runs and has a
\* weight; others are split over the bound Apps, with all that take requests.
Answers(to, req, r) ==
    LET bound == {a \in Apps : r \in DOMAIN spec[a]}
        idle == {a \in bound : a \in stopped \/ spec[a][r] = 0}
    IN  CASE services[r] # {} /\ ~req.processed ->
                to.kind = "service" /\ to.service \in services[r]
          [] ~(services[r] # {} /\ ~req.processed) /\ req.app \in bound \ idle ->
                to = ToApps(<<[app |-> req.app, weight |-> 100]>>)
          [] ~(services[r] # {} /\ ~req.processed) /\ req.app \in idle ->
                to = NotFound
          [] OTHER ->
                IF bound \subseteq idle
                  THEN to = NotFound
                  ELSE /\ to.kind = "apps"
                       /\ {e.app : e \in ToSet(to.split)} \subseteq bound
                       /\ bound \ idle \subseteq {e.app : e \in ToSet(to.split)}

(* The order of the rules is right: the first rule that matches a request is *)
(* one of the most specific Route for it, whatever other Routes the domain   *)
(* has, and a request for no Route gets no App.                              *)
DispatchesMostSpecific ==
    LET list == CHOOSE f \in Lists : TRUE
        rules == MakeVirtualService(list)
    IN  \A req \in Request :
            LET to == Dispatch(rules, req)
                for == {r \in routes : IsFor(req, r)}
            IN  IF for = {} THEN to = NotFound
                ELSE \A r \in for : Answers(to, req, r)

(* The percentages of a Route with an App that takes requests add up to 100; *)
(* rounding costs no App a whole percent and gives none more than one.  The   *)
(* comments of the code (virtual_service.go:346, :409) also say that a stopped *)
(* App is left out: the code keeps it, with the weight 0, and may hand it one  *)
(* percent of the remainder, which is as much as this allows.                  *)
SplitIsFair ==
    \A r \in routes :
        LET slice == BindingSlice(r)
            split == normalizeRouteWeights(slice)
            total == SumWeights(slice)
        IN  total # 0 =>
              /\ SumWeights(split) = 100
              /\ \A i \in DOMAIN slice :
                    LET share == 100 * slice[i].weight
                    IN  /\ split[i].weight * total > share - total
                        /\ split[i].weight * total <= share + total
==============================================================================
