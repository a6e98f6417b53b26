--------------------------------- MODULE App ---------------------------------
(***************************************************************************)
(* One App from push to rollout: the App reconciler with the environment   *)
(* Secret, Builds, autoscaler and Deployment it makes, the Build           *)
(* reconciler, the upload of a Build's source, the garbage collection of   *)
(* Builds, and the start command reconciler, which shares the App's        *)
(* status.                                                                 *)
(*                                                                         *)
(* A run of the App reconciler works on a copy of the App and goes through *)
(* the parts in a fixed order; it stops at the first part that fails or is *)
(* pending, the conditions of the later ones staying as they were, and     *)
(* then stores the status.  The listers of the parts may be behind.        *)
(* Space, Service, ServiceAccount and Routes (module Routes) go with the   *)
(* environment Secret, which holds the bound services.                     *)
(***************************************************************************)
EXTENDS Conditions, Integers, SequencesExt, FiniteSetsExt

CONSTANTS
    Retained,       \* BuildRetentionCount of config-defaults
    Scripts,        \* bound: what users do, as sequences of Change
    MaxFaults,      \* bound: API calls that fail without a conflict
    Failing         \* the parts whose calls may fail so

\* What a push brings: source to build, or an image.
Push == {"build", "image"}

\* "template" is set-env, restart and all else that starts new Pods.
Change == Push \union {"restage", "template", "autoscale", "bind"}

ASSUME AppAssumption ==
    /\ {Retained, MaxFaults} \subseteq Nat
    /\ Scripts \subseteq Seq(Change)
    /\ IsFiniteSet(Scripts) /\ Scripts # {}
    /\ \A sc \in Scripts : sc # <<>> /\ Head(sc) \in Push
    /\ Failing \subseteq {"env", "build", "hpa", "deploy", "status", "builder"}

VARIABLES
    app, appWatch, appCache,    \* the App object
    queued,                     \* the App is enqueued
    pc, copy, original,         \* the run: its step, its copy of the App, the
                                \* status that began with
    bindings, bindingsSeen,     \* how many services are bound, and listed
    secret, secretSeen,         \* the environment Secret, stored and listed
    build, buildSeen,           \* the Builds, by number
    package, source,            \* their SourcePackages, and those uploaded
    run,                        \* the Builds' TaskRuns
    hpa, hpaSeen,               \* the autoscaler is there
    deploy, deploySeen,         \* the Deployment
    changes, faults             \* what happened so far

appVars   == <<app, appWatch, appCache>>
recVars   == <<pc, copy, original>>
secVars   == <<bindings, bindingsSeen, secret, secretSeen>>
buildVars == <<build, buildSeen, package, source, run>>
hpaVars   == <<hpa, hpaSeen>>
depVars   == <<deploy, deploySeen>>
vars == <<appVars, queued, recVars, secVars, buildVars, hpaVars, depVars, changes, faults>>

\* What users change is numbered from 1.
Number  == 1..Max({Len(sc) : sc \in Scripts})
Number0 == {0} \union Number

\* Image 0 is none, n the one that Build n makes, -n a pushed one.
Image == Number0 \union {-n : n \in Number}

\* template and build are the UpdateRequests; services is how many services the
\* App showed when new Pods were asked for.
AppSpec == [generation: Number0, template: Number0, source: Push, build: Number0,
            package: Number0, image: Image, autoscale: BOOLEAN, services: Number0]
Status  == [observed: Number0, services: Number0, env: ConditionStatus,
            build: ConditionStatus, hpa: ConditionStatus, deploy: ConditionStatus,
            image: Image, start: Image]
Object  == [spec: AppSpec, status: Status]

BuildState == {"none", "Unknown", "True", "False", "gone"}
RunState   == {"none", "running", "True", "False"}
\* template is 0 while there is no Deployment; services is what the Pods got.
Deployment == [template: Number0, image: Image, services: Number0,
               state: ConditionStatus]

NoSpec   == [generation |-> 0, template |-> 0, source |-> "build", build |-> 0,
             package |-> 0, image |-> 0, autoscale |-> FALSE, services |-> 0]
NoStatus == [observed |-> 0, services |-> 0, env |-> "Unknown", build |-> "Unknown",
             hpa |-> "Unknown", deploy |-> "Unknown", image |-> 0, start |-> 0]

\* Between runs there is no copy.
NoObject == [spec |-> NoSpec, status |-> NoStatus]

NoDeployment == [template |-> 0, image |-> 0, services |-> 0, state |-> "Unknown"]

Exists(b) == b \notin {"none", "gone"}

-----------------------------------------------------------------------------
(* The API server, the informers and what runs the parts. *)

Store(o) ==
    /\ appWatch = <<>>
    /\ app' = o
    /\ appWatch' = <<o>>
    /\ UNCHANGED appCache

Fault(part) == part \in Failing /\ faults < MaxFaults /\ faults' = faults + 1

DeliverApp ==
    /\ appWatch # <<>>
    /\ appCache' = Head(appWatch) /\ appWatch' = <<>>
    /\ queued' = TRUE
    /\ UNCHANGED <<app, recVars, secVars, buildVars, hpaVars, depVars, changes, faults>>

\* Changes of the App's own Secret enqueue nothing.
DeliverSecret ==
    /\ secretSeen # secret
    /\ secretSeen' = secret
    /\ UNCHANGED <<appVars, queued, recVars, bindings, bindingsSeen, secret,
                   buildVars, hpaVars, depVars, changes, faults>>

DeliverBinding ==
    /\ bindingsSeen # bindings
    /\ bindingsSeen' = bindings
    /\ queued' = TRUE
    /\ UNCHANGED <<appVars, recVars, bindings, secret, secretSeen, buildVars,
                   hpaVars, depVars, changes, faults>>

DeliverBuild(n) ==
    /\ buildSeen[n] # build[n]
    /\ buildSeen' = [buildSeen EXCEPT ![n] = build[n]]
    /\ queued' = TRUE
    /\ UNCHANGED <<appVars, recVars, secVars, build, package, source, run, hpaVars,
                   depVars, changes, faults>>

DeliverAutoscaler ==
    /\ hpaSeen # hpa
    /\ hpaSeen' = hpa
    /\ queued' = TRUE
    /\ UNCHANGED <<appVars, recVars, secVars, buildVars, hpa, depVars, changes, faults>>

DeliverDeployment ==
    /\ deploySeen # deploy
    /\ deploySeen' = deploy
    /\ queued' = TRUE
    /\ UNCHANGED <<appVars, recVars, secVars, buildVars, hpaVars, deploy, changes, faults>>

\* Tekton ends the TaskRun; the Deployment is rolled out, or fails to be: its
\* new Pods start with the Secret as it is.
RunEnds(n) ==
    /\ run[n] = "running"
    /\ \E s \in {"True", "False"} : run' = [run EXCEPT ![n] = s]
    /\ UNCHANGED <<appVars, queued, recVars, secVars, build, buildSeen, package, source,
                   hpaVars, depVars, changes, faults>>

RollsOut ==
    /\ deploy.template # 0 /\ deploy.state = "Unknown"
    /\ \E s \in {"True", "False"} :
          deploy' = [deploy EXCEPT !.state = s, !.services = secret - 1]
    /\ UNCHANGED <<appVars, queued, recVars, secVars, buildVars, hpaVars, deploySeen,
                   changes, faults>>

-----------------------------------------------------------------------------
(* Users. *)

Does(change) ==
    /\ \E sc \in Scripts : IsPrefix(Append(changes, change), sc)
    /\ changes' = Append(changes, change)

Update(change, spec) ==
    /\ Does(change)
    /\ Store([app EXCEPT !.spec = [spec EXCEPT !.generation = @ + 1]])
    /\ UNCHANGED <<queued, recVars, secVars, buildVars, hpaVars, depVars, faults>>

NewPods(spec, status) ==
    [spec EXCEPT !.template = @ + 1, !.services = status.services]

\* mergeApps: a push always asks for new Pods and for a new Build, which is
\* made when there is no image; its SourcePackage has the Build's number.
Pushed(o, src) ==
    LET n == o.spec.build + 1
    IN  [NewPods(o.spec, o.status) EXCEPT
            !.source = src, !.build = n,
            !.package = IF src = "build" THEN n ELSE 0,
            !.image = IF src = "image" THEN -n ELSE 0]

PushAgain(src) == Update(src, Pushed(app, src))

\* restage: a new Build of the same source.
Restage == Update("restage", [app.spec EXCEPT !.build = @ + 1])

Restart == Update("template", NewPods(app.spec, app.status))

\* enable-autoscaling and disable-autoscaling.
Autoscale == Update("autoscale", [app.spec EXCEPT !.autoscale = ~@])

\* Another ServiceInstanceBinding becomes ready (module ServiceInstanceBinding).
Bind ==
    /\ Does("bind")
    /\ bindings' = bindings + 1
    /\ UNCHANGED <<appVars, queued, recVars, bindingsSeen, secret, secretSeen,
                   buildVars, hpaVars, depVars, faults>>

\* Uploader.Upload, which push calls once it made the SourcePackage; an upload
\* that fails leaves the SourcePackage pending.
Upload(n) ==
    /\ n \notin source /\ app.spec.package = n
    /\ source' = source \union {n}
    /\ UNCHANGED <<appVars, queued, recVars, secVars, build, buildSeen, package, run,
                   hpaVars, depVars, changes, faults>>

-----------------------------------------------------------------------------
(* The App reconciler. *)

\* The run stops, or is done: on to the status update.  A failed one is
\* retried.
AStops(status, failed) ==
    /\ pc' = IF failed THEN "failed" ELSE "update"
    /\ copy' = [copy EXCEPT !.status = status]

AFails(part, err) ==
    AStops([copy.status EXCEPT ![part] = MarkReconciliationError(err)], TRUE)

AGoesOn(step, status) ==
    /\ pc' = step
    /\ copy' = [copy EXCEPT !.status = status]

\* Mutant: a Secret that is there is not updated.
SecretMissing == secretSeen = 0

\* A Secret with k services is k + 1: missing, or outdated.
SecretOutdated == secretSeen # bindingsSeen + 1

\* A run begins with the environment.  The Secret, made from the bindings that
\* are listed as ready, is created or updated unless the listed one is as
\* desired; a lister that is behind makes the write fail.
ABegin ==
    LET status == [appCache.status EXCEPT !.observed = appCache.spec.generation,
                                          !.services = bindingsSeen]
        Goes(step, cond) ==
            /\ pc' = step
            /\ copy' = [appCache EXCEPT !.status = [status EXCEPT !.env = cond]]
    IN  /\ queued /\ pc = "idle"
        /\ queued' = FALSE
        /\ original' = appCache.status
        /\ \/ /\ ~SecretOutdated
              /\ Goes("build", "True")
              /\ UNCHANGED <<secret, faults>>
           \/ /\ SecretOutdated /\ secret = secretSeen
              /\ secret' = bindingsSeen + 1
              /\ Goes("build", "True")
              /\ UNCHANGED faults
           \/ /\ SecretOutdated /\ secret # secretSeen
              /\ Goes("failed", MarkReconciliationError("conflict"))
              /\ UNCHANGED <<secret, faults>>
           \/ /\ Fault("env")
              /\ Goes("failed", MarkReconciliationError("api"))
              /\ UNCHANGED secret
        /\ UNCHANGED <<appVars, bindings, bindingsSeen, secretSeen, buildVars, hpaVars,
                       depVars, changes>>

\* A pushed image is taken as it is.
AImage ==
    /\ pc = "build" /\ copy.spec.source = "image"
    /\ AGoesOn("hpa", [copy.status EXCEPT !.build = "True", !.image = copy.spec.image])
    /\ UNCHANGED <<appVars, queued, original, secVars, buildVars, hpaVars, depVars,
                   changes, faults>>

\* Mutant: the image is forgotten.
PropagateBuildStatusOnly(s, n) == [copy.status EXCEPT !.build = s]

\* Only a Build that succeeded changes the image.
PropagateBuildStatus(s, n) ==
    [copy.status EXCEPT !.build = s, !.image = IF s = "True" THEN n ELSE @]

\* Builds are made by number.  While one is pending the run stops; after one
\* that failed it goes on, with the image of an earlier one.
ABuild ==
    LET n == copy.spec.build
        seen == buildSeen[n]
    IN  /\ pc = "build" /\ copy.spec.source = "build"
        /\ \/ /\ ~Exists(seen) /\ ~Exists(build[n])
              /\ build' = [build EXCEPT ![n] = "Unknown"]
              /\ package' = [package EXCEPT ![n] = copy.spec.package]
              /\ AStops(PropagateBuildStatus("Unknown", n), FALSE)
              /\ UNCHANGED faults
           \/ /\ ~Exists(seen)
              /\ \E err \in {"exists", "api"} :
                    /\ IF err = "exists" THEN Exists(build[n]) /\ UNCHANGED faults
                                         ELSE Fault("build")
                    /\ AFails("build", err)
              /\ UNCHANGED <<build, package>>
           \/ /\ Exists(seen)
              /\ IF IsPending(seen)
                   THEN AStops(PropagateBuildStatus(seen, n), FALSE)
                   ELSE AGoesOn("hpa", PropagateBuildStatus(seen, n))
              /\ UNCHANGED <<build, package, faults>>
        /\ UNCHANGED <<appVars, queued, original, secVars, buildSeen, source, run,
                       hpaVars, depVars, changes>>

\* Without autoscaling a delete is always sent; one that finds an autoscaler
\* ends the run with an error, and the next run goes on.  With it, a listed
\* autoscaler is enough; one that is scaling is pending.
AHorizontalPodAutoscaler ==
    /\ pc = "hpa"
    /\ \/ /\ ~copy.spec.autoscale /\ ~hpa
          /\ AGoesOn("deployment", [copy.status EXCEPT !.hpa = "True"])
          /\ UNCHANGED <<hpa, faults>>
       \/ /\ ~copy.spec.autoscale /\ hpa
          /\ hpa' = FALSE
          /\ AFails("hpa", "nil")
          /\ UNCHANGED faults
       \/ /\ copy.spec.autoscale /\ (hpaSeen \/ ~hpa)
          /\ hpa' = (hpa \/ ~hpaSeen)
          /\ \E s \in {"True", "Unknown"} :
                AGoesOn("deployment", [copy.status EXCEPT !.hpa = s])
          /\ UNCHANGED faults
       \/ /\ copy.spec.autoscale /\ ~hpaSeen /\ hpa
          /\ AFails("hpa", "exists")
          /\ UNCHANGED <<hpa, faults>>
       \/ /\ Fault("hpa")
          /\ AFails("hpa", "api")
          /\ UNCHANGED hpa
    /\ UNCHANGED <<appVars, queued, original, secVars, buildVars, hpaSeen, depVars,
                   changes>>

MakeDeployment ==
    [template |-> copy.spec.template, image |-> copy.status.image,
     services |-> deploy.services, state |-> "Unknown"]

\* Mutant: the image is not compared.
DeploymentCurrentTemplate == deploySeen.template = MakeDeployment.template

\* The listed Deployment is as desired.
DeploymentCurrent ==
    /\ deploySeen.template = MakeDeployment.template
    /\ deploySeen.image = MakeDeployment.image

\* There is no Deployment without an image.
ADeployment ==
    /\ pc = "deployment"
    /\ \/ /\ copy.status.image = 0
          /\ AFails("deploy", "template")
          /\ UNCHANGED <<deploy, faults>>
       \/ /\ copy.status.image # 0 /\ DeploymentCurrent
          /\ AStops([copy.status EXCEPT !.deploy = deploySeen.state], FALSE)
          /\ UNCHANGED <<deploy, faults>>
       \/ /\ copy.status.image # 0 /\ ~DeploymentCurrent
          /\ \/ /\ deploy = deploySeen
                /\ deploy' = MakeDeployment
                /\ AStops([copy.status EXCEPT !.deploy = "Unknown"], FALSE)
                /\ UNCHANGED faults
             \/ /\ \E err \in {"conflict", "api"} :
                      /\ IF err = "conflict" THEN deploy # deploySeen /\ UNCHANGED faults
                                             ELSE Fault("deploy")
                      /\ AFails("deploy", err)
                /\ UNCHANGED deploy
    /\ UNCHANGED <<appVars, queued, original, secVars, buildVars, hpaVars, deploySeen,
                   changes>>

\* updateStatus, of a status that changed, into the version listed now.
AUpdateStatus ==
    LET updated == [appCache EXCEPT !.status = copy.status]
    IN  /\ pc \in {"update", "failed"}
        /\ \/ /\ copy.status = original \/ updated = appCache
              /\ queued' = (queued \/ pc = "failed")
              /\ UNCHANGED <<appVars, faults>>
           \/ /\ copy.status # original /\ updated # appCache
              /\ Store(updated)
              /\ queued' = (queued \/ pc = "failed")
              /\ UNCHANGED faults
           \/ /\ copy.status # original /\ updated # appCache
              /\ \/ appWatch # <<>> /\ UNCHANGED faults
                 \/ Fault("status")
              /\ queued' = TRUE
              /\ UNCHANGED appVars
        /\ pc' = "idle"
        /\ copy' = NoObject /\ original' = NoStatus
        /\ UNCHANGED <<secVars, buildVars, hpaVars, depVars, changes>>

-----------------------------------------------------------------------------
(* The Build reconciler.  It is woken by Builds, TaskRuns and SourcePackages *)
(* and by a resync, so its steps happen whenever there is something to do.   *)

\* The TaskRun is created once the source is there and no TaskRun is listed;
\* if that fails because there is one, or for another reason, it is retried.
BStart(n) ==
    /\ buildSeen[n] = "Unknown" /\ package[n] \in source
    /\ run[n] = "none"
    /\ run' = [run EXCEPT ![n] = "running"]
    /\ UNCHANGED <<appVars, queued, recVars, secVars, build, buildSeen, package, source,
                   hpaVars, depVars, changes, faults>>

\* The TaskRun's outcome becomes the Build's; a final Build is left alone.
BFinish(n) ==
    /\ buildSeen[n] = "Unknown" /\ build[n] = "Unknown"
    /\ IsStatusFinal(run[n])
    /\ build' = [build EXCEPT ![n] = run[n]]
    /\ UNCHANGED <<appVars, queued, recVars, secVars, buildSeen, package, source, run,
                   hpaVars, depVars, changes, faults>>

\* The Space is not listed, or a Tekton Task or a config cannot be read: the
\* condition is False, and so the Build has failed, whatever its TaskRun does.
BFails(n) ==
    /\ buildSeen[n] = "Unknown" /\ build[n] = "Unknown"
    /\ Fault("builder")
    /\ build' = [build EXCEPT ![n] = MarkReconciliationError("api")]
    /\ UNCHANGED <<appVars, queued, recVars, secVars, buildSeen, package, source, run,
                   hpaVars, depVars, changes>>

-----------------------------------------------------------------------------
(* The garbage collector. *)

AtLeastOne(k) == IF k = 0 THEN 1 ELSE k

\* Mutant: the last Build is not kept.
buildsToGCAll(builds) ==
    LET final == {n \in builds : IsStatusFinal(build[n])}
    IN  {n \in final : Cardinality({m \in final : m > n}) >= Retained}

\* Of the Builds that are finished, all but the youngest, and at least one is
\* kept.
buildsToGC(builds) ==
    LET final == {n \in builds : IsStatusFinal(build[n])}
    IN  {n \in final : Cardinality({m \in final : m > n}) >= AtLeastOne(Retained)}

GCBuild(n) ==
    /\ n \in buildsToGC({m \in Number : Exists(build[m])})
    /\ build' = [build EXCEPT ![n] = "gone"]
    /\ UNCHANGED <<appVars, queued, recVars, secVars, buildSeen, package, source, run,
                   hpaVars, depVars, changes, faults>>

-----------------------------------------------------------------------------
(* The start command reconciler. *)

\* It returns whether the start commands are equal.
RequiresUpdate(actual, desired) == actual.status.start = desired.status.start

\* The image is looked up unless it was before.
SReconcile ==
    LET o == appCache
        lookup == o.status.image \notin {o.status.start, 0}
        desired == IF lookup THEN [o EXCEPT !.status.start = o.status.image] ELSE o
    IN  /\ lookup
        /\ IF RequiresUpdate(o, desired) /\ ~RequiresUpdate(appCache, desired)
             THEN Store([appCache EXCEPT !.status.start = desired.status.start])
             ELSE UNCHANGED appVars
        /\ UNCHANGED <<queued, recVars, secVars, buildVars, hpaVars, depVars,
                       changes, faults>>

-----------------------------------------------------------------------------
\* The first push.
Init ==
    /\ \E sc \in Scripts :
        /\ changes = <<Head(sc)>>
        /\ app = [spec |-> [Pushed(NoObject, Head(sc)) EXCEPT !.generation = 1],
                  status |-> NoStatus]
    /\ appCache = app /\ appWatch = <<app>> /\ queued = FALSE
    /\ pc = "idle" /\ copy = NoObject /\ original = NoStatus
    /\ bindings = 0 /\ bindingsSeen = 0 /\ secret = 0 /\ secretSeen = 0
    /\ build = [n \in Number |-> "none"] /\ buildSeen = build
    /\ package = [n \in Number |-> 0] /\ source = {} /\ run = build
    /\ hpa = FALSE /\ hpaSeen = FALSE
    /\ deploy = NoDeployment /\ deploySeen = deploy
    /\ faults = 0

AppReconciler ==
    \/ ABegin \/ AImage \/ ABuild \/ AHorizontalPodAutoscaler
    \/ ADeployment \/ AUpdateStatus

BuildReconciler(n) == BStart(n) \/ BFinish(n)

Deliver ==
    \/ DeliverApp \/ DeliverSecret \/ DeliverBinding \/ DeliverAutoscaler \/ DeliverDeployment
    \/ \E n \in Number : DeliverBuild(n)

User ==
    \/ (\E src \in Push : PushAgain(src)) \/ Restage \/ Restart \/ Autoscale \/ Bind
        \/ \E n \in Number : Upload(n)

Next ==
    \/ AppReconciler \/ Deliver \/ User \/ RollsOut \/ SReconcile
    \/ \E n \in Number : BuildReconciler(n) \/ BFails(n) \/ RunEnds(n) \/ GCBuild(n)

Spec == Init /\ [][Next]_vars

\* Reconcilers run, informers deliver, TaskRuns end (they have a deadline)
\* and Deployments roll out or fail.  Users need not do anything.
Fairness ==
    /\ WF_vars(AppReconciler) /\ WF_vars(RollsOut) /\ WF_vars(SReconcile)
    /\ WF_vars(DeliverApp) /\ WF_vars(DeliverSecret) /\ WF_vars(DeliverBinding)
    /\ WF_vars(DeliverAutoscaler) /\ WF_vars(DeliverDeployment)
    /\ \A n \in Number :
        /\ WF_vars(DeliverBuild(n))
        /\ WF_vars(BuildReconciler(n)) /\ WF_vars(RunEnds(n))

FairSpec == Spec /\ Fairness

-----------------------------------------------------------------------------
(* Properties. *)

(* Every variable keeps the shape of the Go value it stands for.             *)
TypeOK ==
    /\ app \in Object /\ appCache \in Object /\ copy \in Object
    /\ appWatch \in Seq(Object) /\ Len(appWatch) <= 1
    /\ original \in Status
    /\ pc \in {"idle", "build", "hpa", "deployment", "update", "failed"}
    /\ {bindings, bindingsSeen, secret, secretSeen} \subseteq Number0
    /\ package \in [Number -> Number0]
    /\ build \in [Number -> BuildState] /\ buildSeen \in [Number -> BuildState]
    /\ run \in [Number -> RunState]
    /\ source \subseteq Number
    /\ deploy \in Deployment /\ deploySeen \in Deployment
    /\ {queued, hpa, hpaSeen} \subseteq BOOLEAN
    /\ \E sc \in Scripts : IsPrefix(changes, sc)
    /\ faults \in 0..MaxFaults

(* New Pods have every service that the App showed when they were asked for: *)
(* "Anything that starts a Pod should go below this point to ensure the      *)
(* environment the Pod runs in is set up".  The reconciler compares the      *)
(* Secret with listers, and the Pods read the stored one.                    *)
NewPodsHaveServices ==
    deploy.template = app.spec.template /\ deploy.state # "Unknown" =>
        deploy.services >= app.spec.services

Ready == Happy({app.status.env, app.status.build, app.status.hpa, app.status.deploy})

(* An App that reports Ready for its current spec is what the spec asks for: *)
(* the autoscaler and the Deployment are stored as desired, with             *)
(* the pushed image or the one of the latest Build, although the status is   *)
(* put together from listers and written into a version listed later.  An    *)
(* autoscaler just deleted is the exception: it counts while it is listed,   *)
(* and the run its event starts makes it again.                              *)
ReadyIsReal ==
    Ready = "True" /\ app.status.observed = app.spec.generation =>
        /\ hpa = app.spec.autoscale \/ hpaSeen # hpa \/ queued \/ pc # "idle"
        /\ deploy.template = app.spec.template
        /\ deploy.image = IF app.spec.source = "image" THEN app.spec.image
                                                       ELSE app.spec.build

(* A Build is never made a second time: the garbage collector leaves the one *)
(* the App refers to, and no outdated copy brings back an earlier one.       *)
BuildsOnce ==
    [][\A n \in Number : build[n] = "gone" => build'[n] = "gone"]_vars

\* The App's spec and its parts agree, as far as its Build got.
Settled ==
    LET n == app.spec.build
        built == IF app.spec.source = "image" THEN "True" ELSE build[n]
    IN  /\ app.status.observed = app.spec.generation
        /\ secret = bindings + 1 /\ app.status.services = bindings
        /\ app.status.build = built
        /\ IsPending(built) => app.spec.package \notin source
        /\ built = "True" =>
            /\ deploy.template = app.spec.template
            /\ deploy.image = IF app.spec.source = "image" THEN app.spec.image ELSE n
            /\ app.status.deploy = deploy.state /\ IsStatusFinal(deploy.state)
            /\ hpa = app.spec.autoscale
        /\ built = "False" => Ready = "False"

(* Once the users stop, the last push, bindings and autoscaling are          *)
(* rolled out and reported, also after calls that failed (app.cfg lets the   *)
(* Build reconciler's lookups fail, which ends the Build and is reported),   *)
(* unless the source of the Build was never uploaded.                        *)
PushCompletes == <>[]Settled
==============================================================================
