------------------------------ MODULE AppProofs ------------------------------
(***************************************************************************)
(* Proofs about App, for every set of things users do, every retention     *)
(* count and every set of calls that fail.                                 *)
(*                                                                         *)
(* A run works on a copy of a listed App and reads listers that are        *)
(* behind, so none of the properties is inductive.  The invariant says how *)
(* what is behind relates to what is stored: specs only grow, the same     *)
(* generation is the same spec, the same template means the same services  *)
(* and pushed image, and the image of the latest Build, once anything      *)
(* refers to it, stays the one that every later run arrives at.            *)
(***************************************************************************)
EXTENDS App, FiniteSetTheorems, TLAPS

-----------------------------------------------------------------------------
(* The inductive invariant *)

\* The spec that the reconciler works on, or would.
Cur == IF pc = "idle" THEN appCache.spec ELSE copy.spec

Working == pc \in {"build", "hpa", "deployment"}
Built   == pc \in {"hpa", "deployment"}

\* s is t, or a spec that was there before it.
Older(s, t) ==
    /\ s.generation <= t.generation /\ s.template <= t.template /\ s.build <= t.build
    /\ s.generation = t.generation => s = t
    /\ s.template = t.template =>
          s.services = t.services /\ s.source = t.source /\ s.image = t.image
    /\ s.build = t.build => s.source = t.source

Listed ==
    /\ \/ appWatch = <<>> /\ appCache = app
       \/ appWatch = <<app>>
    /\ Older(appCache.spec, app.spec)
    /\ pc # "idle" => Older(copy.spec, appCache.spec)

\* Every change of the users but a binding is a generation, and what they number
\* counts some of these.  No image that is pushed is one that a Build makes.
Counted ==
    /\ changes \in Seq(Change)
    /\ app.spec.generation + bindings = Len(changes)
    /\ \A o \in {app, appCache} :
          /\ 1 <= o.spec.template /\ o.spec.template <= o.spec.generation
          /\ 1 <= o.spec.build /\ o.spec.build <= o.spec.generation
    /\ pc # "idle" => 1 <= copy.spec.build /\ 1 <= copy.spec.template
    /\ \A o \in {app, appCache, copy} : o.spec.image <= 0

\* The Secret holds what was listed, and what an App shows was listed.
Environment ==
    /\ bindingsSeen <= bindings
    /\ secretSeen <= secret /\ secret <= bindingsSeen + 1
    /\ \A o \in {app, appCache, copy} :
          o.spec.services <= bindingsSeen /\ o.status.services <= bindingsSeen
    /\ Working => copy.spec.services + 1 <= secret
    /\ deploy.template # 0 => 1 <= secret
    /\ deploy.template = app.spec.template => app.spec.services + 1 <= secret

\* A finished Build stays as it is until it is collected, which leaves a later
\* one; none is ahead of the reconciler.
BuildInv(n) ==
    /\ build[n] # "none" => n <= Cur.build
    /\ build[n] = "gone" => \E m \in Number : m > n /\ build[m] # "none"
    /\ IsStatusFinal(buildSeen[n]) => build[n] \in {buildSeen[n], "gone"}

\* Nothing has an image of a later Build than the reconciler's, and only a
\* Build that succeeded has one.
ImageInv(x) ==
    /\ x <= Cur.build
    /\ x = app.spec.build /\ app.spec.source = "build" =>
          build[x] = "True" /\ buildSeen[x] = "True"

Images ==
    {deploy.image, deploySeen.image, copy.status.image, app.status.image,
     appCache.status.image}

\* What the run found out about its Build.
BuiltInv ==
    Built =>
        IF copy.spec.source = "image" THEN copy.status.image = copy.spec.image
        ELSE \/ copy.status.build = "True" /\ copy.status.image = copy.spec.build
             \/ copy.status.build = "False" /\ build[copy.spec.build] \in {"False", "gone"}

DeployInv ==
    /\ deploySeen.template <= deploy.template /\ deploy.template <= Cur.template
    /\ deploy.template = app.spec.template /\ app.spec.source = "image" =>
          deploy.image = app.spec.image
    /\ deploySeen.image = app.spec.build /\ app.spec.source = "build" =>
          deploy.image = app.spec.build

AllTrue(st) == Happy({st.env, st.build, st.hpa, st.deploy}) = "True"

\* The Deployment is the one that the spec asks for.
RolledOut ==
    /\ deploy.template = app.spec.template
    /\ deploy.image = IF app.spec.source = "image" THEN app.spec.image
                                                   ELSE app.spec.build

\* The autoscaler is, or a run is to come that makes it so.
Autoscaled == hpa = app.spec.autoscale \/ hpaSeen # hpa \/ queued

ReportInv ==
    /\ app.status.observed <= Cur.generation /\ appCache.status.observed <= Cur.generation
    /\ pc # "idle" => copy.status.observed = copy.spec.generation
    /\ AllTrue(app.status) /\ app.status.observed = app.spec.generation =>
          /\ RolledOut
          /\ Autoscaled \/ pc \in {"build", "hpa", "failed"}
    /\ pc = "failed" => ~AllTrue(copy.status)
    /\ pc = "deployment" /\ copy.spec.generation = app.spec.generation => Autoscaled
    /\ pc = "update" /\ AllTrue(copy.status)
          /\ copy.spec.generation = app.spec.generation => RolledOut /\ Autoscaled

IInv ==
    /\ TypeOK
    /\ pc = "idle" => copy = NoObject
    /\ Listed
    /\ Counted
    /\ Environment
    /\ \A n \in Number : BuildInv(n)
    /\ \A x \in Images : ImageInv(x)
    /\ BuiltInv
    /\ DeployInv
    /\ ReportInv
    /\ NewPodsHaveServices

-----------------------------------------------------------------------------
(* The numbers *)

(* Of the natural numbers of a set that has some there is a least one.      *)
LEMMA LeastNumber ==
    ASSUME NEW T \in SUBSET Nat, T # {}
    PROVE  \E x \in T : \A y \in T : x <= y
<1>1. IsWellFoundedOn(OpToRel(<, Nat), Nat)
  BY NatLessThanWellFounded
<1>2. \E x \in T : \A y \in T : ~(<<y, x>> \in OpToRel(<, Nat))
  BY <1>1, WFMin
<1>3. ASSUME NEW x \in T, NEW y \in T, ~(<<y, x>> \in OpToRel(<, Nat))
      PROVE  x <= y
  BY <1>3 DEF OpToRel
<1> QED  BY <1>2, <1>3

(* Finitely many numbers, listed by a function, have a bound: a least k for *)
(* which the first k had none would be one more than one for which they do. *)
LEMMA ListBounded ==
    ASSUME NEW n \in Nat, NEW f \in [1..n -> Nat]
    PROVE  \E b \in Nat : \A i \in 1..n : f[i] <= b
<1> DEFINE Good(k) == \E b \in Nat : \A i \in 1..n : i <= k => f[i] <= b
           Bad == {k \in 0..n : ~Good(k)}
<1>1. CASE Bad = {}
  <2>1. n \in 0..n
    OBVIOUS
  <2>2. Good(n)
    BY <1>1, <2>1
  <2> QED  BY <2>2
<1>2. CASE Bad # {}
  <2> HIDE DEF Good
  <2>0. Bad \in SUBSET Nat
    OBVIOUS
  <2> HIDE DEF Bad
  <2>1. PICK k \in Bad : \A j \in Bad : k <= j
    BY <1>2, <2>0, LeastNumber
  <2> USE DEF Bad
  <2>2. k \in 0..n /\ ~Good(k)
    OBVIOUS
  <2>3. k # 0
    <3>1. \A i \in 1..n : ~(i <= 0)
      OBVIOUS
    <3>2. Good(0)
      BY <3>1 DEF Good
    <3> QED  BY <2>2, <3>2
  <2>4. Good(k - 1)
    <3>1. k - 1 \in 0..n /\ ~(k <= k - 1)
      BY <2>2, <2>3
    <3> QED  BY <2>1, <3>1
  <2>5. PICK b \in Nat : \A i \in 1..n : i <= k - 1 => f[i] <= b
    BY <2>4 DEF Good
  <2>6. k \in 1..n /\ f[k] \in Nat
    <3>1. k \in 1..n
      BY <2>2, <2>3
    <3> QED  BY <3>1
  <2> DEFINE c == IF f[k] <= b THEN b ELSE f[k]
  <2>7. c \in Nat /\ f[k] <= c /\ b <= c
    <3>1. \A p, q \in Nat : LET d == IF p <= q THEN q ELSE p
                            IN  d \in Nat /\ p <= d /\ q <= d
      OBVIOUS
    <3> QED  BY <2>6, <3>1
  <2> HIDE DEF c
  <2>8. ASSUME NEW i \in 1..n, i <= k
        PROVE  f[i] <= c
    <3>1. CASE i = k
      BY <3>1, <2>7
    <3>2. CASE i # k
      <4>1. i <= k - 1
        BY <3>2, <2>8, <2>2
      <4>2. f[i] <= b /\ f[i] \in Nat
        BY <4>1, <2>5
      <4> QED  BY <4>2, <2>7
    <3> QED  BY <3>1, <3>2
  <2>9. Good(k)
    BY <2>7, <2>8 DEF Good
  <2> QED  BY <2>2, <2>9
<1> QED  BY <1>1, <1>2

(* No script is longer than the numbers that the model uses.                *)
LEMMA NumberBounds ==
    /\ Max({Len(sc) : sc \in Scripts}) \in Nat
    /\ \A sc \in Scripts : Len(sc) <= Max({Len(s) : s \in Scripts})
<1> DEFINE L == {Len(sc) : sc \in Scripts}
<1>1. L \in SUBSET Nat /\ L # {}
  BY AppAssumption
<1>2. PICK n \in Nat : ExistsSurjection(1..n, Scripts)
  BY AppAssumption, FS_NatSurjection
<1>3. PICK g \in [1..n -> Scripts] : \A sc \in Scripts : \E i \in 1..n : g[i] = sc
  BY <1>2 DEF ExistsSurjection, Surjection
<1> DEFINE f == [i \in 1..n |-> Len(g[i])]
<1>4. f \in [1..n -> Nat]
  BY <1>3, AppAssumption
<1> HIDE DEF f
<1>5. PICK b \in Nat : \A i \in 1..n : f[i] <= b
  BY <1>4, ListBounded
<1> DEFINE U == {k \in Nat : \A y \in L : y <= k}
<1>6. b \in U
  <2>1. ASSUME NEW y \in L
        PROVE  y <= b
    <3>1. PICK sc \in Scripts : y = Len(sc)
      OBVIOUS
    <3>2. PICK i \in 1..n : g[i] = sc
      BY <1>3
    <3> QED  BY <3>1, <3>2, <1>5 DEF f
  <2> QED  BY <2>1
<1>7. PICK m \in U : \A k \in U : m <= k
  BY <1>6, LeastNumber
<1>8. m \in L
  <2> SUFFICES ASSUME m \notin L
               PROVE  FALSE
    OBVIOUS
  <2>1. m # 0
    BY <1>1, <1>7
  <2>2. ASSUME NEW y \in L
        PROVE  y <= m - 1
    <3>1. y \in Nat /\ m \in Nat /\ y <= m /\ y # m
      BY <1>1, <1>7
    <3> QED  BY <3>1
  <2>3. m - 1 \in U /\ ~(m <= m - 1)
    BY <2>1, <2>2, <1>7
  <2> QED  BY <2>3, <1>7
<1>9. m \in L /\ \A y \in L : m >= y
  BY <1>1, <1>7, <1>8
<1>10. Max(L) \in L /\ \A y \in L : Max(L) >= y
  BY <1>9 DEF Max
<1>11. Max(L) \in Nat
  BY <1>1, <1>10
<1>12. \A sc \in Scripts : Len(sc) <= Max(L)
  <2> TAKE sc \in Scripts
  <2>1. Len(sc) \in L /\ Len(sc) \in Nat
    BY AppAssumption
  <2> QED  BY <2>1, <1>10, <1>11
<1> QED  BY <1>11, <1>12

\* The largest number.
Largest == Max({Len(sc) : sc \in Scripts})

(* The sets of numbers are intervals.                                       *)
LEMMA Numbers ==
    /\ Largest \in Nat /\ Number = 1..Largest /\ Number0 = 0..Largest
    /\ \A x : x \in Image <=> x \in Int /\ -Largest <= x /\ x <= Largest
<1>1. Largest \in Nat /\ Number = 1..Largest
  BY NumberBounds DEF Largest, Number
<1>2. Number0 = 0..Largest
  BY <1>1 DEF Number0
<1>3. ASSUME NEW x, x \in Image
      PROVE  x \in Int /\ -Largest <= x /\ x <= Largest
  BY <1>1, <1>2, <1>3 DEF Image
<1>4. ASSUME NEW x, x \in Int, -Largest <= x, x <= Largest
      PROVE  x \in Image
  <2>1. CASE x >= 0
    BY <1>1, <1>2, <1>4, <2>1 DEF Image
  <2>2. CASE x < 0
    <3>1. -x \in Number /\ x = -(-x)
      BY <1>1, <1>4, <2>2
    <3> QED  BY <3>1 DEF Image
  <2> QED  BY <1>4, <2>1, <2>2
<1> QED  BY <1>1, <1>2, <1>3, <1>4

(* What users did so far is within a script, so it is counted by a Number.  *)
LEMMA ChangesBounded ==
    ASSUME changes \in Seq(Change), NEW sc \in Scripts, IsPrefix(changes, sc)
    PROVE  Len(changes) \in Nat /\ Len(changes) <= Largest
<1>1. Len(changes) <= Len(sc) /\ Len(changes) \in Nat /\ Len(sc) \in Nat
  BY AppAssumption DEF IsPrefix
<1>2. Len(sc) <= Largest /\ Largest \in Nat
  BY NumberBounds DEF Largest
<1> QED  BY <1>1, <1>2

(* The fields of a spec.                                                    *)
LEMMA SpecFields ==
    ASSUME NEW sp \in AppSpec
    PROVE  /\ {sp.generation, sp.template, sp.build, sp.package, sp.services}
                 \subseteq 0..Largest
           /\ sp.image \in Int /\ sp.source \in Push /\ sp.autoscale \in BOOLEAN
BY Numbers DEF AppSpec

(* The fields of a status.                                                  *)
LEMMA StatusFields ==
    ASSUME NEW st \in Status
    PROVE  /\ {st.observed, st.services} \subseteq 0..Largest
           /\ {st.env, st.build, st.hpa, st.deploy} \subseteq ConditionStatus
           /\ {st.image, st.start} \subseteq Int
BY Numbers DEF Status

(* The parts of an App.                                                     *)
LEMMA ObjectFields ==
    ASSUME NEW o \in Object
    PROVE  /\ o.spec \in AppSpec /\ o.status \in Status
           /\ \A st \in Status : /\ [o EXCEPT !.status = st] \in Object
                                 /\ [o EXCEPT !.status = st].spec = o.spec
                                 /\ [o EXCEPT !.status = st].status = st
           /\ \A sp \in AppSpec : /\ [o EXCEPT !.spec = sp] \in Object
                                  /\ [o EXCEPT !.spec = sp].spec = sp
                                  /\ [o EXCEPT !.spec = sp].status = o.status
BY DEF Object

(* The fields of a Deployment.                                              *)
LEMMA DeploymentFields ==
    ASSUME NEW d \in Deployment
    PROVE  /\ {d.template, d.services} \subseteq 0..Largest
           /\ d.image \in Int /\ d.state \in ConditionStatus
BY Numbers DEF Deployment

(* What there is before there is anything.                                  *)
LEMMA NothingTyped ==
    /\ NoSpec \in AppSpec /\ NoStatus \in Status /\ NoObject \in Object
    /\ NoDeployment \in Deployment
<1>1. 0 \in Number0 /\ 0 \in Image
  BY Numbers DEF Number0
<1> QED
  BY <1>1 DEF NoSpec, NoStatus, NoObject, NoDeployment, AppSpec, Status, Object,
              Deployment, Push, ConditionStatus

(* Specs follow one another.                                                *)
LEMMA OlderTransitive ==
    ASSUME NEW s \in AppSpec, NEW t \in AppSpec, NEW u \in AppSpec,
           Older(s, t), Older(t, u)
    PROVE  Older(s, u)
<1>1. /\ {s.generation, s.template, s.build} \subseteq Nat
      /\ {t.generation, t.template, t.build} \subseteq Nat
      /\ {u.generation, u.template, u.build} \subseteq Nat
  BY SpecFields, Numbers
<1> QED  BY <1>1 DEF Older

(* A spec is not older than itself in any part.                             *)
LEMMA OlderReflexive ==
    ASSUME NEW s \in AppSpec
    PROVE  Older(s, s)
BY SpecFields, Numbers DEF Older

(* The reconciler's spec is one that the App had.                           *)
LEMMA CurOlder ==
    ASSUME IInv
    PROVE  Cur \in AppSpec /\ Older(Cur, app.spec) /\ Older(Cur, appCache.spec)
<1>1. app.spec \in AppSpec /\ appCache.spec \in AppSpec /\ copy.spec \in AppSpec
  BY ObjectFields DEF IInv, TypeOK
<1> QED  BY <1>1, OlderTransitive, OlderReflexive DEF IInv, Listed, Cur

(* A step that changes neither the App, nor a run of its reconciler, nor a  *)
(* part of the App, is of no consequence.                                   *)
LEMMA Untouched ==
    ASSUME IInv, TypeOK',
           UNCHANGED <<appVars, queued, recVars, secVars, build, buildSeen, hpaVars,
                       depVars, changes>>
    PROVE  IInv'
<1> USE DEF appVars, recVars, secVars, hpaVars, depVars
<1>1. Listed' /\ Counted' /\ (pc = "idle" => copy = NoObject)'
  BY DEF IInv, Listed, Counted
<1>2. Environment' /\ BuiltInv' /\ NewPodsHaveServices'
  BY DEF IInv, Environment, BuiltInv, Working, Built, NewPodsHaveServices
<1>3. Cur' = Cur
  BY DEF Cur
<1>4. \A n \in Number : BuildInv(n)'
  BY <1>3 DEF IInv, BuildInv
<1>5. \A x \in Images' : ImageInv(x)'
  BY <1>3 DEF IInv, Images, ImageInv
<1>6. DeployInv' /\ ReportInv'
  BY <1>3 DEF IInv, DeployInv, ReportInv, RolledOut, Autoscaled
<1> QED  BY <1>1, <1>2, <1>4, <1>5, <1>6 DEF IInv

-----------------------------------------------------------------------------
(* What runs the parts, and the start commands *)

(* Source is uploaded.                                                      *)
LEMMA UploadStep ==
    ASSUME IInv, NEW n \in Number, Upload(n)
    PROVE  IInv'
<1>1. TypeOK'
  BY DEF IInv, TypeOK, Upload, appVars, recVars, secVars, hpaVars, depVars
<1> QED  BY <1>1, Untouched DEF Upload

(* A TaskRun is made.                                                       *)
LEMMA BStartStep ==
    ASSUME IInv, NEW n \in Number, BStart(n)
    PROVE  IInv'
<1>1. TypeOK'
  BY DEF IInv, TypeOK, BStart, RunState, appVars, recVars, secVars, hpaVars, depVars
<1> QED  BY <1>1, Untouched DEF BStart

(* A TaskRun ends.                                                          *)
LEMMA RunEndsStep ==
    ASSUME IInv, NEW n \in Number, RunEnds(n)
    PROVE  IInv'
<1>1. TypeOK'
  BY DEF IInv, TypeOK, RunEnds, RunState, appVars, recVars, secVars, hpaVars, depVars
<1> QED  BY <1>1, Untouched DEF RunEnds

(* The start command reconciler never writes what it looked up: it compares *)
(* the same two start commands twice, once for each outcome.                *)
LEMMA SReconcileStep ==
    ASSUME IInv, SReconcile
    PROVE  IInv' /\ UNCHANGED vars
<1>1. UNCHANGED appVars
  BY DEF SReconcile
<1>2. UNCHANGED vars
  BY <1>1 DEF SReconcile, vars
<1>3. TypeOK'
  BY <1>2 DEF IInv, TypeOK, vars, appVars, recVars, secVars, buildVars, hpaVars, depVars
<1>4. UNCHANGED <<appVars, queued, recVars, secVars, build, buildSeen, hpaVars,
                  depVars, changes>>
  BY <1>2 DEF vars, buildVars
<1> QED  BY <1>2, <1>3, <1>4, Untouched

-----------------------------------------------------------------------------
(* The informers *)

(* The Secret is delivered.                                                 *)
LEMMA DeliverSecretStep ==
    ASSUME IInv, DeliverSecret
    PROVE  IInv'
<1> USE DEF DeliverSecret, appVars, recVars, buildVars, hpaVars, depVars
<1>1. TypeOK'
  BY DEF IInv, TypeOK
<1>2. Listed' /\ Counted' /\ (pc = "idle" => copy = NoObject)'
  BY DEF IInv, Listed, Counted
<1>3. Environment'
  <2>1. secret \in Nat
    BY Numbers DEF IInv, TypeOK
  <2> QED  BY <2>1 DEF IInv, Environment, Working
<1>4. BuiltInv' /\ NewPodsHaveServices'
  BY DEF IInv, BuiltInv, Built, NewPodsHaveServices
<1>5. Cur' = Cur
  BY DEF Cur
<1>6. \A n \in Number : BuildInv(n)'
  BY <1>5 DEF IInv, BuildInv
<1>7. \A x \in Images' : ImageInv(x)'
  BY <1>5 DEF IInv, Images, ImageInv
<1>8. DeployInv' /\ ReportInv'
  BY <1>5 DEF IInv, DeployInv, ReportInv, RolledOut, Autoscaled
<1> QED  BY <1>1, <1>2, <1>3, <1>4, <1>6, <1>7, <1>8 DEF IInv

(* More services are listed.                                                *)
LEMMA DeliverBindingStep ==
    ASSUME IInv, DeliverBinding
    PROVE  IInv'
<1> USE DEF DeliverBinding, appVars, recVars, buildVars, hpaVars, depVars
<1>1. TypeOK'
  BY DEF IInv, TypeOK
<1>2. Listed' /\ Counted' /\ (pc = "idle" => copy = NoObject)'
  BY DEF IInv, Listed, Counted
<1>3. Environment'
  <2>1. {bindings, bindingsSeen, secret, secretSeen} \subseteq Nat
    BY Numbers DEF IInv, TypeOK
  <2>2. ASSUME NEW o \in {app, appCache, copy}
        PROVE  o.spec.services \in Nat /\ o.status.services \in Nat
    <3>1. o \in Object
      BY DEF IInv, TypeOK
    <3> QED  BY <3>1, ObjectFields, SpecFields, StatusFields, Numbers
  <2>3. bindingsSeen <= bindings /\ bindingsSeen' = bindings
    BY DEF IInv, Environment
  <2>4. ASSUME NEW o \in {app, appCache, copy}
        PROVE  o.spec.services <= bindingsSeen' /\ o.status.services <= bindingsSeen'
    BY <2>1, <2>2, <2>3, <2>4 DEF IInv, Environment
  <2>5. secret <= bindings + 1
    BY <2>1, <2>3 DEF IInv, Environment
  <2> QED  BY <2>1, <2>3, <2>4, <2>5 DEF IInv, Environment, Working
<1>4. BuiltInv' /\ NewPodsHaveServices'
  BY DEF IInv, BuiltInv, Built, NewPodsHaveServices
<1>5. Cur' = Cur
  BY DEF Cur
<1>6. \A n \in Number : BuildInv(n)'
  BY <1>5 DEF IInv, BuildInv
<1>7. \A x \in Images' : ImageInv(x)'
  BY <1>5 DEF IInv, Images, ImageInv
<1>8. DeployInv' /\ ReportInv'
  BY <1>5 DEF IInv, DeployInv, ReportInv, RolledOut, Autoscaled
<1> QED  BY <1>1, <1>2, <1>3, <1>4, <1>6, <1>7, <1>8 DEF IInv

(* The autoscaler is delivered: that starts a run.                          *)
LEMMA DeliverAutoscalerStep ==
    ASSUME IInv, DeliverAutoscaler
    PROVE  IInv'
<1> USE DEF DeliverAutoscaler, appVars, recVars, secVars, buildVars, depVars
<1>1. TypeOK'
  BY DEF IInv, TypeOK
<1>2. Listed' /\ Counted' /\ (pc = "idle" => copy = NoObject)'
  BY DEF IInv, Listed, Counted
<1>3. Environment' /\ BuiltInv' /\ NewPodsHaveServices'
  BY DEF IInv, Environment, BuiltInv, Working, Built, NewPodsHaveServices
<1>4. Cur' = Cur
  BY DEF Cur
<1>5. \A n \in Number : BuildInv(n)'
  BY <1>4 DEF IInv, BuildInv
<1>6. \A x \in Images' : ImageInv(x)'
  BY <1>4 DEF IInv, Images, ImageInv
<1>7. DeployInv'
  BY <1>4 DEF IInv, DeployInv
<1>8. ReportInv'
  BY <1>4 DEF IInv, ReportInv, RolledOut, Autoscaled
<1> QED  BY <1>1, <1>2, <1>3, <1>5, <1>6, <1>7, <1>8 DEF IInv

(* The Deployment is delivered.                                             *)
LEMMA DeliverDeploymentStep ==
    ASSUME IInv, DeliverDeployment
    PROVE  IInv'
<1> USE DEF DeliverDeployment, appVars, recVars, secVars, buildVars, hpaVars
<1>1. TypeOK'
  BY DEF IInv, TypeOK
<1>2. Listed' /\ Counted' /\ (pc = "idle" => copy = NoObject)'
  BY DEF IInv, Listed, Counted
<1>3. Environment' /\ BuiltInv' /\ NewPodsHaveServices'
  BY DEF IInv, Environment, BuiltInv, Working, Built, NewPodsHaveServices
<1>4. Cur' = Cur
  BY DEF Cur
<1>5. \A n \in Number : BuildInv(n)'
  BY <1>4 DEF IInv, BuildInv
<1>6. \A x \in Images' : ImageInv(x)'
  BY <1>4 DEF IInv, Images, ImageInv
<1>7. DeployInv'
  <2>1. deploy.template \in Nat
    BY DeploymentFields, Numbers DEF IInv, TypeOK
  <2> QED  BY <1>4, <2>1 DEF IInv, DeployInv
<1>8. ReportInv'
  BY <1>4 DEF IInv, ReportInv, RolledOut, Autoscaled
<1> QED  BY <1>1, <1>2, <1>3, <1>5, <1>6, <1>7, <1>8 DEF IInv

(* A Build is delivered.                                                    *)
LEMMA DeliverBuildStep ==
    ASSUME IInv, NEW n \in Number, DeliverBuild(n)
    PROVE  IInv'
<1> USE DEF DeliverBuild, appVars, recVars, secVars, hpaVars, depVars
<1>1. TypeOK'
  BY DEF IInv, TypeOK
<1>2. Listed' /\ Counted' /\ (pc = "idle" => copy = NoObject)'
  BY DEF IInv, Listed, Counted
<1>3. Environment' /\ BuiltInv' /\ NewPodsHaveServices'
  BY DEF IInv, Environment, BuiltInv, Working, Built, NewPodsHaveServices
<1>4. Cur' = Cur
  BY DEF Cur
<1>5. \A m \in Number : BuildInv(m)'
  BY <1>4 DEF IInv, TypeOK, BuildInv
<1>6. \A x \in Images' : ImageInv(x)'
  <2>1. app.spec.build \in Number
    <3>1. app.spec.build \in 0..Largest /\ 1 <= app.spec.build
      BY ObjectFields, SpecFields DEF IInv, TypeOK, Counted
    <3> QED  BY <3>1, Numbers
  <2> QED  BY <1>4, <2>1 DEF IInv, TypeOK, Images, ImageInv
<1>7. DeployInv' /\ ReportInv'
  BY <1>4 DEF IInv, DeployInv, ReportInv, RolledOut, Autoscaled
<1> QED  BY <1>1, <1>2, <1>3, <1>5, <1>6, <1>7 DEF IInv

(* An App that is delivered takes the reconciler no further than users got. *)
LEMMA DeliverAppStep ==
    ASSUME IInv, DeliverApp
    PROVE  IInv'
<1> USE DEF DeliverApp, recVars, secVars, buildVars, hpaVars, depVars
<1>1. appWatch = <<app>> /\ appCache' = app /\ appWatch' = <<>>
  BY DEF IInv, Listed
<1>2. TypeOK'
  BY <1>1 DEF IInv, TypeOK
<1>3. app.spec \in AppSpec /\ appCache.spec \in AppSpec /\ copy.spec \in AppSpec
  BY ObjectFields DEF IInv, TypeOK
<1>4. Listed'
  BY <1>1, <1>3, OlderTransitive, OlderReflexive DEF IInv, Listed
<1>5. Counted' /\ (pc = "idle" => copy = NoObject)'
  BY <1>1 DEF IInv, Counted
<1>6. Environment' /\ BuiltInv' /\ NewPodsHaveServices'
  BY <1>1 DEF IInv, Environment, BuiltInv, Working, Built, NewPodsHaveServices
<1>7. Cur' \in AppSpec /\ Older(Cur, Cur') /\ Cur \in AppSpec
  BY <1>1, <1>3, CurOlder, OlderReflexive DEF Cur
<1>8. /\ Cur.generation <= Cur'.generation /\ Cur.template <= Cur'.template
      /\ Cur.build <= Cur'.build
      /\ {Cur.generation, Cur.template, Cur.build} \subseteq Nat
      /\ {Cur'.generation, Cur'.template, Cur'.build} \subseteq Nat
  BY <1>7, SpecFields, Numbers DEF Older
<1>9. \A n \in Number : BuildInv(n)'
  <2> TAKE n \in Number
  <2>1. n \in Nat
    BY Numbers
  <2> QED  BY <1>8, <2>1 DEF IInv, BuildInv
<1>10. \A x \in Images' : ImageInv(x)'
  <2> TAKE x \in Images'
  <2>1. x \in Images
    BY <1>1 DEF Images
  <2>2. x \in Int
    BY <2>1, ObjectFields, StatusFields, DeploymentFields DEF IInv, TypeOK, Images
  <2> QED  BY <1>8, <2>1, <2>2 DEF IInv, ImageInv
<1>11. DeployInv'
  <2>1. deploy.template \in Nat
    BY DeploymentFields, Numbers DEF IInv, TypeOK
  <2> QED  BY <1>8, <2>1 DEF IInv, DeployInv
<1>12. ReportInv'
  <2>1. app.status.observed \in Nat
    BY ObjectFields, StatusFields, Numbers DEF IInv, TypeOK
  <2> QED  BY <1>1, <1>8, <2>1 DEF IInv, ReportInv, RolledOut, Autoscaled
<1> QED  BY <1>2, <1>4, <1>5, <1>6, <1>9, <1>10, <1>11, <1>12 DEF IInv

-----------------------------------------------------------------------------
(* Builds *)

(* The App's Build has a number.                                            *)
LEMMA BuildNumbered ==
    ASSUME IInv
    PROVE  app.spec.build \in Number /\ (pc # "idle" => copy.spec.build \in Number)
<1>1. app.spec.build \in 0..Largest /\ copy.spec.build \in 0..Largest
  BY ObjectFields, SpecFields DEF IInv, TypeOK
<1> QED  BY <1>1, Numbers DEF IInv, Counted

(* A Build that was pending ends.                                           *)
LEMMA BuildEnds ==
    ASSUME IInv, TypeOK', NEW n \in Number, NEW s \in {"True", "False"},
           build[n] = "Unknown", buildSeen[n] = "Unknown",
           build' = [build EXCEPT ![n] = s],
           UNCHANGED <<appVars, queued, recVars, secVars, buildSeen, hpaVars, depVars,
                       changes>>
    PROVE  IInv'
<1> USE DEF appVars, recVars, secVars, hpaVars, depVars
<1>1. Listed' /\ Counted' /\ (pc = "idle" => copy = NoObject)'
  BY DEF IInv, Listed, Counted
<1>2. Environment' /\ NewPodsHaveServices'
  BY DEF IInv, Environment, Working, NewPodsHaveServices
<1>3. BuiltInv'
  BY BuildNumbered DEF IInv, TypeOK, BuiltInv, Built
<1>4. Cur' = Cur
  BY DEF Cur
<1>5. \A m \in Number : BuildInv(m)'
  BY <1>4 DEF IInv, TypeOK, BuildInv, IsStatusFinal
<1>6. \A x \in Images' : ImageInv(x)'
  BY <1>4, BuildNumbered DEF IInv, TypeOK, Images, ImageInv
<1>7. DeployInv' /\ ReportInv'
  BY <1>4 DEF IInv, DeployInv, ReportInv, RolledOut, Autoscaled
<1> QED  BY <1>1, <1>2, <1>3, <1>5, <1>6, <1>7 DEF IInv

(* The TaskRun's outcome becomes the Build's.                               *)
LEMMA BFinishStep ==
    ASSUME IInv, NEW n \in Number, BFinish(n)
    PROVE  IInv'
<1>1. run[n] \in {"True", "False"}
  BY DEF BFinish, IsStatusFinal
<1>2. TypeOK'
  BY <1>1 DEF BFinish, IInv, TypeOK, BuildState, appVars, recVars, secVars, hpaVars,
              depVars
<1> QED  BY <1>1, <1>2, BuildEnds DEF BFinish

(* The Build reconciler fails.                                              *)
LEMMA BFailsStep ==
    ASSUME IInv, NEW n \in Number, BFails(n)
    PROVE  IInv'
<1>1. MarkReconciliationError("api") = "False"
  BY DEF MarkReconciliationError
<1>2. faults' \in 0..MaxFaults
  BY AppAssumption DEF BFails, Fault, IInv, TypeOK
<1>3. TypeOK'
  BY <1>1, <1>2 DEF BFails, IInv, TypeOK, BuildState, appVars, recVars, secVars,
                    hpaVars, depVars
<1> QED  BY <1>1, <1>3, BuildEnds DEF BFails

(* What is collected leaves a later Build.                                  *)
LEMMA CollectedLeaves ==
    ASSUME IInv, NEW n \in Number, GCBuild(n)
    PROVE  \E m \in Number : m > n /\ build[m] # "none"
<1> DEFINE final == {k \in {m \in Number : Exists(build[m])} : IsStatusFinal(build[k])}
           later == {m \in final : m > n}
<1>1. Cardinality(later) >= AtLeastOne(Retained)
  BY DEF GCBuild, buildsToGC
<1>2. later # {}
  <2> SUFFICES ASSUME later = {}
               PROVE  FALSE
    OBVIOUS
  <2>1. Cardinality(later) = 0
    BY FS_EmptySet
  <2> HIDE DEF later
  <2> QED  BY <1>1, <2>1, AppAssumption DEF AtLeastOne
<1> QED  BY <1>2 DEF Exists

(* Builds are collected.                                                    *)
LEMMA GCBuildStep ==
    ASSUME IInv, NEW n \in Number, GCBuild(n)
    PROVE  IInv'
<1> USE DEF appVars, recVars, secVars, hpaVars, depVars
<1>1. build' = [build EXCEPT ![n] = "gone"]
  BY DEF GCBuild
<1>2. UNCHANGED <<appVars, queued, recVars, secVars, buildSeen, package, source, run,
                  hpaVars, depVars, changes, faults>>
  BY DEF GCBuild
<1>3. TypeOK'
  BY <1>1, <1>2 DEF IInv, TypeOK, BuildState
<1>4. Listed' /\ Counted' /\ (pc = "idle" => copy = NoObject)'
  BY <1>2 DEF IInv, Listed, Counted
<1>5. Environment' /\ NewPodsHaveServices'
  BY <1>2 DEF IInv, Environment, Working, NewPodsHaveServices
<1>6. BuiltInv'
  BY <1>1, <1>2, BuildNumbered DEF IInv, TypeOK, BuiltInv, Built
<1>7. Cur' = Cur
  BY <1>2 DEF Cur
<1>8. PICK k \in Number : k > n /\ build[k] # "none"
  BY CollectedLeaves
<1>9. build[n] # "none"
  BY DEF GCBuild, buildsToGC, IsStatusFinal
<1>10. \A m \in Number : build[m] # "none" => build'[m] # "none"
  BY <1>1 DEF IInv, TypeOK
<1>11. \A m \in Number : build'[m] # "none" => build[m] # "none"
  BY <1>1, <1>9 DEF IInv, TypeOK
<1>12. \A m \in Number : BuildInv(m)'
  <2> TAKE m \in Number
  <2>1. build'[m] # "none" => m <= Cur'.build
    BY <1>7, <1>11 DEF IInv, BuildInv
  <2>2. build'[m] = "gone" => \E j \in Number : j > m /\ build'[j] # "none"
    BY <1>1, <1>8, <1>10 DEF IInv, TypeOK, BuildInv
  <2>3. IsStatusFinal(buildSeen'[m]) => build'[m] \in {buildSeen'[m], "gone"}
    BY <1>1, <1>2 DEF IInv, TypeOK, BuildInv
  <2> QED  BY <2>1, <2>2, <2>3 DEF BuildInv
<1>13. app.spec.build # n
  <2>1. k <= Cur.build
    BY <1>8 DEF IInv, BuildInv
  <2>2. Cur.build <= app.spec.build /\ Cur.build \in Nat /\ app.spec.build \in Nat
    BY CurOlder, SpecFields, BuildNumbered, Numbers DEF Older
  <2>3. k \in Nat /\ n \in Nat
    BY Numbers
  <2> QED  BY <1>8, <2>1, <2>2, <2>3
<1>14. \A x \in Images' : ImageInv(x)'
  BY <1>1, <1>2, <1>7, <1>13, BuildNumbered DEF IInv, TypeOK, Images, ImageInv
<1>15. DeployInv' /\ ReportInv'
  BY <1>2, <1>7 DEF IInv, DeployInv, ReportInv, RolledOut, Autoscaled
<1> QED  BY <1>3, <1>4, <1>5, <1>6, <1>12, <1>14, <1>15 DEF IInv

-----------------------------------------------------------------------------
(* Users *)

(* Users follow a script, and what they do is counted.                      *)
LEMMA DoesCounted ==
    ASSUME IInv, NEW change \in Change, Does(change)
    PROVE  /\ changes' \in Seq(Change) /\ Len(changes') = Len(changes) + 1
           /\ Len(changes) \in Nat /\ Len(changes) + 1 <= Largest
           /\ \E sc \in Scripts : IsPrefix(changes', sc)
<1>1. changes \in Seq(Change)
  BY DEF IInv, Counted
<1>2. changes' = Append(changes, change)
  BY DEF Does
<1>3. changes' \in Seq(Change) /\ Len(changes') = Len(changes) + 1 /\ Len(changes) \in Nat
  BY <1>1, <1>2
<1>4. PICK sc \in Scripts : IsPrefix(changes', sc)
  BY <1>2 DEF Does
<1>5. Len(changes') <= Len(sc) /\ Len(sc) \in Nat
  BY <1>4, AppAssumption DEF IsPrefix
<1>6. Len(sc) <= Largest /\ Largest \in Nat
  BY NumberBounds DEF Largest
<1> QED  BY <1>3, <1>4, <1>5, <1>6

(* Another spec sp is stored: a later one, which asks for new Pods when it  *)
(* changes what they are made from, with services that are listed.          *)
LEMMA SpecChanges ==
    ASSUME IInv, NEW change \in Change, Does(change), NEW sp \in AppSpec,
           sp.generation = app.spec.generation + 1,
           sp.template \in {app.spec.template, app.spec.template + 1},
           sp.build \in {app.spec.build, app.spec.build + 1},
           sp.template = app.spec.template =>
              /\ sp.services = app.spec.services /\ sp.source = app.spec.source
              /\ sp.image = app.spec.image,
           sp.build = app.spec.build => sp.source = app.spec.source,
           sp.services <= bindingsSeen, sp.image <= 0,
           Store([app EXCEPT !.spec = sp]),
           UNCHANGED <<queued, recVars, secVars, buildVars, hpaVars, depVars, faults>>
    PROVE  IInv'
<1> USE DEF recVars, secVars, buildVars, hpaVars, depVars
<1> DEFINE old == app.spec
<1>1. /\ app \in Object /\ old \in AppSpec /\ appCache \in Object /\ copy \in Object
      /\ appCache.spec \in AppSpec /\ copy.spec \in AppSpec
  BY ObjectFields DEF IInv, TypeOK
<1>2. /\ app' \in Object /\ app'.spec = sp /\ app'.status = app.status
      /\ appWatch' = <<app'>> /\ appCache' = appCache /\ appWatch = <<>>
  BY <1>1, ObjectFields DEF Store
<1>3. appCache = app
  BY <1>2 DEF IInv, Listed
<1>4. /\ {old.generation, old.template, old.build} \subseteq Nat
      /\ {sp.generation, sp.template, sp.build} \subseteq Nat
  BY <1>1, SpecFields, Numbers
<1>5. TypeOK'
  <2>1. \E sc \in Scripts : IsPrefix(changes', sc)
    BY DoesCounted
  <2>2. appWatch' \in Seq(Object) /\ Len(appWatch') <= 1
    BY <1>2
  <2> QED  BY <1>2, <2>1, <2>2 DEF IInv, TypeOK
<1>6. Older(old, sp)
  BY <1>4 DEF Older
<1>7. Listed'
  BY <1>2, <1>3, <1>6 DEF IInv, Listed
<1>8. Counted'
  <2>1. changes' \in Seq(Change) /\ Len(changes') = Len(changes) + 1
        /\ Len(changes) \in Nat
    BY DoesCounted
  <2>2. bindings \in Nat
    BY Numbers DEF IInv, TypeOK
  <2>3. sp.generation + bindings = Len(changes')
    <3>1. old.generation + bindings = Len(changes)
      BY DEF IInv, Counted
    <3>2. \A g, k, l \in Nat : g + k = l => (g + 1) + k = l + 1
      OBVIOUS
    <3> QED  BY <1>4, <2>1, <2>2, <3>1, <3>2
  <2>4. /\ 1 <= sp.template /\ sp.template <= sp.generation
        /\ 1 <= sp.build /\ sp.build <= sp.generation
    <3>1. /\ 1 <= old.template /\ old.template <= old.generation
          /\ 1 <= old.build /\ old.build <= old.generation
      BY DEF IInv, Counted
    <3>2. \A g, a, b \in Nat :
             1 <= a /\ a <= g /\ b \in {a, a + 1} => 1 <= b /\ b <= g + 1
      OBVIOUS
    <3> QED  BY <1>4, <3>1, <3>2
  <2> QED  BY <1>2, <2>1, <2>3, <2>4 DEF IInv, Counted
<1>9. (pc = "idle" => copy = NoObject)'
  BY DEF IInv
<1>10. Cur' = Cur
  BY <1>2 DEF Cur
<1>11. /\ Cur.generation <= old.generation /\ Cur.template <= old.template
       /\ Cur.build <= old.build
       /\ {Cur.generation, Cur.template, Cur.build} \subseteq Nat
  BY CurOlder, SpecFields, Numbers DEF Older
<1>12. deploy.template <= Cur.template /\ deploy.template \in Nat
  BY DeploymentFields, Numbers DEF IInv, TypeOK, DeployInv
<1>13. deploy.template = sp.template =>
          /\ deploy.template = old.template /\ sp.services = old.services
          /\ sp.source = old.source /\ sp.image = old.image
  BY <1>4, <1>11, <1>12
<1>14. Environment'
  BY <1>2, <1>3, <1>13 DEF IInv, Environment, Working
<1>15. BuiltInv'
  BY DEF IInv, BuiltInv, Built
<1>16. NewPodsHaveServices'
  BY <1>2, <1>13 DEF IInv, NewPodsHaveServices
<1>17. \A n \in Number : BuildInv(n)'
  BY <1>10 DEF IInv, BuildInv
<1>18. ASSUME NEW x \in Images'
       PROVE  ImageInv(x)' /\ (x = sp.build => sp.build = old.build /\ sp.source = old.source)
  <2>1. x \in Images
    BY <1>2 DEF Images
  <2>2. x \in Int
    BY <2>1, ObjectFields, StatusFields, DeploymentFields DEF IInv, TypeOK, Images
  <2>3. x <= Cur.build
    BY <2>1 DEF IInv, ImageInv
  <2>4. x = sp.build => sp.build = old.build
    BY <1>4, <1>11, <2>2, <2>3
  <2>5. x = old.build /\ old.source = "build" => build[x] = "True" /\ buildSeen[x] = "True"
    BY <2>1 DEF IInv, ImageInv
  <2> QED  BY <1>2, <1>10, <2>3, <2>4, <2>5 DEF ImageInv
<1>19. DeployInv'
  <2>1. deploySeen.image = sp.build => sp.build = old.build /\ sp.source = old.source
    BY <1>18 DEF Images
  <2> QED  BY <1>2, <1>10, <1>13, <2>1 DEF IInv, DeployInv
<1>20. ReportInv'
  <2>1. /\ app.status.observed <= Cur.generation /\ app.status.observed \in Nat
        /\ app.status.observed # sp.generation
    BY <1>1, <1>4, <1>11, ObjectFields, StatusFields, Numbers DEF IInv, ReportInv
  <2>2. pc # "idle" => copy.spec.generation # sp.generation
    BY <1>4, <1>11 DEF Cur
  <2> QED  BY <1>2, <1>10, <2>1, <2>2 DEF IInv, ReportInv
<1> QED
  BY <1>5, <1>7, <1>8, <1>9, <1>14, <1>15, <1>16, <1>17, <1>18, <1>19, <1>20 DEF IInv

(* There is a number for what a user does next.                             *)
LEMMA NextNumbers ==
    ASSUME IInv, NEW change \in Change, Does(change)
    PROVE  /\ {app.spec.generation + 1, app.spec.template + 1, app.spec.build + 1,
               bindings + 1} \subseteq Number
<1>1. /\ {app.spec.generation, app.spec.template, app.spec.build} \subseteq Nat
      /\ bindings \in Nat /\ Largest \in Nat
  BY ObjectFields, SpecFields, Numbers DEF IInv, TypeOK
<1>2. Len(changes) \in Nat /\ Len(changes) + 1 <= Largest
  BY DoesCounted
<1>3. /\ app.spec.generation + bindings = Len(changes)
      /\ app.spec.template <= app.spec.generation /\ app.spec.build <= app.spec.generation
  BY DEF IInv, Counted
<1>4. ASSUME NEW g \in Nat, NEW t \in Nat, NEW b \in Nat, NEW k \in Nat, NEW l \in Nat,
             NEW m \in Nat, g + k = l, l + 1 <= m, t <= g, b <= g
      PROVE  {g + 1, t + 1, b + 1, k + 1} \subseteq 1..m
  BY <1>4
<1> DEFINE g == app.spec.generation
           t == app.spec.template
           b == app.spec.build
           l == Len(changes)
<1>5. /\ {g, t, b, bindings, l, Largest} \subseteq Nat
      /\ g + bindings = l /\ l + 1 <= Largest /\ t <= g /\ b <= g
  BY <1>1, <1>2, <1>3
<1> HIDE DEF g, t, b, l
<1>6. {g + 1, t + 1, b + 1, bindings + 1} \subseteq Number
  BY <1>4, <1>5, Numbers
<1> QED  BY <1>6 DEF g, t, b

(* The spec with the next generation.                                       *)
LEMMA NextGeneration ==
    ASSUME NEW spec \in AppSpec, spec.generation + 1 \in Number
    PROVE  LET sp == [spec EXCEPT !.generation = @ + 1]
           IN  /\ sp \in AppSpec /\ sp.generation = spec.generation + 1
               /\ sp.template = spec.template /\ sp.source = spec.source
               /\ sp.build = spec.build /\ sp.image = spec.image
               /\ sp.services = spec.services
<1>1. spec.generation + 1 \in Number0
  BY DEF Number0
<1> QED  BY <1>1 DEF AppSpec

(* What every user finds.                                                   *)
LEMMA SpecFound ==
    ASSUME IInv
    PROVE  /\ app.spec \in AppSpec
           /\ {app.spec.generation, app.spec.template, app.spec.build,
               app.spec.services} \subseteq Nat
           /\ app.status.services \in Number0
           /\ app.spec.services <= bindingsSeen /\ app.status.services <= bindingsSeen
           /\ app.spec.image <= 0
<1>1. app.spec \in AppSpec /\ app.status \in Status
  BY ObjectFields DEF IInv, TypeOK
<1>2. {app.spec.generation, app.spec.template, app.spec.build, app.spec.services}
         \subseteq Nat
  BY <1>1, SpecFields, Numbers
<1> QED  BY <1>1, <1>2 DEF Status, IInv, Environment, Counted

(* A push.                                                                  *)
LEMMA PushAgainStep ==
    ASSUME IInv, NEW src \in Push, PushAgain(src)
    PROVE  IInv'
<1> DEFINE t == app.spec.template + 1
           k == app.status.services
           pods == [app.spec EXCEPT !.template = t, !.services = k]
           n == app.spec.build + 1
           p == IF src = "build" THEN n ELSE 0
           im == IF src = "image" THEN -n ELSE 0
           spec == [pods EXCEPT !.source = src, !.build = n, !.package = p,
                                !.image = im]
           sp == [spec EXCEPT !.generation = @ + 1]
<1>1. Does(src) /\ src \in Change
  BY DEF PushAgain, Update, Change
<1>2. {app.spec.generation + 1, t, n} \subseteq Number
  BY <1>1, NextNumbers
<1>3. /\ p \in Number0 /\ im \in Image /\ n \in Number0 /\ t \in Number0
      /\ k \in Number0
  BY <1>2, SpecFound DEF Number0, Image
<1>10. im <= 0
  BY <1>2, Numbers
<1>4. Store([app EXCEPT !.spec = sp])
  BY DEF PushAgain, Update, Pushed, NewPods
<1>5. UNCHANGED <<queued, recVars, secVars, buildVars, hpaVars, depVars, faults>>
  BY DEF PushAgain, Update
<1> HIDE DEF t, k, n, p, im
<1>6. /\ pods \in AppSpec /\ pods.generation = app.spec.generation
      /\ pods.template = t /\ pods.services = k
  BY <1>3, SpecFound DEF AppSpec
<1> HIDE DEF pods
<1>7. /\ spec \in AppSpec /\ spec.generation = app.spec.generation
      /\ spec.template = t /\ spec.build = n /\ spec.services = k /\ spec.image = im
  BY <1>3, <1>6 DEF AppSpec
<1> HIDE DEF spec
<1>8. /\ sp \in AppSpec /\ sp.generation = app.spec.generation + 1
      /\ sp.template = t /\ sp.build = n /\ sp.services = k /\ sp.image = im
  BY <1>2, <1>7, NextGeneration
<1> HIDE DEF sp
<1>9. sp.template # app.spec.template /\ sp.build # app.spec.build
  BY <1>8, SpecFound DEF t, n
<1> QED  BY <1>1, <1>4, <1>5, <1>8, <1>9, <1>10, SpecFound, SpecChanges DEF t, n, k

(* A restage.                                                               *)
LEMMA RestageStep ==
    ASSUME IInv, Restage
    PROVE  IInv'
<1> DEFINE n == app.spec.build + 1
           spec == [app.spec EXCEPT !.build = n]
           sp == [spec EXCEPT !.generation = @ + 1]
<1>1. Does("restage") /\ "restage" \in Change
  BY DEF Restage, Update, Change
<1>2. app.spec.generation + 1 \in Number /\ n \in Number0
  BY <1>1, NextNumbers DEF Number0
<1>3. Store([app EXCEPT !.spec = sp])
  BY DEF Restage, Update
<1>4. UNCHANGED <<queued, recVars, secVars, buildVars, hpaVars, depVars, faults>>
  BY DEF Restage, Update
<1> HIDE DEF n
<1>5. /\ spec \in AppSpec /\ spec.generation = app.spec.generation
      /\ spec.template = app.spec.template /\ spec.build = n
      /\ spec.services = app.spec.services /\ spec.source = app.spec.source
      /\ spec.image = app.spec.image
  BY <1>2, SpecFound DEF AppSpec
<1> HIDE DEF spec
<1>6. /\ sp \in AppSpec /\ sp.generation = app.spec.generation + 1
      /\ sp.template = app.spec.template /\ sp.build = n
      /\ sp.services = app.spec.services /\ sp.source = app.spec.source
      /\ sp.image = app.spec.image
  BY <1>2, <1>5, NextGeneration
<1> HIDE DEF sp
<1> QED  BY <1>1, <1>3, <1>4, <1>6, SpecFound, SpecChanges DEF n

(* A restart, and all else that starts new Pods.                            *)
LEMMA RestartStep ==
    ASSUME IInv, Restart
    PROVE  IInv'
<1> DEFINE t == app.spec.template + 1
           k == app.status.services
           spec == [app.spec EXCEPT !.template = t, !.services = k]
           sp == [spec EXCEPT !.generation = @ + 1]
<1>1. Does("template") /\ "template" \in Change
  BY DEF Restart, Update, Change
<1>2. app.spec.generation + 1 \in Number /\ t \in Number0 /\ k \in Number0
  BY <1>1, NextNumbers, SpecFound DEF Number0
<1>3. Store([app EXCEPT !.spec = sp])
  BY DEF Restart, Update, NewPods
<1>4. UNCHANGED <<queued, recVars, secVars, buildVars, hpaVars, depVars, faults>>
  BY DEF Restart, Update
<1> HIDE DEF t, k
<1>5. /\ spec \in AppSpec /\ spec.generation = app.spec.generation
      /\ spec.template = t /\ spec.build = app.spec.build
      /\ spec.services = k /\ spec.source = app.spec.source
      /\ spec.image = app.spec.image
  BY <1>2, SpecFound DEF AppSpec
<1> HIDE DEF spec
<1>6. /\ sp \in AppSpec /\ sp.generation = app.spec.generation + 1
      /\ sp.template = t /\ sp.build = app.spec.build
      /\ sp.services = k /\ sp.source = app.spec.source
      /\ sp.image = app.spec.image
  BY <1>2, <1>5, NextGeneration
<1> HIDE DEF sp
<1>7. sp.template # app.spec.template
  BY <1>6, SpecFound DEF t
<1> QED  BY <1>1, <1>3, <1>4, <1>6, <1>7, SpecFound, SpecChanges DEF t, k

(* Autoscaling is turned on or off.                                         *)
LEMMA AutoscaleStep ==
    ASSUME IInv, Autoscale
    PROVE  IInv'
<1> DEFINE on == ~app.spec.autoscale
           spec == [app.spec EXCEPT !.autoscale = on]
           sp == [spec EXCEPT !.generation = @ + 1]
<1>1. Does("autoscale") /\ "autoscale" \in Change
  BY DEF Autoscale, Update, Change
<1>2. app.spec.generation + 1 \in Number /\ on \in BOOLEAN
  BY <1>1, NextNumbers
<1>3. Store([app EXCEPT !.spec = sp])
  BY DEF Autoscale, Update
<1>4. UNCHANGED <<queued, recVars, secVars, buildVars, hpaVars, depVars, faults>>
  BY DEF Autoscale, Update
<1> HIDE DEF on
<1>5. /\ spec \in AppSpec /\ spec.generation = app.spec.generation
      /\ spec.template = app.spec.template /\ spec.build = app.spec.build
      /\ spec.services = app.spec.services /\ spec.source = app.spec.source
      /\ spec.image = app.spec.image
  BY <1>2, SpecFound DEF AppSpec
<1> HIDE DEF spec
<1>6. /\ sp \in AppSpec /\ sp.generation = app.spec.generation + 1
      /\ sp.template = app.spec.template /\ sp.build = app.spec.build
      /\ sp.services = app.spec.services /\ sp.source = app.spec.source
      /\ sp.image = app.spec.image
  BY <1>2, <1>5, NextGeneration
<1> HIDE DEF sp
<1> QED  BY <1>1, <1>3, <1>4, <1>6, SpecFound, SpecChanges

(* A service is bound.                                                      *)
LEMMA BindStep ==
    ASSUME IInv, Bind
    PROVE  IInv'
<1> USE DEF appVars, recVars, buildVars, hpaVars, depVars
<1>1. Does("bind") /\ "bind" \in Change
  BY DEF Bind, Change
<1>2. /\ bindings' = bindings + 1
      /\ UNCHANGED <<appVars, queued, recVars, bindingsSeen, secret, secretSeen,
                     buildVars, hpaVars, depVars, faults>>
  BY DEF Bind
<1>3. bindings + 1 \in Number0 /\ {bindings, bindingsSeen} \subseteq Nat
  BY <1>1, NextNumbers, Numbers DEF Number0, IInv, TypeOK
<1>4. TypeOK'
  BY <1>1, <1>2, <1>3, DoesCounted DEF IInv, TypeOK
<1>5. Listed' /\ (pc = "idle" => copy = NoObject)'
  BY <1>2 DEF IInv, Listed
<1>6. Counted'
  <2>1. /\ changes' \in Seq(Change) /\ Len(changes') = Len(changes) + 1
        /\ Len(changes) \in Nat /\ app.spec.generation \in Nat
    BY <1>1, DoesCounted, SpecFound, Numbers
  <2>2. app.spec.generation + (bindings + 1) = Len(changes) + 1
    <3>1. app.spec.generation + bindings = Len(changes)
      BY DEF IInv, Counted
    <3>2. \A g, k, l \in Nat : g + k = l => g + (k + 1) = l + 1
      OBVIOUS
    <3> QED  BY <1>3, <2>1, <3>1, <3>2
  <2> QED  BY <1>2, <2>1, <2>2 DEF IInv, Counted
<1>7. Environment'
  BY <1>2, <1>3 DEF IInv, Environment, Working
<1>8. BuiltInv' /\ NewPodsHaveServices'
  BY <1>2 DEF IInv, BuiltInv, Built, NewPodsHaveServices
<1>9. Cur' = Cur
  BY <1>2 DEF Cur
<1>10. \A n \in Number : BuildInv(n)'
  BY <1>2, <1>9 DEF IInv, BuildInv
<1>11. \A x \in Images' : ImageInv(x)'
  BY <1>2, <1>9 DEF IInv, Images, ImageInv
<1>12. DeployInv' /\ ReportInv'
  BY <1>2, <1>9 DEF IInv, DeployInv, ReportInv, RolledOut, Autoscaled
<1> QED  BY <1>4, <1>5, <1>6, <1>7, <1>8, <1>10, <1>11, <1>12 DEF IInv

(* The Deployment is rolled out, or fails: its Pods read the Secret, which  *)
(* holds all that they were asked for with.                                 *)
LEMMA RollsOutStep ==
    ASSUME IInv, RollsOut
    PROVE  IInv'
<1> USE DEF appVars, recVars, secVars, buildVars, hpaVars
<1>1. PICK s \in {"True", "False"} :
         deploy' = [deploy EXCEPT !.state = s, !.services = secret - 1]
  BY DEF RollsOut
<1>2. deploy.template # 0
  BY DEF RollsOut
<1>3. UNCHANGED <<appVars, queued, recVars, secVars, buildVars, hpaVars, deploySeen,
                  changes, faults>>
  BY DEF RollsOut
<1>4. secret \in 1..Largest /\ Largest \in Nat
  BY <1>2, Numbers DEF IInv, TypeOK, Environment
<1>5. /\ deploy'.template = deploy.template /\ deploy'.image = deploy.image
      /\ deploy'.services = secret - 1 /\ deploy' \in Deployment
  <2>1. secret - 1 \in Number0 /\ s \in ConditionStatus
    BY <1>4, Numbers DEF ConditionStatus
  <2> QED  BY <1>1, <2>1 DEF IInv, TypeOK, Deployment
<1>6. TypeOK'
  BY <1>3, <1>5 DEF IInv, TypeOK
<1>7. Listed' /\ Counted' /\ (pc = "idle" => copy = NoObject)'
  BY <1>3 DEF IInv, Listed, Counted
<1>8. Environment' /\ BuiltInv'
  BY <1>3, <1>5 DEF IInv, Environment, BuiltInv, Working, Built
<1>9. NewPodsHaveServices'
  <2>1. app.spec.services \in Nat
    BY SpecFound, Numbers
  <2>2. deploy.template = app.spec.template => secret - 1 >= app.spec.services
    BY <1>4, <2>1 DEF IInv, Environment
  <2> QED  BY <1>3, <1>5, <2>2 DEF NewPodsHaveServices
<1>10. Cur' = Cur
  BY <1>3 DEF Cur
<1>11. \A n \in Number : BuildInv(n)'
  BY <1>3, <1>10 DEF IInv, BuildInv
<1>12. \A x \in Images' : ImageInv(x)'
  BY <1>3, <1>5, <1>10 DEF IInv, Images, ImageInv
<1>13. DeployInv' /\ ReportInv'
  BY <1>3, <1>5, <1>10 DEF IInv, DeployInv, ReportInv, RolledOut, Autoscaled
<1> QED  BY <1>6, <1>7, <1>8, <1>9, <1>11, <1>12, <1>13 DEF IInv

-----------------------------------------------------------------------------
(* The App reconciler *)

(* A run brings the environment up to what is listed, or fails.             *)
LEMMA ABeginStep ==
    ASSUME IInv, ABegin
    PROVE  IInv'
<1> USE DEF appVars, buildVars, hpaVars, depVars
<1> DEFINE base == [appCache.status EXCEPT !.observed = appCache.spec.generation,
                                           !.services = bindingsSeen]
<1>1. pc = "idle" /\ original' = appCache.status /\ queued' = FALSE
  BY DEF ABegin
<1>2. UNCHANGED <<appVars, bindings, bindingsSeen, secretSeen, buildVars, hpaVars,
                  depVars, changes>>
  BY DEF ABegin
<1>3. PICK step \in {"build", "failed"}, cond \in ConditionStatus :
         /\ pc' = step /\ (step = "failed" => cond # "True")
         /\ copy' = [appCache EXCEPT !.status = [base EXCEPT !.env = cond]]
  BY DEF ABegin, MarkReconciliationError, ConditionStatus
<1>4. /\ secret' \in {secret, bindingsSeen + 1}
      /\ pc' = "build" => secret' = bindingsSeen + 1 \/ secretSeen = bindingsSeen + 1
  BY DEF ABegin, SecretOutdated
<1>5. faults' \in 0..MaxFaults
  BY AppAssumption DEF ABegin, Fault, IInv, TypeOK
<1>6. /\ {bindings, bindingsSeen, secret, secretSeen} \subseteq Nat
      /\ bindingsSeen <= bindings /\ secretSeen <= secret /\ secret <= bindingsSeen + 1
  BY Numbers DEF IInv, TypeOK, Environment
<1>7. /\ secret' \in Nat /\ secret <= secret' /\ secret' <= bindingsSeen + 1
      /\ pc' = "build" => secret' = bindingsSeen + 1
  BY <1>4, <1>6
<1>8. bindings + 1 \in Number0
  <2>1. app.spec.generation \in Nat /\ 1 <= app.spec.generation
    BY SpecFound DEF IInv, Counted
  <2>2. Len(changes) \in Nat /\ Len(changes) <= Largest /\ Largest \in Nat
    BY ChangesBounded, Numbers DEF IInv, TypeOK, Counted
  <2>3. app.spec.generation + bindings = Len(changes)
    BY DEF IInv, Counted
  <2>4. \A g, k, l, m \in Nat : 1 <= g /\ l <= m /\ g + k = l => k + 1 <= m
    OBVIOUS
  <2>5. bindings + 1 <= Largest
    BY <1>6, <2>1, <2>2, <2>3, <2>4
  <2> QED  BY <1>6, <2>2, <2>5, Numbers
<1>9. secret' \in Number0
  <2>1. secret' <= bindings + 1
    BY <1>6, <1>7
  <2> QED  BY <1>6, <1>7, <1>8, <2>1, Numbers
<1>10. appCache.spec \in AppSpec /\ appCache.status \in Status
  BY ObjectFields DEF IInv, TypeOK
<1>11. base \in Status /\ base.image = appCache.status.image
       /\ base.observed = appCache.spec.generation /\ base.services = bindingsSeen
  <2>1. appCache.spec.generation \in Number0 /\ bindingsSeen \in Number0
    BY <1>10 DEF AppSpec, IInv, TypeOK
  <2> QED  BY <1>10, <2>1 DEF Status
<1> HIDE DEF base
<1> DEFINE st == [base EXCEPT !.env = cond]
<1>12. /\ st \in Status /\ st.image = appCache.status.image
       /\ st.observed = appCache.spec.generation /\ st.services = bindingsSeen
       /\ st.env = cond
  BY <1>11 DEF Status
<1> HIDE DEF st
<1>13. /\ copy' \in Object /\ copy'.spec = appCache.spec
       /\ copy'.status.image = appCache.status.image
       /\ copy'.status.observed = copy'.spec.generation
       /\ copy'.status.services = bindingsSeen
       /\ pc' = "failed" => ~AllTrue(copy'.status)
  <2>1. copy' = [appCache EXCEPT !.status = st]
    BY <1>3 DEF st
  <2>2. /\ copy' \in Object /\ copy'.spec = appCache.spec /\ copy'.status = st
    BY <1>12, <2>1, ObjectFields DEF IInv, TypeOK
  <2>3. pc' = "failed" => ~AllTrue(st)
    BY <1>3, <1>12 DEF AllTrue, Happy, ConditionStatus
  <2> QED  BY <1>12, <2>2, <2>3
<1>14. TypeOK'
  BY <1>1, <1>2, <1>3, <1>5, <1>9, <1>10, <1>13 DEF IInv, TypeOK
<1>15. Listed' /\ (pc = "idle" => copy = NoObject)'
  BY <1>2, <1>3, <1>10, <1>13, OlderReflexive DEF IInv, Listed
<1>16. Counted'
  BY <1>1, <1>2, <1>13 DEF IInv, Counted
<1>17. Cur' = Cur
  BY <1>1, <1>3, <1>13 DEF Cur
<1>18. Environment'
  <2>1. appCache.spec.services \in Nat /\ app.spec.services \in Nat
    BY <1>10, SpecFound, SpecFields, Numbers
  <2>2. ASSUME NEW o \in {app, appCache, copy'}
        PROVE  o.spec.services <= bindingsSeen /\ o.status.services <= bindingsSeen
    <3>1. CASE o = copy'
      BY <1>6, <1>13, <3>1 DEF IInv, Environment
    <3>2. CASE o # copy'
      BY <3>2 DEF IInv, Environment
    <3> QED  BY <3>1, <3>2
  <2>3. pc' \in {"build", "hpa", "deployment"} => copy'.spec.services + 1 <= secret'
    <3>1. appCache.spec.services <= bindingsSeen
      BY DEF IInv, Environment
    <3> QED  BY <1>3, <1>6, <1>7, <1>13, <2>1, <3>1
  <2>4. /\ deploy.template # 0 => 1 <= secret'
        /\ deploy.template = app.spec.template => app.spec.services + 1 <= secret'
    BY <1>6, <1>7, <2>1 DEF IInv, Environment
  <2>5. secretSeen <= secret'
    BY <1>6, <1>7
  <2> QED  BY <1>2, <1>6, <1>7, <2>2, <2>3, <2>4, <2>5 DEF Environment, Working
<1>19. BuiltInv' /\ NewPodsHaveServices'
  BY <1>2, <1>3 DEF IInv, BuiltInv, Built, NewPodsHaveServices
<1>20. \A n \in Number : BuildInv(n)'
  BY <1>2, <1>17 DEF IInv, BuildInv
<1>21. \A x \in Images' : ImageInv(x)'
  <2>1. Images' \subseteq Images
    BY <1>2, <1>13 DEF Images
  <2> QED  BY <1>2, <1>17, <2>1 DEF IInv, ImageInv
<1>22. DeployInv'
  BY <1>2, <1>17 DEF IInv, DeployInv
<1>23. ReportInv'
  BY <1>2, <1>3, <1>13, <1>17 DEF IInv, ReportInv, RolledOut
<1> QED  BY <1>14, <1>15, <1>16, <1>18, <1>19, <1>20, <1>21, <1>22, <1>23 DEF IInv

(* A step of a run changes the status of the copy, and goes on with the     *)
(* same spec.                                                               *)
LEMMA RunGoesOn ==
    ASSUME IInv, pc # "idle", pc' # "idle", NEW st \in Status,
           copy' = [copy EXCEPT !.status = st], UNCHANGED appVars, UNCHANGED secVars,
           UNCHANGED changes, st.services = copy.status.services,
           st.observed = copy.status.observed
    PROVE  /\ copy' \in Object /\ copy'.spec = copy.spec /\ copy'.status = st
           /\ Listed' /\ Counted' /\ (pc = "idle" => copy = NoObject)'
           /\ Cur' = Cur /\ Cur = copy.spec
           /\ deploy' = deploy /\ (Working' => Working) => Environment'
           /\ copy.spec.build \in Number /\ copy.spec \in AppSpec
           /\ Older(copy.spec, app.spec)
           /\ app.status.observed = app.spec.generation => copy.spec = app.spec
           /\ copy.spec.generation = app.spec.generation => copy.spec = app.spec
<1> USE DEF appVars, secVars
<1>1. copy' \in Object /\ copy'.spec = copy.spec /\ copy'.status = st
  BY ObjectFields DEF IInv, TypeOK
<1>2. Listed' /\ Counted' /\ (pc = "idle" => copy = NoObject)'
  BY <1>1 DEF IInv, Listed, Counted
<1>3. Cur' = Cur /\ Cur = copy.spec
  BY <1>1 DEF Cur
<1>4. deploy' = deploy /\ (Working' => Working) => Environment'
  BY <1>1 DEF IInv, Environment
<1>5. Older(copy.spec, app.spec) /\ copy.spec \in AppSpec
  BY <1>3, CurOlder
<1>6. copy.spec.generation = app.spec.generation => copy.spec = app.spec
  BY <1>5 DEF Older
<1>7. app.status.observed = app.spec.generation => copy.spec = app.spec
  <2>1. app.status.observed <= copy.spec.generation
    BY <1>3 DEF IInv, ReportInv
  <2>2. copy.spec.generation <= app.spec.generation
    BY <1>5 DEF Older
  <2>3. copy.spec.generation \in Nat /\ app.spec.generation \in Nat
    BY <1>5, SpecFound, SpecFields, Numbers
  <2> QED  BY <1>6, <2>1, <2>2, <2>3
<1> QED  BY <1>1, <1>2, <1>3, <1>4, <1>5, <1>6, <1>7, BuildNumbered

(* A pushed image is the App's.                                             *)
LEMMA AImageStep ==
    ASSUME IInv, AImage
    PROVE  IInv'
<1> USE DEF buildVars, hpaVars, depVars
<1> DEFINE st == [copy.status EXCEPT !.build = "True", !.image = copy.spec.image]
<1>1. /\ pc = "build" /\ copy.spec.source = "image" /\ pc' = "hpa"
      /\ copy' = [copy EXCEPT !.status = st]
  BY DEF AImage, AGoesOn
<1>2. UNCHANGED <<appVars, queued, original, secVars, buildVars, hpaVars, depVars,
                  changes, faults>>
  BY DEF AImage
<1>3. copy.status \in Status /\ copy.spec \in AppSpec
  BY ObjectFields DEF IInv, TypeOK
<1>4. /\ st \in Status /\ st.image = copy.spec.image
      /\ st.services = copy.status.services /\ st.observed = copy.status.observed
  <2>1. copy.spec.image \in Image
    BY <1>3 DEF AppSpec
  <2> QED  BY <1>3, <2>1 DEF Status, ConditionStatus
<1> HIDE DEF st
<1>5. /\ copy' \in Object /\ copy'.spec = copy.spec /\ copy'.status = st
      /\ Listed' /\ Counted' /\ (pc = "idle" => copy = NoObject)'
      /\ Cur' = Cur /\ Cur = copy.spec
      /\ Environment'
  BY <1>1, <1>2, <1>4, RunGoesOn DEF Working
<1> USE DEF appVars, secVars
<1>6. TypeOK'
  BY <1>1, <1>2, <1>5 DEF IInv, TypeOK
<1>7. BuiltInv' /\ NewPodsHaveServices'
  BY <1>1, <1>2, <1>4, <1>5 DEF IInv, BuiltInv, NewPodsHaveServices
<1>8. \A n \in Number : BuildInv(n)'
  BY <1>2, <1>5 DEF IInv, BuildInv
<1>9. \A x \in Images' : ImageInv(x)'
  <2> TAKE x \in Images'
  <2>1. CASE x \in Images
    BY <1>2, <1>5, <2>1 DEF IInv, ImageInv
  <2>2. CASE x = copy.spec.image
    <3>1. x <= 0 /\ x \in Int
      BY <1>3, <2>2, SpecFields DEF IInv, Counted
    <3>2. Cur.build \in Nat /\ app.spec.build \in Nat /\ app.spec.build >= 1
      BY <1>3, <1>5, SpecFields, SpecFound, Numbers DEF IInv, Counted
    <3> QED  BY <1>2, <1>5, <3>1, <3>2 DEF ImageInv
  <2> QED  BY <1>2, <1>4, <1>5, <2>1, <2>2 DEF Images
<1>10. DeployInv'
  BY <1>2, <1>5 DEF IInv, DeployInv
<1>11. ReportInv'
  BY <1>1, <1>2, <1>4, <1>5 DEF IInv, ReportInv, RolledOut, Autoscaled
<1> QED  BY <1>5, <1>6, <1>7, <1>8, <1>9, <1>10, <1>11 DEF IInv

(* The Build of the run is not collected: it is the last that was made.     *)
LEMMA CurrentKept ==
    ASSUME IInv, pc # "idle"
    PROVE  build[copy.spec.build] # "gone"
<1> DEFINE n == copy.spec.build
<1>1. n \in Number /\ n \in Nat
  BY BuildNumbered, Numbers
<1>2. Cur.build = n
  BY DEF Cur
<1>3. ASSUME NEW m \in Number, m > n, build[m] # "none"
      PROVE  FALSE
  <2>1. m <= n
    BY <1>2, <1>3 DEF IInv, BuildInv
  <2>2. m \in Nat
    BY Numbers
  <2> QED  BY <1>1, <1>3, <2>1, <2>2
<1> QED  BY <1>1, <1>3 DEF IInv, BuildInv

(* The status after the Build was looked at.                                *)
LEMMA PropagateTyped ==
    ASSUME IInv, pc # "idle", NEW s \in ConditionStatus
    PROVE  LET st == PropagateBuildStatus(s, copy.spec.build)
           IN  /\ st \in Status /\ st.build = s
               /\ st.image = IF s = "True" THEN copy.spec.build ELSE copy.status.image
               /\ st.services = copy.status.services
               /\ st.observed = copy.status.observed
<1> DEFINE im == IF s = "True" THEN copy.spec.build ELSE copy.status.image
<1>1. copy.status \in Status
  BY ObjectFields DEF IInv, TypeOK
<1>2. im \in Image
  BY <1>1, BuildNumbered DEF Image, Number0, Status
<1>3. PropagateBuildStatus(s, copy.spec.build) =
         [copy.status EXCEPT !.build = s, !.image = im]
  BY DEF PropagateBuildStatus
<1> HIDE DEF im
<1>4. LET st == [copy.status EXCEPT !.build = s, !.image = im]
      IN  /\ st \in Status /\ st.build = s /\ st.image = im
          /\ st.services = copy.status.services /\ st.observed = copy.status.observed
  BY <1>1, <1>2 DEF Status
<1> QED  BY <1>3, <1>4 DEF im

(* While an App that is Ready is looked at again, its Build is found.       *)
LEMMA ReadyFound ==
    ASSUME IInv, copy.spec = app.spec, copy.spec.source = "build",
           AllTrue(app.status), app.status.observed = app.spec.generation
    PROVE  buildSeen[copy.spec.build] = "True"
<1>1. deploy.image = app.spec.build /\ app.spec.source = "build"
  BY DEF IInv, ReportInv, RolledOut
<1>2. ImageInv(deploy.image)
  BY DEF IInv, Images
<1> QED  BY <1>1, <1>2 DEF ImageInv

(* The Build is made.                                                       *)
LEMMA BuildMade ==
    ASSUME IInv, pc = "build", copy.spec.source = "build",
           ~Exists(buildSeen[copy.spec.build]), ~Exists(build[copy.spec.build]),
           build' = [build EXCEPT ![copy.spec.build] = "Unknown"],
           package' = [package EXCEPT ![copy.spec.build] = copy.spec.package],
           AStops(PropagateBuildStatus("Unknown", copy.spec.build), FALSE),
           UNCHANGED <<appVars, queued, original, secVars, buildSeen, source, run,
                       hpaVars, depVars, changes, faults>>
    PROVE  IInv'
<1> USE DEF hpaVars, depVars
<1> DEFINE n == copy.spec.build
           st == PropagateBuildStatus("Unknown", n)
<1>1. pc' = "update" /\ copy' = [copy EXCEPT !.status = st]
  BY DEF AStops
<1>2. /\ st \in Status /\ st.build = "Unknown" /\ st.image = copy.status.image
      /\ st.services = copy.status.services /\ st.observed = copy.status.observed
  BY PropagateTyped DEF ConditionStatus
<1> HIDE DEF st
<1>3. /\ copy' \in Object /\ copy'.spec = copy.spec /\ copy'.status = st
      /\ Listed' /\ Counted' /\ (pc = "idle" => copy = NoObject)'
      /\ Cur' = Cur /\ Cur = copy.spec
      /\ Environment'
      /\ n \in Number /\ copy.spec \in AppSpec
      /\ app.status.observed = app.spec.generation => copy.spec = app.spec
  BY <1>1, <1>2, RunGoesOn DEF Working
<1> USE DEF appVars, secVars
<1>4. build[n] = "none"
  BY CurrentKept DEF Exists
<1>5. TypeOK'
  <2>1. copy.spec.package \in Number0
    BY <1>3 DEF AppSpec
  <2> QED  BY <1>1, <1>3, <2>1 DEF IInv, TypeOK, BuildState
<1>6. BuiltInv' /\ NewPodsHaveServices'
  BY <1>1 DEF IInv, BuiltInv, Built, NewPodsHaveServices
<1>7. \A m \in Number : BuildInv(m)'
  <2>1. n \in Nat
    BY <1>3, Numbers
  <2>2. \A m \in Number : m # n => build'[m] = build[m]
    BY DEF IInv, TypeOK
  <2>3. build'[n] = "Unknown"
    BY <1>3 DEF IInv, TypeOK
  <2> TAKE m \in Number
  <2>4. build'[m] # "none" => m <= Cur'.build
    BY <1>3, <2>1, <2>2 DEF IInv, BuildInv
  <2>5. build'[m] = "gone" => \E k \in Number : k > m /\ build'[k] # "none"
    BY <2>2, <2>3 DEF IInv, BuildInv
  <2>6. IsStatusFinal(buildSeen'[m]) => build'[m] \in {buildSeen'[m], "gone"}
    BY <1>4, <2>2, <2>3 DEF IInv, BuildInv, IsStatusFinal
  <2> QED  BY <2>4, <2>5, <2>6 DEF BuildInv
<1>8. \A x \in Images' : ImageInv(x)'
  <2>1. Images' = Images
    BY <1>2, <1>3 DEF Images
  <2> QED  BY <1>3, <1>4, <2>1, BuildNumbered DEF IInv, TypeOK, ImageInv
<1>9. DeployInv'
  BY <1>3 DEF IInv, DeployInv
<1>10. ReportInv'
  <2>1. ~AllTrue(st)
    BY <1>2 DEF AllTrue, Happy
  <2>2. ~(AllTrue(app.status) /\ app.status.observed = app.spec.generation)
    BY <1>3, ReadyFound DEF Exists
  <2> QED  BY <1>1, <1>2, <1>3, <2>1, <2>2 DEF IInv, ReportInv
<1> QED  BY <1>3, <1>5, <1>6, <1>7, <1>8, <1>9, <1>10 DEF IInv

(* A run fails: all it did was to mark one condition.                       *)
LEMMA RunFails ==
    ASSUME IInv, pc # "idle", NEW part \in {"build", "hpa", "deploy"}, NEW err,
           AFails(part, err), faults' \in 0..MaxFaults, hpa' \in BOOLEAN,
           UNCHANGED <<appVars, queued, original, secVars, buildVars, hpaSeen, depVars,
                       changes>>
    PROVE  IInv'
<1> USE DEF depVars, buildVars
<1> DEFINE c == MarkReconciliationError(err)
           st == [copy.status EXCEPT ![part] = c]
<1>1. pc' = "failed" /\ copy' = [copy EXCEPT !.status = st]
  BY DEF AFails, AStops
<1>2. c \in ConditionStatus /\ c # "True"
  BY DEF MarkReconciliationError, ConditionStatus
<1> HIDE DEF c
<1>3. /\ st \in Status /\ st.image = copy.status.image
      /\ st.services = copy.status.services /\ st.observed = copy.status.observed
      /\ ~AllTrue(st)
  <2>1. copy.status \in Status
    BY ObjectFields DEF IInv, TypeOK
  <2>2. /\ st \in Status /\ st.image = copy.status.image
        /\ st.services = copy.status.services /\ st.observed = copy.status.observed
        /\ c \in {st.build, st.hpa, st.deploy}
    BY <1>2, <2>1 DEF Status
  <2> HIDE DEF st
  <2>3. ~AllTrue(st)
    BY <1>2, <2>2 DEF AllTrue, Happy, ConditionStatus
  <2> QED  BY <2>2, <2>3
<1> HIDE DEF st
<1>4. /\ copy' \in Object /\ copy'.spec = copy.spec /\ copy'.status = st
      /\ Listed' /\ Counted' /\ (pc = "idle" => copy = NoObject)'
      /\ Cur' = Cur /\ Environment'
  BY <1>1, <1>3, RunGoesOn DEF Working
<1> USE DEF appVars, secVars
<1>5. TypeOK'
  BY <1>1, <1>4 DEF IInv, TypeOK
<1>6. BuiltInv' /\ NewPodsHaveServices'
  BY <1>1 DEF IInv, BuiltInv, Built, NewPodsHaveServices
<1>7. \A m \in Number : BuildInv(m)'
  BY <1>4 DEF IInv, BuildInv
<1>8. \A x \in Images' : ImageInv(x)'
  <2>1. Images' = Images
    BY <1>3, <1>4 DEF Images
  <2> QED  BY <1>4, <2>1 DEF IInv, ImageInv
<1>9. DeployInv'
  BY <1>4 DEF IInv, DeployInv
<1>10. ReportInv'
  BY <1>1, <1>3, <1>4 DEF IInv, ReportInv, RolledOut
<1> QED  BY <1>4, <1>5, <1>6, <1>7, <1>8, <1>9, <1>10 DEF IInv

(* The Build is pending, or has ended.                                      *)
LEMMA BuildLooked ==
    ASSUME IInv, pc = "build", copy.spec.source = "build",
           Exists(buildSeen[copy.spec.build]),
           IF IsPending(buildSeen[copy.spec.build])
             THEN AStops(PropagateBuildStatus(buildSeen[copy.spec.build],
                                              copy.spec.build), FALSE)
             ELSE AGoesOn("hpa", PropagateBuildStatus(buildSeen[copy.spec.build],
                                                      copy.spec.build)),
           UNCHANGED <<appVars, queued, original, secVars, buildVars, hpaVars, depVars,
                       changes, faults>>
    PROVE  IInv'
<1> USE DEF hpaVars, depVars, buildVars
<1> DEFINE n == copy.spec.build
           seen == buildSeen[n]
           st == PropagateBuildStatus(seen, n)
<1>0. n \in Number
  BY BuildNumbered
<1>1. seen \in ConditionStatus
  BY <1>0 DEF IInv, TypeOK, BuildState, Exists, ConditionStatus
<1>2. /\ pc' = IF seen = "Unknown" THEN "update" ELSE "hpa"
      /\ copy' = [copy EXCEPT !.status = st]
  BY DEF AStops, AGoesOn, IsPending
<1>3. /\ st \in Status /\ st.build = seen
      /\ st.image = IF seen = "True" THEN n ELSE copy.status.image
      /\ st.services = copy.status.services /\ st.observed = copy.status.observed
  BY <1>1, PropagateTyped
<1> HIDE DEF st, seen
<1>4. /\ copy' \in Object /\ copy'.spec = copy.spec /\ copy'.status = st
      /\ Listed' /\ Counted' /\ (pc = "idle" => copy = NoObject)'
      /\ Cur' = Cur /\ Cur = copy.spec /\ copy.spec \in AppSpec
      /\ Environment'
      /\ app.status.observed = app.spec.generation => copy.spec = app.spec
  BY <1>2, <1>3, RunGoesOn DEF Working
<1> USE DEF appVars, secVars
<1>5. TypeOK'
  BY <1>2, <1>4 DEF IInv, TypeOK
<1>6. seen # "Unknown" => build[n] = seen
  BY <1>0, <1>1, CurrentKept DEF IInv, BuildInv, IsStatusFinal, ConditionStatus, seen
<1>7. BuiltInv' /\ NewPodsHaveServices'
  BY <1>1, <1>2, <1>3, <1>4, <1>6
     DEF IInv, BuiltInv, Built, NewPodsHaveServices, ConditionStatus
<1>8. \A m \in Number : BuildInv(m)'
  BY <1>4 DEF IInv, BuildInv
<1>9. \A x \in Images' : ImageInv(x)'
  <2> TAKE x \in Images'
  <2>1. CASE x \in Images
    BY <1>4, <2>1 DEF IInv, ImageInv
  <2>2. CASE x = n /\ seen = "True"
    BY <1>0, <1>4, <1>6, <2>2, Numbers DEF ImageInv, seen
  <2> QED  BY <1>3, <1>4, <2>1, <2>2 DEF Images
<1>10. DeployInv'
  BY <1>4 DEF IInv, DeployInv
<1>11. ReportInv'
  <2>1. seen = "Unknown" => ~AllTrue(st)
    BY <1>3 DEF AllTrue, Happy
  <2>2. seen = "Unknown" =>
           ~(AllTrue(app.status) /\ app.status.observed = app.spec.generation)
    BY <1>4, ReadyFound DEF seen
  <2> QED  BY <1>2, <1>3, <1>4, <2>1, <2>2 DEF IInv, ReportInv, RolledOut
<1> QED  BY <1>4, <1>5, <1>7, <1>8, <1>9, <1>10, <1>11 DEF IInv

(* The Build is made, waited for, or its outcome taken.                     *)
LEMMA ABuildStep ==
    ASSUME IInv, ABuild
    PROVE  IInv'
<1> DEFINE n == copy.spec.build
           seen == buildSeen[n]
<1>1. /\ pc = "build" /\ copy.spec.source = "build"
      /\ UNCHANGED <<appVars, queued, original, secVars, buildSeen, source, run,
                     hpaVars, depVars, changes>>
  BY DEF ABuild
<1>2. CASE /\ ~Exists(seen) /\ ~Exists(build[n])
           /\ build' = [build EXCEPT ![n] = "Unknown"]
           /\ package' = [package EXCEPT ![n] = copy.spec.package]
           /\ AStops(PropagateBuildStatus("Unknown", n), FALSE)
           /\ UNCHANGED faults
  BY <1>1, <1>2, BuildMade
<1>3. CASE /\ ~Exists(seen)
           /\ \E err \in {"exists", "api"} :
                 /\ IF err = "exists" THEN Exists(build[n]) /\ UNCHANGED faults
                                      ELSE Fault("build")
                 /\ AFails("build", err)
           /\ UNCHANGED <<build, package>>
  <2>1. PICK err \in {"exists", "api"} :
           /\ IF err = "exists" THEN UNCHANGED faults ELSE Fault("build")
           /\ AFails("build", err)
    BY <1>3
  <2>2. faults' \in 0..MaxFaults
    BY <2>1, AppAssumption DEF Fault, IInv, TypeOK
  <2>3. hpa' \in BOOLEAN
    BY <1>1 DEF hpaVars, IInv, TypeOK
  <2> QED  BY <1>1, <1>3, <2>1, <2>2, <2>3, RunFails DEF buildVars, hpaVars
<1>4. CASE /\ Exists(seen)
           /\ IF IsPending(seen)
                THEN AStops(PropagateBuildStatus(seen, n), FALSE)
                ELSE AGoesOn("hpa", PropagateBuildStatus(seen, n))
           /\ UNCHANGED <<build, package, faults>>
  BY <1>1, <1>4, BuildLooked DEF buildVars
<1> QED  BY <1>2, <1>3, <1>4 DEF ABuild

(* The autoscaler is as the copy asks for, or its event is still to come.   *)
LEMMA AutoscalerSettled ==
    ASSUME IInv, pc = "hpa", NEW s \in ConditionStatus,
           AGoesOn("deployment", [copy.status EXCEPT !.hpa = s]),
           hpa' \in BOOLEAN, hpa' = copy.spec.autoscale \/ hpaSeen # hpa',
           UNCHANGED <<appVars, queued, original, secVars, buildVars, hpaSeen, depVars,
                       changes, faults>>
    PROVE  IInv'
<1> USE DEF depVars, buildVars
<1> DEFINE st == [copy.status EXCEPT !.hpa = s]
<1>1. pc' = "deployment" /\ copy' = [copy EXCEPT !.status = st]
  BY DEF AGoesOn
<1>2. /\ st \in Status /\ st.image = copy.status.image /\ st.build = copy.status.build
      /\ st.services = copy.status.services /\ st.observed = copy.status.observed
  <2>1. copy.status \in Status
    BY ObjectFields DEF IInv, TypeOK
  <2> QED  BY <2>1 DEF Status
<1> HIDE DEF st
<1>3. /\ copy' \in Object /\ copy'.spec = copy.spec /\ copy'.status = st
      /\ Listed' /\ Counted' /\ (pc = "idle" => copy = NoObject)'
      /\ Cur' = Cur /\ Environment'
      /\ app.status.observed = app.spec.generation => copy.spec = app.spec
      /\ copy.spec.generation = app.spec.generation => copy.spec = app.spec
  BY <1>1, <1>2, RunGoesOn DEF Working
<1> USE DEF appVars, secVars
<1>4. TypeOK'
  BY <1>1, <1>3 DEF IInv, TypeOK
<1>5. BuiltInv' /\ NewPodsHaveServices'
  BY <1>1, <1>2, <1>3 DEF IInv, BuiltInv, Built, NewPodsHaveServices
<1>6. \A m \in Number : BuildInv(m)'
  BY <1>3 DEF IInv, BuildInv
<1>7. \A x \in Images' : ImageInv(x)'
  <2>1. Images' = Images
    BY <1>2, <1>3 DEF Images
  <2> QED  BY <1>3, <2>1 DEF IInv, ImageInv
<1>8. DeployInv'
  BY <1>3 DEF IInv, DeployInv
<1>9. ReportInv'
  <2>1. copy.spec = app.spec => Autoscaled'
    BY DEF Autoscaled
  <2> QED  BY <1>1, <1>2, <1>3, <2>1 DEF IInv, ReportInv, RolledOut
<1> QED  BY <1>3, <1>4, <1>5, <1>6, <1>7, <1>8, <1>9 DEF IInv

(* The autoscaler is made, deleted or left.                                 *)
LEMMA AHorizontalPodAutoscalerStep ==
    ASSUME IInv, AHorizontalPodAutoscaler
    PROVE  IInv'
<1>1. /\ pc = "hpa"
      /\ UNCHANGED <<appVars, queued, original, secVars, buildVars, hpaSeen, depVars,
                     changes>>
  BY DEF AHorizontalPodAutoscaler
<1>2. hpa \in BOOLEAN /\ hpaSeen \in BOOLEAN /\ copy.spec.autoscale \in BOOLEAN
  BY ObjectFields, SpecFields DEF IInv, TypeOK
<1>3. faults \in 0..MaxFaults
  BY DEF IInv, TypeOK
<1>4. CASE /\ ~copy.spec.autoscale /\ ~hpa
           /\ AGoesOn("deployment", [copy.status EXCEPT !.hpa = "True"])
           /\ UNCHANGED <<hpa, faults>>
  <2>1. hpa' = copy.spec.autoscale /\ hpa' \in BOOLEAN /\ "True" \in ConditionStatus
    BY <1>2, <1>4 DEF ConditionStatus
  <2> QED  BY <1>1, <1>4, <2>1, AutoscalerSettled
<1>5. CASE /\ ~copy.spec.autoscale /\ hpa
           /\ hpa' = FALSE
           /\ AFails("hpa", "nil")
           /\ UNCHANGED faults
  BY <1>1, <1>3, <1>5, RunFails
<1>6. CASE /\ copy.spec.autoscale /\ (hpaSeen \/ ~hpa)
           /\ hpa' = (hpa \/ ~hpaSeen)
           /\ \E s \in {"True", "Unknown"} :
                 AGoesOn("deployment", [copy.status EXCEPT !.hpa = s])
           /\ UNCHANGED faults
  <2>1. PICK s \in {"True", "Unknown"} :
           AGoesOn("deployment", [copy.status EXCEPT !.hpa = s])
    BY <1>6
  <2>2. hpa' \in BOOLEAN
    BY <1>6
  <2>3. hpa' = copy.spec.autoscale \/ hpaSeen # hpa'
    BY <1>2, <1>6
  <2>4. s \in ConditionStatus
    BY DEF ConditionStatus
  <2> QED  BY <1>1, <1>6, <2>1, <2>2, <2>3, <2>4, AutoscalerSettled
<1>7. CASE /\ copy.spec.autoscale /\ ~hpaSeen /\ hpa
           /\ AFails("hpa", "exists")
           /\ UNCHANGED <<hpa, faults>>
  BY <1>1, <1>2, <1>3, <1>7, RunFails
<1>8. CASE /\ Fault("hpa")
           /\ AFails("hpa", "api")
           /\ UNCHANGED hpa
  <2>1. faults' \in 0..MaxFaults
    BY <1>3, <1>8, AppAssumption DEF Fault
  <2> QED  BY <1>1, <1>2, <1>8, <2>1, RunFails
<1> QED  BY <1>4, <1>5, <1>6, <1>7, <1>8 DEF AHorizontalPodAutoscaler

(* A run whose copy is the current spec, and which finds the listed         *)
(* Deployment as desired after a Build that succeeded, has found the stored *)
(* one.                                                                     *)
LEMMA CurrentIsReal ==
    ASSUME IInv, pc = "deployment", copy.spec = app.spec, DeploymentCurrent,
           copy.status.build = "True"
    PROVE  RolledOut
<1>1. /\ deploySeen.template = app.spec.template
      /\ deploySeen.image = copy.status.image
  BY DEF DeploymentCurrent, MakeDeployment
<1>2. Cur = app.spec
  BY DEF Cur
<1>3. deploy.template = app.spec.template
  <2>1. deploySeen.template <= deploy.template /\ deploy.template <= app.spec.template
    BY <1>2 DEF IInv, DeployInv
  <2>2. deploy.template \in Nat /\ app.spec.template \in Nat
    BY DeploymentFields, SpecFound, Numbers DEF IInv, TypeOK
  <2> QED  BY <1>1, <2>1, <2>2
<1>4. CASE app.spec.source = "image"
  BY <1>3, <1>4 DEF IInv, DeployInv, RolledOut
<1>5. CASE app.spec.source # "image"
  <2>1. app.spec.source = "build"
    BY <1>5, SpecFound, SpecFields DEF Push
  <2>2. copy.status.image = app.spec.build
    BY <1>5 DEF IInv, BuiltInv, Built
  <2> QED  BY <1>1, <1>3, <2>1, <2>2 DEF IInv, DeployInv, RolledOut
<1> QED  BY <1>4, <1>5

(* The Deployment is as desired: its state is reported.                     *)
LEMMA DeploymentFound ==
    ASSUME IInv, pc = "deployment", DeploymentCurrent,
           AStops([copy.status EXCEPT !.deploy = deploySeen.state], FALSE),
           UNCHANGED <<appVars, queued, original, secVars, buildVars, hpaVars, depVars,
                       changes, faults>>
    PROVE  IInv'
<1> USE DEF depVars, buildVars, hpaVars
<1> DEFINE st == [copy.status EXCEPT !.deploy = deploySeen.state]
<1>1. pc' = "update" /\ copy' = [copy EXCEPT !.status = st]
  BY DEF AStops
<1>2. /\ st \in Status /\ st.image = copy.status.image /\ st.build = copy.status.build
      /\ st.services = copy.status.services /\ st.observed = copy.status.observed
  <2>1. copy.status \in Status /\ deploySeen.state \in ConditionStatus
    BY ObjectFields, DeploymentFields DEF IInv, TypeOK
  <2> QED  BY <2>1 DEF Status
<1> HIDE DEF st
<1>3. /\ copy' \in Object /\ copy'.spec = copy.spec /\ copy'.status = st
      /\ Listed' /\ Counted' /\ (pc = "idle" => copy = NoObject)'
      /\ Cur' = Cur /\ Environment'
      /\ app.status.observed = app.spec.generation => copy.spec = app.spec
      /\ copy.spec.generation = app.spec.generation => copy.spec = app.spec
  BY <1>1, <1>2, RunGoesOn DEF Working
<1> USE DEF appVars, secVars
<1>4. TypeOK'
  BY <1>1, <1>3 DEF IInv, TypeOK
<1>5. BuiltInv' /\ NewPodsHaveServices'
  BY <1>1 DEF IInv, BuiltInv, Built, NewPodsHaveServices
<1>6. \A m \in Number : BuildInv(m)'
  BY <1>3 DEF IInv, BuildInv
<1>7. \A x \in Images' : ImageInv(x)'
  <2>1. Images' = Images
    BY <1>2, <1>3 DEF Images
  <2> QED  BY <1>3, <2>1 DEF IInv, ImageInv
<1>8. DeployInv'
  BY <1>3 DEF IInv, DeployInv
<1>9. ReportInv'
  <2>1. copy.spec = app.spec => Autoscaled
    BY DEF IInv, ReportInv
  <2>2. AllTrue(st) => copy.status.build = "True"
    <3>1. copy.status.build \in ConditionStatus
      BY ObjectFields, StatusFields DEF IInv, TypeOK
    <3> QED  BY <1>2, <3>1 DEF AllTrue, Happy, ConditionStatus
  <2>3. AllTrue(st) /\ copy.spec = app.spec => RolledOut
    BY <2>2, CurrentIsReal
  <2>4. Autoscaled' = Autoscaled /\ RolledOut' = RolledOut
    BY DEF Autoscaled, RolledOut
  <2> QED  BY <1>1, <1>2, <1>3, <2>1, <2>3, <2>4 DEF IInv, ReportInv
<1> QED  BY <1>3, <1>4, <1>5, <1>6, <1>7, <1>8, <1>9 DEF IInv

(* The Deployment is made or updated, from the latest that is stored.       *)
LEMMA DeploymentMade ==
    ASSUME IInv, pc = "deployment", deploy = deploySeen, deploy' = MakeDeployment,
           AStops([copy.status EXCEPT !.deploy = "Unknown"], FALSE),
           UNCHANGED <<appVars, queued, original, secVars, buildVars, hpaVars,
                       deploySeen, changes, faults>>
    PROVE  IInv'
<1> USE DEF buildVars, hpaVars
<1> DEFINE st == [copy.status EXCEPT !.deploy = "Unknown"]
<1>1. pc' = "update" /\ copy' = [copy EXCEPT !.status = st]
  BY DEF AStops
<1>2. copy.status \in Status /\ copy.spec \in AppSpec
  BY ObjectFields DEF IInv, TypeOK
<1>3. /\ st \in Status /\ st.image = copy.status.image /\ st.deploy = "Unknown"
      /\ st.services = copy.status.services /\ st.observed = copy.status.observed
  BY <1>2 DEF Status, ConditionStatus
<1> HIDE DEF st
<1>4. /\ copy' \in Object /\ copy'.spec = copy.spec /\ copy'.status = st
      /\ Listed' /\ Counted' /\ (pc = "idle" => copy = NoObject)'
      /\ Cur' = Cur /\ Cur = copy.spec /\ Older(copy.spec, app.spec)
      /\ app.status.observed = app.spec.generation => copy.spec = app.spec
  BY <1>1, <1>3, RunGoesOn
<1> USE DEF appVars, secVars
<1>5. /\ deploy'.template = copy.spec.template /\ deploy'.image = copy.status.image
      /\ deploy'.state = "Unknown" /\ deploy' \in Deployment
  <2>1. copy.spec.template \in Number0 /\ copy.status.image \in Image
    BY <1>2 DEF AppSpec, Status
  <2>2. deploy.services \in Number0
    BY DEF IInv, TypeOK, Deployment
  <2> QED  BY <2>1, <2>2 DEF MakeDeployment, Deployment, ConditionStatus
<1>6. TypeOK'
  BY <1>1, <1>4, <1>5 DEF IInv, TypeOK
<1>7. Environment'
  <2>1. copy.spec.services \in Nat /\ secret \in Nat
    BY <1>2, SpecFields, Numbers DEF IInv, TypeOK
  <2>2. copy.spec.services + 1 <= secret
    BY DEF IInv, Environment, Working
  <2>3. 1 <= secret
    BY <2>1, <2>2
  <2>4. deploy'.template = app.spec.template => app.spec.services + 1 <= secret
    BY <1>4, <1>5, <2>2 DEF Older
  <2> QED  BY <1>1, <1>3, <1>4, <2>3, <2>4 DEF IInv, Environment, Working
<1>8. BuiltInv' /\ NewPodsHaveServices'
  BY <1>1, <1>5 DEF BuiltInv, Built, NewPodsHaveServices
<1>9. \A m \in Number : BuildInv(m)'
  BY <1>4 DEF IInv, BuildInv
<1>10. \A x \in Images' : ImageInv(x)'
  <2>1. Images' \subseteq Images
    BY <1>3, <1>4, <1>5 DEF Images
  <2> QED  BY <1>4, <2>1 DEF IInv, ImageInv
<1>11. copy.spec.source = "image" => deploy'.image = copy.spec.image
  BY <1>5 DEF IInv, BuiltInv, Built
<1>12. deploySeen.image = app.spec.build /\ app.spec.source = "build" =>
          deploy'.image = app.spec.build
  <2> SUFFICES ASSUME deploySeen.image = app.spec.build, app.spec.source = "build"
               PROVE  deploy'.image = app.spec.build
    OBVIOUS
  <2>1. app.spec.build <= copy.spec.build /\ build[app.spec.build] = "True"
    <3>1. ImageInv(deploySeen.image)
      BY DEF IInv, Images
    <3> QED  BY <1>4, <3>1 DEF ImageInv
  <2>2. copy.spec.build = app.spec.build
    <3>1. copy.spec.build \in Nat /\ app.spec.build \in Nat
      BY <1>2, SpecFields, SpecFound, Numbers
    <3> QED  BY <1>4, <2>1, <3>1 DEF Older
  <2>3. copy.spec.source = "build"
    BY <1>4, <2>2 DEF Older
  <2> QED  BY <1>5, <2>1, <2>2, <2>3 DEF IInv, BuiltInv, Built
<1>13. DeployInv'
  <2>1. deploy.template <= copy.spec.template /\ copy.spec.template \in Nat
    BY <1>2, <1>4, SpecFields, Numbers DEF IInv, DeployInv
  <2>2. deploy'.template = app.spec.template /\ app.spec.source = "image" =>
           deploy'.image = app.spec.image
    BY <1>4, <1>5, <1>11 DEF Older
  <2> QED  BY <1>4, <1>5, <1>12, <2>1, <2>2 DEF DeployInv
<1>14. ReportInv'
  <2>1. ~AllTrue(st)
    BY <1>3 DEF AllTrue, Happy
  <2>2. AllTrue(app.status) /\ app.status.observed = app.spec.generation =>
           RolledOut' /\ Autoscaled'
    <3> SUFFICES ASSUME AllTrue(app.status), app.status.observed = app.spec.generation
                 PROVE  RolledOut' /\ Autoscaled'
      OBVIOUS
    <3>1. copy.spec = app.spec
      BY <1>4
    <3>2. RolledOut
      BY DEF IInv, ReportInv
    <3>3. Autoscaled'
      BY <3>1 DEF IInv, ReportInv, Autoscaled
    <3>4. app.spec.source \in {"image", "build"}
      BY SpecFound, SpecFields DEF Push
    <3>5. RolledOut'
      BY <1>5, <1>11, <1>12, <3>1, <3>2, <3>4 DEF RolledOut
    <3> QED  BY <3>3, <3>5
  <2> QED  BY <1>1, <1>3, <1>4, <2>1, <2>2 DEF IInv, ReportInv
<1> QED  BY <1>4, <1>6, <1>7, <1>8, <1>9, <1>10, <1>13, <1>14 DEF IInv

(* The Deployment is made, updated or found.                                *)
LEMMA ADeploymentStep ==
    ASSUME IInv, ADeployment
    PROVE  IInv'
<1>1. /\ pc = "deployment"
      /\ UNCHANGED <<appVars, queued, original, secVars, buildVars, hpaVars, deploySeen,
                     changes>>
  BY DEF ADeployment
<1>2. hpa' \in BOOLEAN /\ UNCHANGED hpaSeen
  BY <1>1 DEF hpaVars, IInv, TypeOK
<1>3. CASE /\ AFails("deploy", "template")
           /\ UNCHANGED <<deploy, faults>>
  <2>1. faults' \in 0..MaxFaults
    BY <1>3 DEF IInv, TypeOK
  <2> QED  BY <1>1, <1>2, <1>3, <2>1, RunFails DEF depVars
<1>4. CASE /\ DeploymentCurrent
           /\ AStops([copy.status EXCEPT !.deploy = deploySeen.state], FALSE)
           /\ UNCHANGED <<deploy, faults>>
  BY <1>1, <1>4, DeploymentFound DEF depVars
<1>5. CASE /\ deploy = deploySeen
           /\ deploy' = MakeDeployment
           /\ AStops([copy.status EXCEPT !.deploy = "Unknown"], FALSE)
           /\ UNCHANGED faults
  BY <1>1, <1>5, DeploymentMade
<1>6. CASE /\ \E err \in {"conflict", "api"} :
                 /\ IF err = "conflict" THEN deploy # deploySeen /\ UNCHANGED faults
                                        ELSE Fault("deploy")
                 /\ AFails("deploy", err)
           /\ UNCHANGED deploy
  <2>1. PICK err \in {"conflict", "api"} :
           /\ IF err = "conflict" THEN UNCHANGED faults ELSE Fault("deploy")
           /\ AFails("deploy", err)
    BY <1>6
  <2>2. faults' \in 0..MaxFaults
    BY <2>1, AppAssumption DEF Fault, IInv, TypeOK
  <2> QED  BY <1>1, <1>2, <1>6, <2>1, <2>2, RunFails DEF depVars
<1> QED  BY <1>3, <1>4, <1>5, <1>6 DEF ADeployment

(* The fields of what is there between runs.                                *)
LEMMA NothingFields ==
    /\ NoObject \in Object /\ NoObject.spec.services = 0 /\ NoObject.spec.image = 0
    /\ NoObject.status.services = 0 /\ NoObject.status.image = 0
BY NothingTyped DEF NoObject, NoSpec, NoStatus

(* A run ends; the App keeps its spec, and its status or gets the copy's.   *)
LEMMA RunEnded ==
    ASSUME IInv, pc \in {"update", "failed"}, pc' = "idle", copy' = NoObject,
           original' = NoStatus, queued' \in BOOLEAN, queued => queued',
           pc = "failed" => queued',
           app' \in Object, app'.spec = app.spec, appCache' = appCache,
           \/ app' = app /\ appWatch' = appWatch
           \/ /\ appCache = app /\ appWatch' = <<app'>> /\ app'.status = copy.status,
           faults' \in 0..MaxFaults,
           UNCHANGED <<secVars, buildVars, hpaVars, depVars, changes>>
    PROVE  IInv'
<1> USE DEF secVars, buildVars, hpaVars, depVars
<1>1. /\ app.spec \in AppSpec /\ appCache.spec \in AppSpec /\ copy.spec \in AppSpec
      /\ app.status \in Status /\ appCache.status \in Status /\ copy.status \in Status
  BY ObjectFields DEF IInv, TypeOK
<1>2. app'.status \in {app.status, copy.status}
  OBVIOUS
<1>3. TypeOK'
  <2>1. appWatch' \in Seq(Object) /\ Len(appWatch') <= 1
    <3>1. CASE appWatch' = appWatch
      BY <3>1 DEF IInv, TypeOK
    <3>2. CASE appWatch' = <<app'>>
      BY <3>2
    <3> QED  BY <3>1, <3>2
  <2> QED  BY <2>1, NothingTyped DEF IInv, TypeOK
<1>4. Listed' /\ (pc = "idle" => copy = NoObject)'
  BY DEF IInv, Listed
<1>5. Counted'
  BY NothingFields DEF IInv, Counted
<1>6. Cur' = appCache.spec /\ Cur = copy.spec
  BY DEF Cur
<1>7. /\ Cur.generation <= Cur'.generation /\ Cur.template <= Cur'.template
      /\ Cur.build <= Cur'.build
      /\ {Cur.generation, Cur.template, Cur.build} \subseteq Nat
      /\ {Cur'.generation, Cur'.template, Cur'.build} \subseteq Nat
  BY <1>1, <1>6, SpecFields, Numbers DEF IInv, Listed, Older
<1>8. Environment'
  <2>1. bindingsSeen \in Nat
    BY Numbers DEF IInv, TypeOK
  <2>2. app'.status.services <= bindingsSeen
    BY <1>2 DEF IInv, Environment
  <2> QED  BY <2>1, <2>2, NothingFields DEF IInv, Environment, Working
<1>9. BuiltInv' /\ NewPodsHaveServices'
  BY DEF IInv, BuiltInv, Built, NewPodsHaveServices
<1>10. \A n \in Number : BuildInv(n)'
  <2> TAKE n \in Number
  <2>1. n \in Nat
    BY Numbers
  <2> QED  BY <1>7, <2>1 DEF IInv, BuildInv
<1>11. \A x \in Images' : ImageInv(x)'
  <2> TAKE x \in Images'
  <2>1. CASE x \in Images
    <3>1. x \in Int
      BY <2>1, ObjectFields, StatusFields, DeploymentFields DEF IInv, TypeOK, Images
    <3> QED  BY <1>7, <2>1, <3>1 DEF IInv, ImageInv
  <2>2. CASE x = 0
    <3>1. app.spec.build # 0
      BY BuildNumbered, Numbers
    <3> QED  BY <1>7, <2>2, <3>1 DEF ImageInv
  <2> QED  BY <1>2, <2>1, <2>2, NothingFields DEF Images
<1>12. DeployInv'
  <2>1. deploy.template \in Nat
    BY DeploymentFields, Numbers DEF IInv, TypeOK
  <2> QED  BY <1>7, <2>1 DEF IInv, DeployInv
<1>13. ReportInv'
  <2>1. copy.status.observed = copy.spec.generation
    BY DEF IInv, ReportInv
  <2>2. app'.status.observed <= Cur'.generation
        /\ appCache.status.observed <= Cur'.generation
    <3>1. {app.status.observed, appCache.status.observed, copy.status.observed}
             \subseteq Nat
      BY <1>1, StatusFields, Numbers
    <3>2. /\ app.status.observed <= Cur.generation
          /\ appCache.status.observed <= Cur.generation
          /\ copy.status.observed <= Cur.generation
      BY <1>6, <1>7, <2>1 DEF IInv, ReportInv
    <3> QED  BY <1>2, <1>7, <3>1, <3>2
  <2>3. RolledOut' = RolledOut /\ (Autoscaled => Autoscaled')
    BY DEF RolledOut, Autoscaled
  <2>4. pc = "failed" => Autoscaled'
    BY DEF Autoscaled
  <2>5. AllTrue(app'.status) /\ app'.status.observed = app.spec.generation =>
           RolledOut' /\ Autoscaled'
    <3>1. CASE app'.status = app.status
      BY <3>1, <2>3, <2>4 DEF IInv, ReportInv
    <3>2. CASE app'.status = copy.status
      BY <3>2, <2>1, <2>3 DEF IInv, ReportInv
    <3> QED  BY <1>2, <3>1, <3>2
  <2> QED  BY <2>2, <2>5 DEF ReportInv
<1> QED  BY <1>3, <1>4, <1>5, <1>8, <1>9, <1>10, <1>11, <1>12, <1>13 DEF IInv

(* The status is stored, if it changed and the listed version is the stored *)
(* one.                                                                     *)
LEMMA AUpdateStatusStep ==
    ASSUME IInv, AUpdateStatus
    PROVE  IInv'
<1> DEFINE updated == [appCache EXCEPT !.status = copy.status]
<1>1. /\ pc \in {"update", "failed"} /\ pc' = "idle"
      /\ copy' = NoObject /\ original' = NoStatus
      /\ UNCHANGED <<secVars, buildVars, hpaVars, depVars, changes>>
  BY DEF AUpdateStatus
<1>2. queued' \in BOOLEAN /\ (queued => queued') /\ (pc = "failed" => queued')
  BY DEF AUpdateStatus, IInv, TypeOK
<1>3. faults' \in 0..MaxFaults
  BY AppAssumption DEF AUpdateStatus, Fault, IInv, TypeOK
<1>4. app \in Object
  BY DEF IInv, TypeOK
<1>5. CASE UNCHANGED appVars
  BY <1>1, <1>2, <1>3, <1>4, <1>5, RunEnded DEF appVars
<1>6. CASE Store(updated)
  <2>1. /\ appCache = app /\ appCache' = appCache
        /\ app' = updated /\ appWatch' = <<app'>>
    BY <1>6 DEF Store, IInv, Listed
  <2>2. app' \in Object /\ app'.spec = app.spec /\ app'.status = copy.status
    BY <2>1, ObjectFields DEF IInv, TypeOK
  <2> QED  BY <1>1, <1>2, <1>3, <2>1, <2>2, RunEnded
<1> QED  BY <1>5, <1>6 DEF AUpdateStatus

-----------------------------------------------------------------------------
(* The results *)

(* The first push is in a state of the invariant.                           *)
LEMMA InitInv ==
    ASSUME Init
    PROVE  IInv
<1>1. PICK sc \in Scripts :
         /\ changes = <<Head(sc)>>
         /\ app = [spec |-> [Pushed(NoObject, Head(sc)) EXCEPT !.generation = 1],
                   status |-> NoStatus]
  BY DEF Init
<1>2. /\ sc \in Seq(Change) /\ sc # <<>> /\ Head(sc) \in Push /\ Len(sc) \in Nat
  BY AppAssumption
<1>3. Len(sc) >= 1 /\ sc[1] = Head(sc)
  BY <1>2
<1>4. Largest \in Nat /\ Largest >= 1 /\ 1 \in Number /\ 1 \in Number0 /\ -1 \in Image
  <2>1. Len(sc) <= Largest /\ Largest \in Nat
    BY NumberBounds DEF Largest
  <2> QED  BY <1>2, <1>3, <2>1, Numbers
<1>5. /\ 0 \in Number0 /\ 0 \in Image
  BY NothingTyped, Numbers DEF Number0
<1> DEFINE src == Head(sc)
           p == IF src = "build" THEN 1 ELSE 0
           im == IF src = "image" THEN -1 ELSE 0
           pods == [NoSpec EXCEPT !.template = 1, !.services = 0]
           spec == [pods EXCEPT !.source = src, !.build = 1, !.package = p, !.image = im]
           sp == [spec EXCEPT !.generation = 1]
<1>6. app = [spec |-> sp, status |-> NoStatus]
  <2>1. /\ NoObject.spec = NoSpec /\ NoObject.status = NoStatus
        /\ NoSpec.template + 1 = 1 /\ NoSpec.build + 1 = 1 /\ NoStatus.services = 0
    BY DEF NoObject, NoSpec, NoStatus
  <2>2. NewPods(NoSpec, NoStatus) = pods
    BY <2>1 DEF NewPods
  <2> HIDE DEF pods
  <2>3. Pushed(NoObject, src) = spec
    BY <2>1, <2>2 DEF Pushed
  <2> QED  BY <1>1, <2>3
<1>7. p \in Number0 /\ im \in Image /\ im <= 0 /\ im \in Int /\ src \in Push
  BY <1>2, <1>4, <1>5
<1> HIDE DEF p, im, src
<1>8. /\ sp \in AppSpec /\ sp.generation = 1 /\ sp.template = 1
      /\ sp.build = 1 /\ sp.services = 0 /\ sp.image = im
  <2>1. /\ pods \in AppSpec /\ pods.template = 1 /\ pods.services = 0
    BY <1>4, <1>5, NothingTyped DEF AppSpec
  <2> HIDE DEF pods
  <2>2. /\ spec \in AppSpec /\ spec.template = 1 /\ spec.services = 0
        /\ spec.build = 1 /\ spec.image = im
    BY <1>4, <1>7, <2>1 DEF AppSpec
  <2> HIDE DEF spec
  <2> QED  BY <1>4, <2>2 DEF AppSpec
<1> HIDE DEF sp
<1>9. /\ app \in Object /\ app.spec.generation = 1 /\ app.spec.template = 1
      /\ app.spec.build = 1 /\ app.spec.services = 0 /\ app.spec.image = im
      /\ app.status = NoStatus
  BY <1>6, <1>8, NothingTyped DEF Object
<1>10. changes \in Seq(Change) /\ Len(changes) = 1 /\ IsPrefix(changes, sc)
  <2>1. changes = <<sc[1]>> /\ sc[1] \in Change
    BY <1>1, <1>2, <1>3
  <2>2. SubSeq(sc, 1, 1) = <<sc[1]>> /\ SubSeq(changes, 1, 1) = <<sc[1]>>
    <3>1. ASSUME NEW s \in Seq(Change), Len(s) >= 1
          PROVE  SubSeq(s, 1, 1) = <<s[1]>>
      <4>1. SubSeq(s, 1, 1) \in Seq(Change) /\ Len(SubSeq(s, 1, 1)) = 1
        BY <3>1
      <4>2. SubSeq(s, 1, 1)[1] = s[1]
        BY <3>1
      <4>3. \A t \in Seq(Change) : Len(t) = 1 => t = <<t[1]>>
        OBVIOUS
      <4> QED  BY <4>1, <4>2, <4>3
    <3>2. changes \in Seq(Change) /\ Len(changes) >= 1 /\ changes[1] = sc[1]
      BY <2>1
    <3> QED  BY <1>2, <1>3, <3>1, <3>2
  <2> QED  BY <1>2, <1>3, <2>1, <2>2 DEF IsPrefix
<1>11. /\ appCache = app /\ appWatch = <<app>> /\ queued = FALSE
       /\ pc = "idle" /\ copy = NoObject /\ original = NoStatus
       /\ bindings = 0 /\ bindingsSeen = 0 /\ secret = 0 /\ secretSeen = 0
       /\ build = [n \in Number |-> "none"] /\ buildSeen = build
       /\ package = [n \in Number |-> 0] /\ source = {} /\ run = build
       /\ hpa = FALSE /\ hpaSeen = FALSE
       /\ deploy = NoDeployment /\ deploySeen = deploy /\ faults = 0
  BY DEF Init
<1>12. TypeOK
  <2>1. appWatch \in Seq(Object) /\ Len(appWatch) <= 1
    BY <1>9, <1>11
  <2>2. faults \in 0..MaxFaults
    BY <1>11, AppAssumption
  <2> QED
    BY <1>5, <1>9, <1>10, <1>11, <2>1, <2>2, NothingTyped
    DEF TypeOK, BuildState, RunState
<1>13. Listed
  BY <1>9, <1>11, ObjectFields, OlderReflexive DEF Listed
<1>14. Counted
  <2>1. app.spec.generation + bindings = Len(changes)
    BY <1>9, <1>10, <1>11
  <2> QED  BY <1>7, <1>9, <1>10, <1>11, <2>1, NothingFields DEF Counted
<1>15. Environment
  BY <1>9, <1>11, NothingFields DEF Environment, Working, NoDeployment, NoStatus
<1>16. Cur = app.spec
  BY <1>11 DEF Cur
<1>17. \A n \in Number : BuildInv(n)
  BY <1>11 DEF BuildInv, IsStatusFinal
<1>18. \A x \in Images : ImageInv(x)
  <2>1. Images \subseteq {0}
    BY <1>9, <1>11, NothingFields DEF Images, NoStatus, NoDeployment
  <2> QED  BY <1>9, <1>16, <2>1 DEF ImageInv
<1>19. BuiltInv /\ NewPodsHaveServices
  BY <1>11 DEF BuiltInv, Built, NewPodsHaveServices, NoDeployment
<1>20. DeployInv
  BY <1>9, <1>11, <1>16 DEF DeployInv, NoDeployment
<1>21. ReportInv
  BY <1>9, <1>11, <1>16 DEF ReportInv, NoStatus
<1> QED
  BY <1>11, <1>12, <1>13, <1>14, <1>15, <1>17, <1>18, <1>19, <1>20, <1>21 DEF IInv

(* Every step keeps the invariant.                                          *)
LEMMA NextInv ==
    ASSUME IInv, [Next]_vars
    PROVE  IInv'
<1>1. CASE AppReconciler
  BY <1>1, ABeginStep, AImageStep, ABuildStep, AHorizontalPodAutoscalerStep,
     ADeploymentStep, AUpdateStatusStep DEF AppReconciler
<1>2. CASE Deliver
  BY <1>2, DeliverAppStep, DeliverSecretStep, DeliverBindingStep, DeliverAutoscalerStep,
     DeliverDeploymentStep, DeliverBuildStep DEF Deliver
<1>3. CASE User
  BY <1>3, PushAgainStep, RestageStep, RestartStep, AutoscaleStep, BindStep, UploadStep
     DEF User
<1>4. CASE RollsOut \/ SReconcile
  BY <1>4, RollsOutStep, SReconcileStep
<1>5. CASE \E n \in Number : BuildReconciler(n) \/ BFails(n) \/ RunEnds(n) \/ GCBuild(n)
  BY <1>5, BStartStep, BFinishStep, BFailsStep, RunEndsStep, GCBuildStep
     DEF BuildReconciler
<1>6. CASE UNCHANGED vars
  <2>1. TypeOK'
    BY <1>6 DEF IInv, TypeOK, vars, appVars, recVars, secVars, buildVars, hpaVars,
                depVars
  <2> QED  BY <1>6, <2>1, Untouched DEF vars, buildVars
<1> QED  BY <1>1, <1>2, <1>3, <1>4, <1>5, <1>6 DEF Next

(* The invariant holds throughout.                                          *)
LEMMA Invariant == Spec => []IInv
<1>1. Init => IInv
  BY InitInv
<1>2. IInv /\ [Next]_vars => IInv'
  BY NextInv
<1> QED  BY <1>1, <1>2, PTL DEF Spec

(* Every variable keeps the shape of the Go value it stands for: no run, no *)
(* lister and no user takes a number beyond what users did.                 *)
THEOREM TypeCorrect == Spec => []TypeOK
<1>1. IInv => TypeOK
  BY DEF IInv
<1> QED  BY <1>1, Invariant, PTL

(* New Pods have every service that the App showed when they were asked     *)
(* for, however far behind the listers are that the Secret is made from.    *)
THEOREM NewPodsHaveServicesHolds == Spec => []NewPodsHaveServices
<1>1. IInv => NewPodsHaveServices
  BY DEF IInv
<1> QED  BY <1>1, Invariant, PTL

(* An App that reports Ready for its current spec has the Deployment, image *)
(* and autoscaler that the spec asks for, although its status is put        *)
(* together from listers and stored into a version listed later.            *)
THEOREM ReadyIsRealHolds == Spec => []ReadyIsReal
<1>1. IInv => ReadyIsReal
  <2> SUFFICES ASSUME IInv, Ready = "True", app.status.observed = app.spec.generation
               PROVE  /\ hpa = app.spec.autoscale \/ hpaSeen # hpa \/ queued \/ pc # "idle"
                      /\ RolledOut
    BY DEF ReadyIsReal, RolledOut
  <2>1. AllTrue(app.status)
    BY DEF Ready, AllTrue
  <2>2. RolledOut /\ (Autoscaled \/ pc \in {"build", "hpa", "failed"})
    BY <2>1 DEF IInv, ReportInv
  <2> QED  BY <2>2 DEF Autoscaled
<1> QED  BY <1>1, Invariant, PTL

(* A Build that was collected is never made again: the garbage collector    *)
(* leaves the one that the reconciler is at, and no outdated copy brings    *)
(* back an earlier one.                                                     *)
THEOREM BuildsOnceHolds == Spec => BuildsOnce
<1>1. ASSUME IInv, [Next]_vars, NEW n \in Number, build[n] = "gone"
      PROVE  build'[n] = "gone"
  <2>1. build \in [Number -> BuildState]
    BY <1>1 DEF IInv, TypeOK
  <2>2. CASE ABuild
    <3>1. copy.spec.build \in Number /\ copy.spec.build # n
      BY <1>1, <2>2, BuildNumbered, CurrentKept DEF ABuild
    <3>2. build' = build \/ build' = [build EXCEPT ![copy.spec.build] = "Unknown"]
      BY <2>2 DEF ABuild
    <3> QED  BY <1>1, <2>1, <3>1, <3>2
  <2>3. CASE \E m \in Number : BFinish(m) \/ BFails(m) \/ GCBuild(m)
    <3>1. PICK m \in Number : BFinish(m) \/ BFails(m) \/ GCBuild(m)
      BY <2>3
    <3>2. CASE BFinish(m) \/ BFails(m)
      <4>1. m # n
        BY <1>1, <3>2 DEF BFinish, BFails
      <4>2. PICK s : build' = [build EXCEPT ![m] = s]
        BY <3>2 DEF BFinish, BFails
      <4> QED  BY <1>1, <2>1, <4>1, <4>2
    <3>3. CASE GCBuild(m)
      BY <1>1, <2>1, <3>3 DEF GCBuild
    <3> QED  BY <3>1, <3>2, <3>3
  <2>4. CASE ABegin \/ AImage \/ AHorizontalPodAutoscaler \/ ADeployment \/ AUpdateStatus
    BY <1>1, <2>4
    DEF ABegin, AImage, AHorizontalPodAutoscaler, ADeployment, AUpdateStatus, buildVars
  <2>5. CASE Deliver
    BY <1>1, <2>5
    DEF Deliver, DeliverApp, DeliverSecret, DeliverBinding, DeliverAutoscaler,
        DeliverDeployment, DeliverBuild, buildVars
  <2>6. CASE User
    BY <1>1, <2>6
    DEF User, PushAgain, Restage, Restart, Autoscale, Bind, Upload, Update, buildVars
  <2>7. CASE RollsOut \/ SReconcile \/ \E m \in Number : BStart(m) \/ RunEnds(m)
    BY <1>1, <2>7 DEF RollsOut, SReconcile, BStart, RunEnds, buildVars
  <2>8. CASE UNCHANGED vars
    BY <1>1, <2>8 DEF vars, buildVars
  <2> QED
    BY <1>1, <2>2, <2>3, <2>4, <2>5, <2>6, <2>7, <2>8
    DEF Next, AppReconciler, BuildReconciler
<1>2. IInv /\ [Next]_vars =>
         [\A n \in Number : build[n] = "gone" => build'[n] = "gone"]_vars
  BY <1>1
<1> QED  BY <1>2, Invariant, PTL DEF Spec, BuildsOnce
==============================================================================
