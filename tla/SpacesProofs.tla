---------------------------- MODULE SpacesProofs ----------------------------
(***************************************************************************)
(* Proofs about Spaces, for any number of Spaces, workers and parts, and   *)
(* everything that users may do to them.                                   *)
(*                                                                         *)
(* That a Space is Ready only once its policy was in force is not          *)
(* inductive: the condition is carried from run to run, and a run writes   *)
(* what it found about one version of the Space into a later one.  The     *)
(* invariant follows the condition through the lister and the run, and     *)
(* says why a run of a live Space has that Space in what it listed.  That  *)
(* the policy in force names a Ready Space once nothing is left to do      *)
(* rests on what a run that was not overtaken leaves behind: the listed    *)
(* policy then is the one that it found good.                              *)
(***************************************************************************)
EXTENDS Spaces, WellFoundedInduction, TLAPS

-----------------------------------------------------------------------------
(* The inductive invariant *)

\* The Space o, of name s, claims its policy only if one was in force, and is
\* Ready only if it claims it.
Claims(s, o) ==
    wi /\ o.phase = "live" /\ o.status["IAMPolicy"] = "True" => s \in granted
Summed(o) ==
    o.phase = "live" /\ o.ready = "True" => o.status["IAMPolicy"] = "True"

Busy(s) == run[s].pc # "idle"

\* The run for s works on a Space that is there and was listed so.
AtLive(s) == Busy(s) /\ run[s].seen.phase = "live" /\ space[s].phase = "live"

\* A policy with good conditions of its own, and one such that names s.
Good(p) == p.observed /\ p.conds = "True"
Names(p, s) == Good(p) /\ s \in p.members

\* A Space that changes under its run is enqueued.
Watched(s) == Busy(s) => spaceSeen[s] = run[s].seen \/ s \in queue

\* What is true of a Ready Space that there is nothing to do for.
Settled(s) ==
    /\ wi /\ space[s].phase = "live" /\ space[s].ready = "True"
    /\ spaceSeen[s] = space[s] /\ s \notin queue /\ run[s].pc = "idle"
    => Names(policySeen, s)

SpaceInv(s) ==
    /\ space[s].phase = "none" => space[s] = NoSpace
    /\ Claims(s, space[s]) /\ Claims(s, spaceSeen[s])
    /\ Summed(space[s]) /\ Summed(spaceSeen[s])
    /\ spaceSeen[s].phase = "terminating" => space[s].phase # "live"
    /\ Busy(s) /\ run[s].seen.phase = "terminating" => space[s].phase # "live"
    /\ run[s].pc = "parts" => run[s].seen.phase = "live" /\ run[s].step # 0
    /\ AtLive(s) =>
          /\ spaceSeen[s].phase = "live"
          /\ run[s].pc = "policy" => s \in run[s].listed
          /\ wi /\ run[s].status["IAMPolicy"] = "True" => s \in granted
    /\ Watched(s) /\ Settled(s)

\* A policy in force grants what it names, and what was granted stays.
InForce(p) == Good(p) => p.members \subseteq granted
Applied == Good(policy) => policy.members \subseteq inForce

IInv ==
    /\ TypeOK
    /\ InForce(policy) /\ InForce(policySeen) /\ Applied
    /\ \A s \in SpaceNames : SpaceInv(s)

-----------------------------------------------------------------------------
(* Types *)

(* The parts and their conditions.                                          *)
LEMMA PartsTyped ==
    /\ Len(Parts) \in Nat
    /\ \A i \in 1..Len(Parts) :
          Parts[i] \in PartNames /\ Parts[i] \in Conds /\ Parts[i] # "IAMPolicy"
    /\ "IAMPolicy" \in Conds
    /\ {"Namespace", "RoleBindings", "ClusterRoleBindings"} \subseteq PartNames
<1>1. Len(Parts) \in Nat
  BY SpacesAssumption
<1>2. "IAMPolicy" \notin PartNames
  BY SpacesAssumption
<1>3. \A i \in 1..Len(Parts) : Parts[i] \in PartNames
  BY DEF PartNames
<1> QED  BY <1>1, <1>2, <1>3, SpacesAssumption DEF Conds

(* What there is before there is anything.                                  *)
LEMMA NothingTyped ==
    /\ NewStatus \in Status /\ NoSpace \in Space /\ IdleRun \in Run
    /\ NoPart \in Part /\ NoPolicy \in Policy
<1>1. NewStatus \in Status
  BY DEF NewStatus, Status, ConditionStatus
<1>2. NoSpace \in Space
  BY <1>1 DEF NoSpace, Space, ConditionStatus
<1>3. IdleRun \in Run
  BY <1>1, <1>2, PartsTyped DEF IdleRun, Run
<1>4. NoPart \in Part /\ NoPolicy \in Policy
  BY DEF NoPart, Part, NoPolicy, Policy, ConditionStatus
<1> QED  BY <1>1, <1>2, <1>3, <1>4

(* A part that is as it should be.                                          *)
LEMMA DesiredTyped ==
    ASSUME TypeOK, NEW s \in SpaceNames, NEW p \in PartNames
    PROVE  Desired(s, p) \in Part
BY DEF Desired, GoodPart, Part, FilterSubjectsByClusterRole, RoleNames

(* Of the natural numbers of a set that has some there is a least one.      *)
LEMMA LeastNumber ==
    ASSUME NEW T \in SUBSET Nat, T # {}
    PROVE  \E x \in T : \A y \in T : x <= y
<1>1. IsWellFoundedOn(OpToRel(<, Nat), Nat)
  BY NatLessThanWellFounded
<1>2. \E x \in T : \A y \in T : ~(<<y, x>> \in OpToRel(<, Nat))
  BY <1>1, WFMin
<1>3. ASSUME NEW x \in T, NEW y \in T, ~(<<y, x>> \in OpToRel(<, Nat))
      PROVE  x <= y
  BY <1>3 DEF OpToRel
<1> QED  BY <1>2, <1>3

(* The first part that needs a write is one, or there is none.              *)
LEMMA NextPartFound ==
    ASSUME NEW s, NEW k \in 1..Len(Parts) + 1
    PROVE  NextPart(s, k) \in k..Len(Parts) + 1
<1> DEFINE n == Len(Parts) + 1
           Stop(j) == j = n \/ ~UpToDate(s, Parts[j])
           T == {j \in k..n : Stop(j)}
<1>1. n \in Nat /\ k \in Nat /\ k <= n /\ k >= 1
  BY PartsTyped
<1>2. T \in SUBSET Nat /\ n \in T
  BY <1>1
<1> HIDE DEF T
<1>3. PICK j \in T : \A i \in T : j <= i
  BY <1>2, LeastNumber
<1>4. j \in k..n /\ Stop(j)
  BY DEF T
<1>5. ASSUME NEW i \in k..j - 1
      PROVE  UpToDate(s, Parts[i])
  <2>1. i \in k..n /\ i \in Nat /\ j \in Nat /\ i < j
    BY <1>1, <1>4, <1>5
  <2>2. i \notin T
    BY <1>3, <2>1
  <2> QED  BY <2>1, <2>2 DEF T
<1>6. \E i \in k..Len(Parts) + 1 :
         /\ i = Len(Parts) + 1 \/ ~UpToDate(s, Parts[i])
         /\ \A h \in k..i - 1 : UpToDate(s, Parts[h])
  BY <1>4, <1>5
<1> QED  BY <1>6 DEF NextPart

(* A run that goes on keeps what it began with, and its policy condition;   *)
(* it is at a part, or has listed the Spaces.                               *)
LEMMA ContinueTyped ==
    ASSUME NEW s, NEW r \in Run, NEW k \in 1..Len(Parts) + 1
    PROVE  LET q == Continue(s, r, k)
           IN  /\ q \in Run /\ q.pc \in {"parts", "policy"} /\ q.seen = r.seen
               /\ q.status["IAMPolicy"] = r.status["IAMPolicy"]
               /\ q.pc = "parts" => q.step # 0
               /\ q.pc = "policy" => q.listed = Live(spaceSeen)
<1> DEFINE j == NextPart(s, k)
           status == [c \in Conds |-> IF \E i \in k..j - 1 : Parts[i] = c
                                        THEN "True" ELSE r.status[c]]
<1>1. j \in k..Len(Parts) + 1
  BY NextPartFound
<1> HIDE DEF j
<1>2. Len(Parts) \in Nat /\ k >= 1 /\ k \in Nat
  BY PartsTyped
<1>3. r.status \in Status
  BY DEF Run
<1>4. status \in Status
  BY <1>3 DEF Status, ConditionStatus
<1>5. status["IAMPolicy"] = r.status["IAMPolicy"]
  <2>1. ASSUME NEW i \in k..j - 1
        PROVE  Parts[i] # "IAMPolicy"
    <3>1. i \in 1..Len(Parts)
      BY <1>1, <1>2, <2>1
    <3> QED  BY <3>1, PartsTyped
  <2> QED  BY <2>1, PartsTyped
<1> HIDE DEF status
<1>6. CASE j <= Len(Parts)
  <2> DEFINE q == [r EXCEPT !.pc = "parts", !.step = j, !.status = status]
  <2>1. j \in 0..Len(Parts) /\ j # 0
    BY <1>1, <1>2, <1>6
  <2>2. /\ q \in Run /\ q.pc = "parts" /\ q.seen = r.seen /\ q.status = status
        /\ q.step # 0
    BY <1>4, <2>1 DEF Run
  <2>3. Continue(s, r, k) = q
    BY <1>6 DEF Continue, j, status
  <2> HIDE DEF q
  <2> QED  BY <1>5, <2>2, <2>3
<1>7. CASE ~(j <= Len(Parts))
  <2> DEFINE q == [r EXCEPT !.pc = "policy", !.step = 0, !.status = status,
                            !.listed = Live(spaceSeen)]
  <2>1. 0 \in 0..Len(Parts) /\ Live(spaceSeen) \subseteq SpaceNames
    BY <1>2 DEF Live
  <2>2. /\ q \in Run /\ q.pc = "policy" /\ q.seen = r.seen /\ q.status = status
        /\ q.listed = Live(spaceSeen)
    BY <1>4, <2>1 DEF Run
  <2>3. Continue(s, r, k) = q
    BY <1>7 DEF Continue, j, status
  <2> HIDE DEF q
  <2> QED  BY <1>5, <2>2, <2>3
<1> QED  BY <1>6, <1>7

-----------------------------------------------------------------------------
(* Users, the informers, Kubernetes and Config Connector *)

(* What becomes of the parts has no bearing on the policy.                  *)
LEMMA OnlyParts ==
    ASSUME IInv, TypeOK', queue \subseteq queue',
           UNCHANGED <<spaceVars, policyVars, run, iamVars>>
    PROVE  IInv'
BY DEF IInv, SpaceInv, Claims, Summed, Busy, AtLive, Watched, Settled, iamVars, policyVars, InForce, Applied, Good,
       spaceVars

(* What users still have to do gets shorter.                                *)
LEMMA ChangeTyped ==
    ASSUME TypeOK, NEW op, NEW s, Change(op, s)
    PROVE  todo' \in Seq([op: Operation, at: SpaceNames])
<1> DEFINE T == [op: Operation, at: SpaceNames]
<1>1. todo \in Seq(T) /\ todo # <<>> /\ todo' = Tail(todo)
  BY DEF TypeOK, Change
<1> HIDE DEF T
<1>2. todo' \in Seq(T)
  BY <1>1
<1> QED  BY <1>2 DEF T

(* A part of a Space changes.                                               *)
LEMMA PartSet ==
    ASSUME NEW f \in [SpaceNames -> [PartNames -> Part]], NEW s \in SpaceNames,
           NEW p \in PartNames, NEW o \in Part
    PROVE  [f EXCEPT ![s][p] = o] \in [SpaceNames -> [PartNames -> Part]]
<1> DEFINE g == [f[s] EXCEPT ![p] = o]
<1>1. g \in [PartNames -> Part]
  OBVIOUS
<1>2. [f EXCEPT ![s][p] = o] = [f EXCEPT ![s] = g]
  OBVIOUS
<1> HIDE DEF g
<1> QED  BY <1>1, <1>2

(* Roles are given and taken.                                               *)
LEMMA EditRolesStep ==
    ASSUME IInv, NEW s \in SpaceNames, NEW r \in RoleNames, EditRoles(s, r)
    PROVE  IInv'
<1> DEFINE old == part[s]["RoleBindings"]
           rs == IF r \in old.roles THEN old.roles \ {r} ELSE old.roles \union {r}
           new == [old EXCEPT !.roles = rs]
<1>1. UNCHANGED <<spaceVars, partSeen, policyVars, queue, run, iamVars, faults>>
  BY DEF EditRoles
<1>2. part \in [SpaceNames -> [PartNames -> Part]] /\ old \in Part
  BY PartsTyped DEF IInv, TypeOK
<1>3. new \in Part
  BY <1>2 DEF Part
<1>4. part' = [part EXCEPT ![s]["RoleBindings"] = new]
  BY DEF EditRoles
<1> HIDE DEF new
<1>5. part' \in [SpaceNames -> [PartNames -> Part]]
  BY <1>2, <1>3, <1>4, PartSet, PartsTyped
<1>6. todo' \in Seq([op: Operation, at: SpaceNames])
  BY ChangeTyped DEF EditRoles, IInv
<1>7. TypeOK'
  BY <1>1, <1>5, <1>6 DEF IInv, TypeOK, iamVars, spaceVars, policyVars
<1> QED  BY <1>1, <1>7, OnlyParts

(* An object is edited.                                                     *)
LEMMA EditPartStep ==
    ASSUME IInv, NEW s \in SpaceNames, NEW p \in PartNames, EditPart(s, p)
    PROVE  IInv'
<1> DEFINE old == part[s][p]
           new == [old EXCEPT !.is = "edited"]
<1>1. UNCHANGED <<spaceVars, partSeen, policyVars, queue, run, iamVars, faults>>
  BY DEF EditPart
<1>2. part \in [SpaceNames -> [PartNames -> Part]] /\ old \in Part
  BY DEF IInv, TypeOK
<1>3. new \in Part
  BY <1>2 DEF Part
<1>4. part' = [part EXCEPT ![s][p] = new]
  BY DEF EditPart
<1> HIDE DEF new
<1>5. part' \in [SpaceNames -> [PartNames -> Part]]
  BY <1>2, <1>3, <1>4, PartSet
<1>6. todo' \in Seq([op: Operation, at: SpaceNames])
  BY ChangeTyped DEF EditPart, IInv
<1>7. TypeOK'
  BY <1>1, <1>5, <1>6 DEF IInv, TypeOK, iamVars, spaceVars, policyVars
<1> QED  BY <1>1, <1>7, OnlyParts

(* A namespace is being deleted.                                            *)
LEMMA DeleteNamespaceStep ==
    ASSUME IInv, NEW s \in SpaceNames, DeleteNamespace(s)
    PROVE  IInv'
<1> DEFINE old == part[s]["Namespace"]
           new == [old EXCEPT !.is = "terminating"]
<1>1. UNCHANGED <<spaceVars, partSeen, policyVars, queue, run, iamVars, faults>>
  BY DEF DeleteNamespace
<1>2. part \in [SpaceNames -> [PartNames -> Part]] /\ old \in Part
  BY PartsTyped DEF IInv, TypeOK
<1>3. new \in Part
  BY <1>2 DEF Part
<1>4. part' = [part EXCEPT ![s]["Namespace"] = new]
  BY DEF DeleteNamespace
<1> HIDE DEF new
<1>5. part' \in [SpaceNames -> [PartNames -> Part]]
  BY <1>2, <1>3, <1>4, PartSet, PartsTyped
<1>6. todo' \in Seq([op: Operation, at: SpaceNames])
  BY ChangeTyped DEF DeleteNamespace, IInv
<1>7. TypeOK'
  BY <1>1, <1>5, <1>6 DEF IInv, TypeOK, iamVars, spaceVars, policyVars
<1> QED  BY <1>1, <1>7, OnlyParts

(* Another owner's object gets in the way.                                  *)
LEMMA ForeignPartStep ==
    ASSUME IInv, NEW s \in SpaceNames, NEW p \in PartNames, ForeignPart(s, p)
    PROVE  IInv'
<1> DEFINE old == part[s][p]
           new == [old EXCEPT !.is = "foreign"]
<1>1. UNCHANGED <<spaceVars, partSeen, policyVars, queue, run, iamVars, faults>>
  BY DEF ForeignPart
<1>2. part \in [SpaceNames -> [PartNames -> Part]] /\ old \in Part
  BY DEF IInv, TypeOK
<1>3. new \in Part
  BY <1>2 DEF Part
<1>4. part' = [part EXCEPT ![s][p] = new]
  BY DEF ForeignPart
<1> HIDE DEF new
<1>5. part' \in [SpaceNames -> [PartNames -> Part]]
  BY <1>2, <1>3, <1>4, PartSet
<1>6. todo' \in Seq([op: Operation, at: SpaceNames])
  BY ChangeTyped DEF ForeignPart, IInv
<1>7. TypeOK'
  BY <1>1, <1>5, <1>6 DEF IInv, TypeOK, iamVars, spaceVars, policyVars
<1> QED  BY <1>1, <1>7, OnlyParts

(* It goes, and what is in it.                                              *)
LEMMA ReleasePartStep ==
    ASSUME IInv, NEW s \in SpaceNames, NEW p \in PartNames, ReleasePart(s, p)
    PROVE  IInv'
<1> DEFINE new == [q \in PartNames |->
                      IF q = p \/ (p = "Namespace" /\ InNamespace(q)) THEN NoPart
                      ELSE part[s][q]]
<1>1. UNCHANGED <<spaceVars, partSeen, policyVars, queue, run, iamVars, faults>>
  BY DEF ReleasePart
<1>2. part \in [SpaceNames -> [PartNames -> Part]]
  BY DEF IInv, TypeOK
<1>3. new \in [PartNames -> Part]
  BY <1>2, NothingTyped
<1>4. part' = [part EXCEPT ![s] = new]
  BY <1>2 DEF ReleasePart
<1> HIDE DEF new
<1>5. todo' \in Seq([op: Operation, at: SpaceNames])
  BY ChangeTyped DEF ReleasePart, IInv
<1>6. TypeOK'
  BY <1>1, <1>2, <1>3, <1>4, <1>5 DEF IInv, TypeOK, iamVars, spaceVars, policyVars
<1> QED  BY <1>1, <1>6, OnlyParts

(* A namespace goes, and what is in it.                                     *)
LEMMA NamespaceGoneStep ==
    ASSUME IInv, NEW s \in SpaceNames, NamespaceGone(s)
    PROVE  IInv'
<1> DEFINE new == [p \in PartNames |-> IF p = "Namespace" \/ InNamespace(p) THEN NoPart
                                       ELSE part[s][p]]
<1>1. UNCHANGED <<spaceVars, partSeen, policyVars, queue, run, iamVars, todo, faults>>
  BY DEF NamespaceGone
<1>2. part \in [SpaceNames -> [PartNames -> Part]]
  BY DEF IInv, TypeOK
<1>3. new \in [PartNames -> Part]
  BY <1>2, NothingTyped
<1>4. part' = [part EXCEPT ![s] = new]
  BY <1>2 DEF NamespaceGone
<1> HIDE DEF new
<1>5. TypeOK'
  BY <1>1, <1>2, <1>3, <1>4 DEF IInv, TypeOK, iamVars, spaceVars, policyVars
<1> QED  BY <1>1, <1>5, OnlyParts

(* A part is delivered.                                                     *)
LEMMA DeliverPartStep ==
    ASSUME IInv, NEW s \in SpaceNames, NEW p \in PartNames, DeliverPart(s, p)
    PROVE  IInv'
<1>1. /\ partSeen' = [partSeen EXCEPT ![s][p] = part[s][p]]
      /\ queue' = queue \union {s}
      /\ UNCHANGED <<spaceVars, part, policyVars, run, iamVars, todo, faults>>
  BY DEF DeliverPart, Enqueue
<1>2. partSeen' \in [SpaceNames -> [PartNames -> Part]]
  <2>1. part[s][p] \in Part /\ partSeen \in [SpaceNames -> [PartNames -> Part]]
    BY DEF IInv, TypeOK
  <2> QED  BY <1>1, <2>1, PartSet
<1>3. TypeOK'
  BY <1>1, <1>2 DEF IInv, TypeOK, iamVars, spaceVars, policyVars
<1> QED  BY <1>1, <1>3, OnlyParts

(* A Space of type Space, with another status.                              *)
LEMMA SpaceSet ==
    ASSUME NEW o \in Space
    PROVE  /\ o.status \in Status /\ o.phase \in {"none", "live", "terminating"}
           /\ \A st \in Status, v \in ConditionStatus :
                 LET q == [o EXCEPT !.status = st, !.ready = v]
                 IN  /\ q \in Space /\ q.status = st /\ q.ready = v
                     /\ q.phase = o.phase
BY DEF Space

(* A Space that is new is not Ready.                                        *)
LEMMA CreateSpaceStep ==
    ASSUME IInv, NEW s \in SpaceNames, CreateSpace(s)
    PROVE  IInv'
<1> DEFINE new == [NoSpace EXCEPT !.phase = "live"]
<1>1. /\ space[s].phase = "none" /\ spaceSeen[s].phase = "none" /\ run[s].pc = "idle"
      /\ UNCHANGED <<spaceSeen, partVars, policyVars, queue, run, iamVars, faults>>
  BY DEF CreateSpace
<1>2. space \in [SpaceNames -> Space] /\ space[s] \in Space
  BY DEF IInv, TypeOK
<1>3. space' = [space EXCEPT ![s] = new]
  BY <1>2 DEF CreateSpace
<1>4. /\ new \in Space /\ new.status = NewStatus /\ new.phase = "live"
      /\ new.ready = "Unknown"
  BY NothingTyped DEF Space, NoSpace
<1> HIDE DEF new
<1>5. todo' \in Seq([op: Operation, at: SpaceNames])
  BY ChangeTyped DEF CreateSpace, IInv
<1>6. TypeOK'
  BY <1>1, <1>2, <1>3, <1>4, <1>5 DEF IInv, TypeOK, iamVars, partVars, policyVars
<1>7. ASSUME NEW t \in SpaceNames
      PROVE  SpaceInv(t)'
  <2>1. CASE t = s
    <3>1. space'[s] = new /\ new.status["IAMPolicy"] = "Unknown"
      BY <1>2, <1>3, <1>4, PartsTyped DEF NewStatus
    <3> QED  BY <1>1, <1>4, <2>1, <3>1 DEF IInv, SpaceInv, Claims, Summed, Busy, AtLive, Watched, Settled, iamVars, policyVars
  <2>2. CASE t # s
    <3>1. space'[t] = space[t]
      BY <1>2, <1>3, <2>2
    <3> QED  BY <1>1, <3>1 DEF IInv, SpaceInv, Claims, Summed, Busy, AtLive, Watched, Settled, iamVars, policyVars
  <2> QED  BY <2>1, <2>2
<1> QED  BY <1>1, <1>6, <1>7 DEF IInv, InForce, Applied, Good, policyVars, iamVars

(* A Space is being deleted.                                                *)
LEMMA DeleteSpaceStep ==
    ASSUME IInv, NEW s \in SpaceNames, DeleteSpace(s)
    PROVE  IInv'
<1> DEFINE new == [space[s] EXCEPT !.phase = "terminating"]
<1>1. UNCHANGED <<spaceSeen, partVars, policyVars, queue, run, iamVars, faults>>
  BY DEF DeleteSpace
<1>2. space \in [SpaceNames -> Space] /\ space[s] \in Space
  BY DEF IInv, TypeOK
<1>3. space' = [space EXCEPT ![s] = new]
  BY <1>2 DEF DeleteSpace
<1>4. new \in Space /\ new.phase = "terminating"
  BY <1>2 DEF Space
<1> HIDE DEF new
<1>5. todo' \in Seq([op: Operation, at: SpaceNames])
  BY ChangeTyped DEF DeleteSpace, IInv
<1>6. TypeOK'
  BY <1>1, <1>2, <1>3, <1>4, <1>5 DEF IInv, TypeOK, iamVars, partVars, policyVars
<1>7. ASSUME NEW t \in SpaceNames
      PROVE  SpaceInv(t)'
  <2>1. CASE t = s
    <3>1. space'[s] = new
      BY <1>2, <1>3
    <3> QED  BY <1>1, <1>4, <2>1, <3>1 DEF IInv, SpaceInv, Claims, Summed, Busy, AtLive, Watched, Settled, iamVars, policyVars
  <2>2. CASE t # s
    <3>1. space'[t] = space[t]
      BY <1>2, <1>3, <2>2
    <3> QED  BY <1>1, <3>1 DEF IInv, SpaceInv, Claims, Summed, Busy, AtLive, Watched, Settled, iamVars, policyVars
  <2> QED  BY <2>1, <2>2
<1> QED  BY <1>1, <1>6, <1>7 DEF IInv, InForce, Applied, Good, policyVars, iamVars

(* A Space goes.                                                            *)
LEMMA SpaceGoneStep ==
    ASSUME IInv, NEW s \in SpaceNames, SpaceGone(s)
    PROVE  IInv'
<1> DEFINE left == [p \in PartNames |->
                       IF part[s][p].is = "foreign"
                            /\ (InNamespace(p) => NamespaceOf(s) = "foreign")
                         THEN part[s][p] ELSE NoPart]
<1>1. /\ space' = [space EXCEPT ![s] = NoSpace]
      /\ partSeen' = [partSeen EXCEPT ![s] = part'[s]]
      /\ queue' = queue \union {s}
      /\ UNCHANGED <<spaceSeen, policyVars, run, iamVars, todo, faults>>
  BY DEF SpaceGone, Enqueue
<1>2. /\ space \in [SpaceNames -> Space] /\ part \in [SpaceNames -> [PartNames -> Part]]
      /\ partSeen \in [SpaceNames -> [PartNames -> Part]]
  BY DEF IInv, TypeOK
<1>3. left \in [PartNames -> Part]
  BY <1>2, NothingTyped
<1>4. part' = [part EXCEPT ![s] = left]
  BY <1>2 DEF SpaceGone
<1> HIDE DEF left
<1>5. /\ space' \in [SpaceNames -> Space] /\ part' \in [SpaceNames -> [PartNames -> Part]]
      /\ partSeen' \in [SpaceNames -> [PartNames -> Part]]
  BY <1>1, <1>2, <1>3, <1>4, NothingTyped
<1>6. TypeOK'
  BY <1>1, <1>5 DEF IInv, TypeOK, iamVars, policyVars
<1>7. ASSUME NEW t \in SpaceNames
      PROVE  SpaceInv(t)'
  <2>1. CASE t = s
    <3>1. space'[s] = NoSpace /\ NoSpace.phase = "none"
      BY <1>1, <1>2 DEF NoSpace
    <3> QED  BY <1>1, <2>1, <3>1 DEF IInv, SpaceInv, Claims, Summed, Busy, AtLive, Watched, Settled, iamVars, policyVars
  <2>2. CASE t # s
    <3>1. space'[t] = space[t]
      BY <1>1, <1>2, <2>2
    <3> QED  BY <1>1, <3>1 DEF IInv, SpaceInv, Claims, Summed, Busy, AtLive, Watched, Settled, iamVars, policyVars
  <2> QED  BY <2>1, <2>2
<1> QED  BY <1>1, <1>6, <1>7 DEF IInv, InForce, Applied, Good, policyVars, iamVars

(* A Space is delivered.                                                    *)
LEMMA DeliverSpaceStep ==
    ASSUME IInv, NEW s \in SpaceNames, DeliverSpace(s)
    PROVE  IInv'
<1>1. /\ spaceSeen' = [spaceSeen EXCEPT ![s] = space[s]]
      /\ queue' = queue \union {s}
      /\ UNCHANGED <<space, partVars, policyVars, run, iamVars, todo, faults>>
  BY DEF DeliverSpace, Enqueue
<1>2. space[s] \in Space /\ spaceSeen \in [SpaceNames -> Space]
  BY DEF IInv, TypeOK
<1>3. TypeOK'
  BY <1>1, <1>2 DEF IInv, TypeOK, iamVars, partVars, policyVars
<1>4. ASSUME NEW t \in SpaceNames
      PROVE  SpaceInv(t)'
  <2>1. CASE t = s
    <3>1. spaceSeen'[s] = space[s]
      BY <1>1, <1>2
    <3> QED  BY <1>1, <2>1, <3>1 DEF IInv, SpaceInv, Claims, Summed, Busy, AtLive, Watched, Settled, iamVars, policyVars
  <2>2. CASE t # s
    <3>1. spaceSeen'[t] = spaceSeen[t]
      BY <1>1, <1>2, <2>2
    <3> QED  BY <1>1, <3>1 DEF IInv, SpaceInv, Claims, Summed, Busy, AtLive, Watched, Settled, iamVars, policyVars
  <2> QED  BY <2>1, <2>2
<1> QED  BY <1>1, <1>3, <1>4 DEF IInv, InForce, Applied, Good, policyVars, iamVars

(* The policy is delivered.                                                 *)
LEMMA DeliverPolicyStep ==
    ASSUME IInv, DeliverPolicy
    PROVE  IInv'
<1>1. /\ policySeen' = policy
      /\ queue' = queue \union pickASpaceHandler
      /\ UNCHANGED <<spaceVars, partVars, policy, run, iamVars, todo, faults>>
  BY DEF DeliverPolicy, Enqueue
<1>2. TypeOK'
  BY <1>1 DEF IInv, TypeOK, iamVars, pickASpaceHandler, spaceVars, partVars
<1>3. ASSUME NEW t \in SpaceNames
      PROVE  SpaceInv(t)'
  <2>1. spaceSeen[t] = space[t] /\ space[t].phase = "live" => t \in queue'
    BY <1>1 DEF pickASpaceHandler
  <2> QED
    BY <1>1, <2>1 DEF IInv, SpaceInv, Claims, Summed, Busy, AtLive, Watched, Settled,
                      iamVars, spaceVars
<1> QED  BY <1>1, <1>2, <1>3 DEF IInv, InForce, Applied, iamVars

(* The policy is put in force.                                              *)
LEMMA ApplyPolicyStep ==
    ASSUME IInv, ApplyPolicy
    PROVE  IInv'
<1>1. /\ policy' = [policy EXCEPT !.observed = TRUE, !.conds = "True"]
      /\ inForce' = policy.members /\ granted' = granted \union policy.members
      /\ UNCHANGED <<spaceVars, partVars, policySeen, queue, run, wi, todo, faults>>
  BY DEF ApplyPolicy
<1>2. /\ policy' \in Policy /\ policy'.members = policy.members
      /\ policy.members \subseteq SpaceNames
  BY <1>1 DEF IInv, TypeOK, Policy, ConditionStatus
<1>3. TypeOK'
  BY <1>1, <1>2 DEF IInv, TypeOK, spaceVars, partVars
<1>4. \A t \in SpaceNames : SpaceInv(t)'
  BY <1>1 DEF IInv, SpaceInv, Claims, Summed, Busy, AtLive, Watched, Settled, spaceVars
<1> QED  BY <1>1, <1>2, <1>3, <1>4 DEF IInv, InForce, Applied

(* The policy is reported to be in trouble.                                 *)
LEMMA ReportPolicyStep ==
    ASSUME IInv, ReportPolicy
    PROVE  IInv'
<1>1. /\ faults > 0 /\ faults' = faults - 1
      /\ UNCHANGED <<spaceVars, partVars, policySeen, queue, run, iamVars, todo>>
  BY DEF ReportPolicy, Fault
<1>2. PICK v \in {"Unknown", "False"} :
         policy' = [policy EXCEPT !.observed = TRUE, !.conds = v]
  BY DEF ReportPolicy
<1>3. policy' \in Policy /\ policy'.conds # "True"
  BY <1>2 DEF IInv, TypeOK, Policy, ConditionStatus
<1>4. TypeOK'
  BY <1>1, <1>3 DEF IInv, TypeOK, iamVars, spaceVars, partVars
<1>5. \A t \in SpaceNames : SpaceInv(t)'
  BY <1>1 DEF IInv, SpaceInv, Claims, Summed, Busy, AtLive, Watched, Settled, iamVars,
              spaceVars
<1> QED  BY <1>1, <1>3, <1>4, <1>5 DEF IInv, InForce, Applied, Good, iamVars

-----------------------------------------------------------------------------
(* The reconciler *)

(* What a run may go on as: with what it began with and listed, and with a  *)
(* policy condition that is true if the Space is there.                     *)
RunKeeps(s, q) ==
    /\ q \in Run /\ q.pc # "idle"
    /\ q.seen.phase = "terminating" => space[s].phase # "live"
    /\ q.pc = "parts" => q.seen.phase = "live" /\ q.step # 0
    /\ q.seen.phase = "live" /\ space[s].phase = "live" =>
          /\ spaceSeen[s].phase = "live"
          /\ q.pc = "policy" => s \in q.listed
          /\ wi /\ q.status["IAMPolicy"] = "True" => s \in granted

(* A run goes on, and has changed parts at most.                            *)
LEMMA RunGoesOn ==
    ASSUME IInv, NEW s \in SpaceNames, NEW q, RunKeeps(s, q),
           run' = [run EXCEPT ![s] = q],
           queue' \subseteq SpaceNames, queue \ {s} \subseteq queue',
           spaceSeen[s] = q.seen \/ s \in queue',
           part' \in [SpaceNames -> [PartNames -> Part]],
           UNCHANGED <<spaceVars, partSeen, policyVars, iamVars, todo, faults>>
    PROVE  IInv'
<1>1. run \in [SpaceNames -> Run] /\ q \in Run
  BY DEF IInv, TypeOK, RunKeeps
<1>2. TypeOK'
  BY <1>1 DEF IInv, TypeOK, iamVars, spaceVars, policyVars
<1>3. ASSUME NEW t \in SpaceNames
      PROVE  SpaceInv(t)'
  <2>1. CASE t = s
    <3>1. run'[s] = q
      BY <1>1
    <3> QED
      BY <2>1, <3>1
      DEF IInv, SpaceInv, Claims, Summed, Busy, AtLive, Watched, Settled, iamVars,
          policyVars, RunKeeps, spaceVars
  <2>2. CASE t # s
    <3>1. run'[t] = run[t]
      BY <1>1, <2>2
    <3> QED
      BY <2>2, <3>1
      DEF IInv, SpaceInv, Claims, Summed, Busy, AtLive, Watched, Settled, iamVars,
          policyVars, spaceVars
  <2> QED  BY <2>1, <2>2
<1> QED  BY <1>2, <1>3 DEF IInv, InForce, Applied, policyVars, iamVars

(* A run begins with what is listed.                                        *)
LEMMA BeginStep ==
    ASSUME IInv, NEW s \in SpaceNames, Begin(s)
    PROVE  IInv'
<1> DEFINE r == [IdleRun EXCEPT !.seen = spaceSeen[s], !.status = spaceSeen[s].status]
           q == Reconcile(s, r)
<1>1. /\ run' = [run EXCEPT ![s] = q] /\ queue' = queue \ {s}
      /\ UNCHANGED <<spaceVars, partVars, policyVars, iamVars, todo, faults>>
  BY DEF Begin
<1>2. spaceSeen[s] \in Space /\ spaceSeen[s].status \in Status
  BY SpaceSet DEF IInv, TypeOK
<1>3. r \in Run /\ r.seen = spaceSeen[s] /\ r.status = spaceSeen[s].status /\ r.step = 0
  <2>1. IdleRun \in Run /\ IdleRun.step = 0
    BY NothingTyped DEF IdleRun
  <2> QED  BY <1>2, <2>1 DEF Run
<1> HIDE DEF r
<1>4. SpaceInv(s)
  BY DEF IInv
<1>5. spaceSeen[s].phase = "live" => s \in Live(spaceSeen)
  BY DEF Live
<1>6. RunKeeps(s, q)
  <2>1. CASE r.seen.phase = "live"
    <3>1. q = Continue(s, r, 1)
      BY <2>1 DEF Reconcile
    <3>2. 1 \in 1..Len(Parts) + 1
      BY PartsTyped
    <3>3. /\ q \in Run /\ q.pc \in {"parts", "policy"} /\ q.seen = r.seen
          /\ q.status["IAMPolicy"] = r.status["IAMPolicy"]
          /\ q.pc = "parts" => q.step # 0
          /\ q.pc = "policy" => q.listed = Live(spaceSeen)
      BY <1>3, <3>1, <3>2, ContinueTyped
    <3> HIDE DEF q
    <3> QED  BY <1>3, <1>4, <1>5, <2>1, <3>3 DEF RunKeeps, SpaceInv, Claims
  <2>2. CASE r.seen.phase # "live"
    <3> DEFINE p == [r EXCEPT !.pc = "policy", !.listed = Live(spaceSeen)]
    <3>1. q = p
      BY <2>2 DEF Reconcile
    <3>2. Live(spaceSeen) \subseteq SpaceNames
      BY DEF Live
    <3>3. p \in Run /\ p.pc = "policy" /\ p.seen = r.seen
      BY <1>3, <3>2 DEF Run
    <3> HIDE DEF p, q
    <3> QED  BY <1>3, <1>4, <2>2, <3>1, <3>3 DEF RunKeeps, SpaceInv
  <2> QED  BY <2>1, <2>2
<1>7. q.seen = spaceSeen[s]
  <2>1. CASE r.seen.phase = "live"
    <3>1. q = Continue(s, r, 1) /\ 1 \in 1..Len(Parts) + 1
      BY <2>1, PartsTyped DEF Reconcile
    <3> HIDE DEF q
    <3> QED  BY <1>3, <3>1, ContinueTyped
  <2>2. CASE r.seen.phase # "live"
    BY <1>3, <2>2 DEF Reconcile, Run
  <2> QED  BY <2>1, <2>2
<1> HIDE DEF q
<1>8. /\ queue' \subseteq SpaceNames /\ queue \ {s} \subseteq queue'
      /\ part' \in [SpaceNames -> [PartNames -> Part]]
  BY <1>1 DEF IInv, TypeOK, partVars
<1> QED  BY <1>1, <1>6, <1>7, <1>8, RunGoesOn DEF partVars

(* What a run leaves alone, and the policy that it may write.               *)
AtEnd(s) ==
    /\ run' = [run EXCEPT ![s] = IdleRun]
    /\ queue' \subseteq SpaceNames /\ queue \subseteq queue'
    /\ policy' \in Policy /\ InForce(policy)' /\ Applied' /\ faults' \in Nat
    /\ UNCHANGED <<spaceSeen, partVars, policySeen, iamVars, todo>>

(* What the end of a run does to the run and the queue.                     *)
LEMMA EndShape ==
    ASSUME TypeOK, NEW s \in SpaceNames, NEW failed \in BOOLEAN, End(s, failed)
    PROVE  /\ run' = [run EXCEPT ![s] = IdleRun]
           /\ queue' \subseteq SpaceNames /\ queue \subseteq queue'
           /\ failed => s \in queue'
BY DEF TypeOK, End, Enqueue

\* The run for s is over.
Ended(s) ==
    /\ run' = [run EXCEPT ![s] = IdleRun]
    /\ queue' \subseteq SpaceNames /\ queue \subseteq queue'

\* A status may be written, into the Space that is there as it is listed; if it
\* is not, it is the listed one, or the Space is enqueued again.
Written(s, status, ready) ==
    \/ UNCHANGED space /\ (spaceSeen[s].ready = ready \/ s \in queue')
    \/ /\ spaceSeen[s].phase # "none" /\ spaceSeen[s] = space[s]
       /\ space' = [space EXCEPT ![s] =
                        [spaceSeen[s] EXCEPT !.status = status, !.ready = ready]]

(* How a run ends.                                                          *)
LEMMA FinishShape ==
    ASSUME TypeOK, NEW s \in SpaceNames, NEW status, NEW ready, NEW failed \in BOOLEAN,
           Finish(s, status, ready, failed), Watched(s), Busy(s)
    PROVE  Ended(s) /\ Written(s, status, ready)
<1> DEFINE seen == run[s].seen
           o == [spaceSeen[s] EXCEPT !.status = status, !.ready = ready]
           same == \/ seen.phase = "live" /\ status = seen.status /\ ready = seen.ready
                   \/ spaceSeen[s].phase # "none" /\ o = spaceSeen[s]
<1>1. CASE same /\ End(s, failed) /\ UNCHANGED space
  <2>1. Ended(s)
    BY <1>1, EndShape DEF Ended
  <2>2. CASE ready = seen.ready
    BY <1>1, <2>1, <2>2 DEF Watched, Written, Ended
  <2>3. CASE o = spaceSeen[s]
    <3>1. o.ready = ready
      BY DEF TypeOK, Space
    <3> HIDE DEF o
    <3> QED  BY <1>1, <2>1, <2>3, <3>1 DEF Written
  <2> QED  BY <1>1, <2>2, <2>3
<1>2. CASE /\ spaceSeen[s].phase # "none" /\ spaceSeen[s] = space[s]
           /\ space' = [space EXCEPT ![s] = o]
           /\ End(s, failed)
  BY <1>2, EndShape DEF Ended, Written
<1>3. CASE End(s, TRUE) /\ UNCHANGED space
  BY <1>3, EndShape DEF Ended, Written
<1> QED  BY <1>1, <1>2, <1>3 DEF Finish

(* A run ends, and nothing is written into its Space.                       *)
LEMMA EndInv ==
    ASSUME IInv, NEW s \in SpaceNames, AtEnd(s), UNCHANGED space, Settled(s)'
    PROVE  IInv'
<1>1. run \in [SpaceNames -> Run] /\ IdleRun \in Run /\ IdleRun.pc = "idle"
  BY NothingTyped DEF IInv, TypeOK, IdleRun
<1>2. TypeOK'
  BY <1>1 DEF IInv, TypeOK, AtEnd, partVars, iamVars
<1>3. ASSUME NEW t \in SpaceNames
      PROVE  SpaceInv(t)'
  <2>1. run'[t] = run[t] \/ run'[t].pc = "idle"
    BY <1>1 DEF AtEnd
  <2>2. SpaceInv(t)
    BY DEF IInv
  <2>3. Settled(t)'
    <3>1. CASE t = s
      BY <3>1
    <3>2. CASE t # s
      <4>1. run'[t] = run[t]
        BY <1>1, <3>2 DEF AtEnd
      <4> QED  BY <2>2, <4>1 DEF SpaceInv, Settled, AtEnd, iamVars
    <3> QED  BY <3>1, <3>2
  <2> QED
    BY <2>1, <2>2, <2>3 DEF SpaceInv, Claims, Summed, Busy, AtLive, Watched, AtEnd, iamVars
<1> QED  BY <1>2, <1>3 DEF IInv, InForce, AtEnd, iamVars

(* A run ends, and its status may be written: what it says of the policy    *)
(* must be true of the Space that it is written into.                       *)
LEMMA FinishInv ==
    ASSUME IInv, NEW s \in SpaceNames, NEW status \in Status,
           NEW ready \in ConditionStatus, NEW failed \in BOOLEAN, Busy(s),
           Finish(s, status, ready, failed), AtEnd(s),
           ready = "True" => status["IAMPolicy"] = "True",
           wi /\ space[s].phase = "live" /\ status["IAMPolicy"] = "True" => s \in granted,
           wi /\ space[s].phase = "live" /\ ready = "True" => Names(policySeen, s)
    PROVE  IInv'
<1> DEFINE o == [spaceSeen[s] EXCEPT !.status = status, !.ready = ready]
<1>1. \/ UNCHANGED space /\ (spaceSeen[s].ready = ready \/ s \in queue')
      \/ /\ spaceSeen[s].phase # "none" /\ spaceSeen[s] = space[s]
         /\ space' = [space EXCEPT ![s] = o]
  <2>1. TypeOK /\ Watched(s)
    BY DEF IInv, SpaceInv
  <2>2. Written(s, status, ready)
    BY <2>1, FinishShape
  <2> QED  BY <2>2 DEF Written
<1>2. CASE UNCHANGED space /\ (spaceSeen[s].ready = ready \/ s \in queue')
  <2>1. Settled(s)'
    BY <1>2 DEF Settled, AtEnd, iamVars
  <2> QED  BY <1>2, <2>1, EndInv
<1>3. CASE /\ spaceSeen[s].phase # "none" /\ spaceSeen[s] = space[s]
           /\ space' = [space EXCEPT ![s] = o]
  <2>1. space \in [SpaceNames -> Space] /\ spaceSeen[s] \in Space
    BY DEF IInv, TypeOK
  <2>2. o \in Space /\ o.status = status /\ o.ready = ready /\ o.phase = spaceSeen[s].phase
    BY <2>1 DEF Space
  <2> HIDE DEF o
  <2>3. run \in [SpaceNames -> Run] /\ IdleRun \in Run /\ IdleRun.pc = "idle"
    BY NothingTyped DEF IInv, TypeOK, IdleRun
  <2>4. TypeOK'
    BY <1>3, <2>1, <2>2, <2>3 DEF IInv, TypeOK, AtEnd, partVars, iamVars
  <2>5. ASSUME NEW t \in SpaceNames
        PROVE  SpaceInv(t)'
    <3>1. CASE t = s
      <4>1. run'[s].pc = "idle" /\ space'[s] = o
        BY <1>3, <2>1, <2>3 DEF AtEnd
      <4>2. SpaceInv(s)
        BY DEF IInv
      <4>3. Settled(s)'
        BY <1>3, <2>2, <4>1 DEF Settled, AtEnd, iamVars
      <4> QED
        BY <1>3, <2>2, <3>1, <4>1, <4>2, <4>3
        DEF SpaceInv, Claims, Summed, Busy, AtLive, Watched, AtEnd, iamVars
    <3>2. CASE t # s
      <4>1. run'[t] = run[t] /\ space'[t] = space[t]
        BY <1>3, <2>1, <2>3, <3>2 DEF AtEnd
      <4> QED
        BY <4>1 DEF IInv, SpaceInv, Claims, Summed, Busy, AtLive, Watched, Settled, AtEnd,
                    iamVars
    <3> QED  BY <3>1, <3>2
  <2> QED  BY <2>4, <2>5 DEF IInv, InForce, AtEnd, iamVars
<1> QED  BY <1>1, <1>2, <1>3

(* A run with another condition c.                                          *)
LEMMA StatusSet ==
    ASSUME NEW r \in Run, NEW c \in Conds, NEW v \in ConditionStatus
    PROVE  LET q == [r EXCEPT !.status[c] = v]
           IN  /\ q \in Run /\ q.seen = r.seen /\ q.status \in Status
               /\ q.status[c] = v
               /\ \A d \in Conds : d # c => q.status[d] = r.status[d]
<1> DEFINE st == [r.status EXCEPT ![c] = v]
           q == [r EXCEPT !.status = st]
<1>1. r.status \in Status
  BY DEF Run
<1>2. /\ st \in Status /\ st[c] = v
      /\ \A d \in Conds : d # c => st[d] = r.status[d]
  BY <1>1 DEF Status
<1>3. [r EXCEPT !.status[c] = v] = q
  OBVIOUS
<1> HIDE DEF st
<1>4. q \in Run /\ q.seen = r.seen /\ q.status = st
  BY <1>2 DEF Run
<1> HIDE DEF q
<1> QED  BY <1>2, <1>3, <1>4

(* What a status comes to is good only if each condition is.                *)
LEMMA SumOf ==
    ASSUME NEW status \in Status
    PROVE  LET ready == Happy({status[d] : d \in Conds})
           IN  /\ ready \in ConditionStatus
               /\ ready = "True" => \A d \in Conds : status[d] = "True"
<1>1. \A d \in Conds : status[d] \in {"True", "False", "Unknown"}
  BY DEF Status, ConditionStatus
<1> QED  BY <1>1 DEF Happy, ConditionStatus

(* A run ends with another condition c.                                     *)
LEMMA MarkInv ==
    ASSUME IInv, NEW s \in SpaceNames, Busy(s), NEW c \in Conds,
           NEW v \in ConditionStatus, NEW failed \in BOOLEAN,
           Mark(s, c, v, failed), faults' \in Nat,
           policy' \in Policy, InForce(policy)', Applied',
           UNCHANGED <<spaceSeen, partVars, policySeen, iamVars, todo>>,
           c # "IAMPolicy" => v # "True" /\ run[s].seen.phase = "live",
           c = "IAMPolicy" /\ v = "True" /\ wi /\ space[s].phase = "live" =>
               Names(policySeen, s)
    PROVE  IInv'
<1> DEFINE status == [run[s].status EXCEPT ![c] = v]
           ready == Happy({status[d] : d \in Conds})
<1>1. SpaceInv(s) /\ TypeOK /\ InForce(policySeen) /\ "IAMPolicy" \in Conds
  BY PartsTyped DEF IInv
<1>2. run[s].status \in Status
  BY <1>1 DEF TypeOK, Run
<1>3. /\ status \in Status /\ status[c] = v
      /\ \A d \in Conds : d # c => status[d] = run[s].status[d]
  BY <1>2 DEF Status
<1>4. Finish(s, status, ready, failed)
  BY DEF Mark
<1> HIDE DEF status
<1>5. /\ ready \in ConditionStatus
      /\ ready = "True" => \A d \in Conds : status[d] = "True"
  BY <1>3, SumOf
<1> HIDE DEF ready
<1>6. AtEnd(s)
  <2>1. TypeOK /\ Watched(s)
    BY <1>1 DEF SpaceInv
  <2>2. Ended(s)
    BY <1>4, <2>1, FinishShape
  <2> QED  BY <2>2 DEF AtEnd, Ended
<1>7. ready = "True" => status["IAMPolicy"] = "True" /\ c = "IAMPolicy" /\ v = "True"
  BY <1>1, <1>3, <1>5
<1>8. wi /\ space[s].phase = "live" /\ status["IAMPolicy"] = "True" => s \in granted
  <2>1. CASE c = "IAMPolicy"
    BY <1>1, <1>3, <2>1 DEF InForce, Names
  <2>2. CASE c # "IAMPolicy"
    BY <1>1, <1>3, <2>2 DEF SpaceInv, AtLive
  <2> QED  BY <2>1, <2>2
<1>9. wi /\ space[s].phase = "live" /\ ready = "True" => Names(policySeen, s)
  BY <1>7
<1> QED  BY <1>3, <1>4, <1>5, <1>6, <1>7, <1>8, <1>9, FinishInv

(* A part is written, or the run ends.                                      *)
LEMMA SyncPartStep ==
    ASSUME IInv, NEW s \in SpaceNames, SyncPart(s)
    PROVE  IInv'
<1> DEFINE p == Parts[run[s].step]
<1>1. /\ run[s].pc = "parts"
      /\ UNCHANGED <<spaceSeen, partSeen, policyVars, iamVars, todo>>
  BY DEF SyncPart
<1>2. /\ run[s] \in Run /\ SpaceInv(s) /\ faults \in Nat
      /\ run \in [SpaceNames -> Run]
  BY DEF IInv, TypeOK
<1>3. run[s].step \in 1..Len(Parts)
  <2>1. run[s].step \in 0..Len(Parts) /\ run[s].step # 0
    BY <1>1, <1>2 DEF Run, SpaceInv
  <2> QED  BY <2>1, PartsTyped
<1>4. p \in PartNames /\ p \in Conds /\ p # "IAMPolicy" /\ "IAMPolicy" \in Conds
  BY <1>3, PartsTyped
<1>5. ASSUME NEW v \in ConditionStatus, v # "True", NEW failed \in BOOLEAN,
             Mark(s, p, v, failed), UNCHANGED part, faults' \in Nat
      PROVE  IInv'
  <2>1. run[s].seen.phase = "live" /\ Busy(s)
    BY <1>1, <1>2 DEF SpaceInv, Busy
  <2>2. policy' \in Policy /\ InForce(policy)' /\ Applied'
    BY <1>1 DEF IInv, TypeOK, InForce, Applied, policyVars, iamVars
  <2>3. UNCHANGED <<spaceSeen, partVars, policySeen, iamVars, todo>>
    BY <1>1, <1>5 DEF partVars, policyVars
  <2> HIDE DEF p
  <2> QED  BY <1>4, <1>5, <2>1, <2>2, <2>3, MarkInv
<1>6. CASE /\ part' = [part EXCEPT ![s][p] = IF space[s].phase = "none" THEN @
                                             ELSE Desired(s, p)]
           /\ run' = [run EXCEPT ![s] =
                         Continue(s, [@ EXCEPT !.status[p] = "True"], @.step + 1)]
           /\ UNCHANGED <<space, queue, faults>>
  <2> DEFINE r == [run[s] EXCEPT !.status[p] = "True"]
             k == run[s].step + 1
             q == Continue(s, r, k)
             new == IF space[s].phase = "none" THEN part[s][p] ELSE Desired(s, p)
  <2>1. /\ r \in Run /\ r.seen = run[s].seen
        /\ r.status["IAMPolicy"] = run[s].status["IAMPolicy"]
    <3>1. "True" \in ConditionStatus
      BY DEF ConditionStatus
    <3>2. ASSUME NEW o \in Run, NEW c \in Conds, c # "IAMPolicy", NEW v \in ConditionStatus
          PROVE  LET w == [o EXCEPT !.status[c] = v]
                 IN  /\ w \in Run /\ w.seen = o.seen
                     /\ w.status["IAMPolicy"] = o.status["IAMPolicy"]
      <4> DEFINE w == [o EXCEPT !.status[c] = v]
      <4>1. /\ w \in Run /\ w.seen = o.seen
            /\ \A d \in Conds : d # c => w.status[d] = o.status[d]
        BY <3>2, StatusSet
      <4> HIDE DEF w
      <4> QED  BY <1>4, <3>2, <4>1 DEF w
    <3> HIDE DEF p
    <3> QED  BY <1>2, <1>4, <3>1, <3>2
  <2>2. k \in 1..Len(Parts) + 1
    BY <1>3, PartsTyped
  <2>3. run' = [run EXCEPT ![s] = q]
    BY <1>2, <1>6
  <2> HIDE DEF r, k
  <2>4. /\ q \in Run /\ q.pc \in {"parts", "policy"} /\ q.seen = r.seen
        /\ q.status["IAMPolicy"] = r.status["IAMPolicy"]
        /\ q.pc = "parts" => q.step # 0
        /\ q.pc = "policy" => q.listed = Live(spaceSeen)
    BY <2>1, <2>2, ContinueTyped
  <2> HIDE DEF q
  <2>5. spaceSeen[s].phase = "live" => s \in Live(spaceSeen)
    BY DEF Live
  <2>6. RunKeeps(s, q)
    BY <1>1, <1>2, <2>1, <2>4, <2>5 DEF RunKeeps, SpaceInv, Busy, AtLive
  <2>7. part' \in [SpaceNames -> [PartNames -> Part]]
    <3>1. part \in [SpaceNames -> [PartNames -> Part]] /\ part[s][p] \in Part
      BY <1>4 DEF IInv, TypeOK
    <3>2. new \in Part
      BY <1>4, <3>1, DesiredTyped DEF IInv
    <3>3. part' = [part EXCEPT ![s][p] = new]
      BY <1>4, <1>6, <3>1
    <3> HIDE DEF new, p
    <3> QED  BY <1>4, <3>1, <3>2, <3>3, PartSet
  <2>8. /\ queue' \subseteq SpaceNames /\ queue \ {s} \subseteq queue'
        /\ spaceSeen[s] = q.seen \/ s \in queue'
    BY <1>1, <1>2, <1>6, <2>1, <2>4 DEF IInv, TypeOK, SpaceInv, Watched, Busy
  <2> HIDE DEF p
  <2> QED  BY <1>1, <1>6, <2>3, <2>6, <2>7, <2>8, RunGoesOn DEF spaceVars
<1>7. CASE (\E err : MarkError(s, p, err)) /\ UNCHANGED part /\ faults' \in Nat
  <2>1. PICK err : MarkError(s, p, err)
    BY <1>7
  <2> DEFINE v == MarkReconciliationError(err)
  <2>2. v \in ConditionStatus /\ v # "True"
    BY DEF MarkReconciliationError, ConditionStatus
  <2>3. Mark(s, p, v, TRUE)
    BY <2>1 DEF MarkError
  <2> HIDE DEF v, p
  <2> QED  BY <1>5, <1>7, <2>2, <2>3
<1>8. CASE Mark(s, p, "False", FALSE) /\ UNCHANGED <<part, faults>>
  <2>1. "False" \in ConditionStatus /\ "False" # "True" /\ faults' \in Nat
    BY <1>2, <1>8 DEF ConditionStatus
  <2> HIDE DEF p
  <2> QED  BY <1>5, <1>8, <2>1
<1>9. Fault => faults' \in Nat
  BY <1>2 DEF Fault
<1> QED  BY <1>2, <1>6, <1>7, <1>8, <1>9 DEF SyncPart

(* What is found about the policy is true of the Space: it was listed, and  *)
(* the listed policy, if it is the one found good, names what was listed.   *)
LEMMA FoundInv ==
    ASSUME IInv, NEW s \in SpaceNames, run[s].pc = "policy", NEW v \in ConditionStatus,
           wi /\ v = "True" => Good(policySeen) /\ policySeen.members = run[s].listed,
           PolicyFound(s, v), UNCHANGED faults,
           policy' \in Policy, InForce(policy)', Applied',
           UNCHANGED <<spaceSeen, partVars, policySeen, iamVars, todo>>
    PROVE  IInv'
<1>1. /\ SpaceInv(s) /\ TypeOK /\ run[s] \in Run /\ run[s].seen \in Space
      /\ "IAMPolicy" \in Conds /\ Busy(s) /\ faults' \in Nat
  BY PartsTyped DEF IInv, TypeOK, Run, Busy
<1>2. CASE run[s].seen.phase = "live"
  <2>1. Mark(s, "IAMPolicy", v, FALSE)
    BY <1>2 DEF PolicyFound
  <2>2. v = "True" /\ wi /\ space[s].phase = "live" => Names(policySeen, s)
    BY <1>1, <1>2 DEF SpaceInv, AtLive, Names
  <2> QED  BY <1>1, <2>1, <2>2, MarkInv
<1>3. CASE run[s].seen.phase = "terminating"
  <2>1. Finish(s, run[s].seen.status, "False", FALSE)
    BY <1>3 DEF PolicyFound, FinishTerminating
  <2>2. /\ run[s].seen.status \in Status /\ "False" \in ConditionStatus
        /\ space[s].phase # "live"
    BY <1>1, <1>3 DEF SpaceInv, Space, ConditionStatus
  <2>3. AtEnd(s)
    <3>1. Watched(s) /\ FALSE \in BOOLEAN
      BY <1>1 DEF SpaceInv
    <3>2. Ended(s)
      BY <1>1, <2>1, <3>1, FinishShape
    <3> QED  BY <1>1, <3>2 DEF AtEnd, Ended
  <2> QED  BY <1>1, <2>1, <2>2, <2>3, FinishInv
<1>4. CASE run[s].seen.phase = "none"
  <2>1. End(s, FALSE) /\ UNCHANGED space
    BY <1>4 DEF PolicyFound
  <2>2. AtEnd(s)
    BY <1>1, <2>1, EndShape DEF AtEnd
  <2>3. Settled(s)'
    BY <1>1, <1>4, <2>1, <2>2 DEF Settled, SpaceInv, Watched, AtEnd, iamVars
  <2> QED  BY <2>1, <2>2, <2>3, EndInv
<1> QED  BY <1>1, <1>2, <1>3, <1>4 DEF Space

(* A run that fails at the policy enqueues its Space.                       *)
LEMMA FailedInv ==
    ASSUME IInv, NEW s \in SpaceNames, run[s].pc = "policy", NEW err,
           PolicyFailed(s, err), faults' \in Nat, UNCHANGED policy,
           UNCHANGED <<spaceSeen, partVars, policySeen, iamVars, todo>>
    PROVE  IInv'
<1>1. /\ SpaceInv(s) /\ TypeOK /\ "IAMPolicy" \in Conds /\ Busy(s)
      /\ policy' \in Policy /\ InForce(policy)' /\ Applied'
  BY PartsTyped DEF IInv, TypeOK, Busy, InForce, Applied, iamVars
<1>2. CASE run[s].seen.phase = "live"
  <2> DEFINE v == MarkReconciliationError(err)
  <2>1. v \in ConditionStatus /\ v # "True"
    BY DEF MarkReconciliationError, ConditionStatus
  <2>2. Mark(s, "IAMPolicy", v, TRUE)
    BY <1>2 DEF PolicyFailed, MarkError
  <2> HIDE DEF v
  <2> QED  BY <1>1, <2>1, <2>2, MarkInv
<1>3. CASE run[s].seen.phase # "live"
  <2>1. End(s, TRUE) /\ UNCHANGED space
    BY <1>3 DEF PolicyFailed
  <2>2. AtEnd(s) /\ s \in queue'
    BY <1>1, <2>1, EndShape DEF AtEnd
  <2>3. Settled(s)'
    BY <2>2 DEF Settled
  <2> QED  BY <2>1, <2>2, <2>3, EndInv
<1> QED  BY <1>2, <1>3

(* The policy is written or found up to date, or the run fails.             *)
LEMMA SyncPolicyStep ==
    ASSUME IInv, NEW s \in SpaceNames, SyncPolicy(s)
    PROVE  IInv'
<1> DEFINE desired == [policySeen EXCEPT !.exists = TRUE, !.members = run[s].listed,
                                         !.observed = FALSE]
           v == CheckConditions(policySeen)
<1>1. /\ run[s].pc = "policy"
      /\ UNCHANGED <<spaceSeen, partVars, policySeen, iamVars, todo>>
  BY DEF SyncPolicy
<1>2. run[s] \in Run /\ faults \in Nat /\ policy \in Policy /\ policySeen \in Policy
  BY DEF IInv, TypeOK
<1>3. "True" \in ConditionStatus /\ "Unknown" \in ConditionStatus
  BY DEF ConditionStatus
<1>4. UNCHANGED policy => policy' \in Policy /\ InForce(policy)' /\ Applied'
  BY <1>1, <1>2 DEF IInv, InForce, Applied, iamVars
<1>5. CASE ~wi /\ PolicyFound(s, "True") /\ UNCHANGED <<policy, faults>>
  BY <1>1, <1>3, <1>4, <1>5, FoundInv
<1>6. CASE /\ policySeen.members = run[s].listed /\ PolicyFound(s, v)
           /\ UNCHANGED <<policy, faults>>
  <2>1. v \in ConditionStatus /\ (v = "True" => Good(policySeen))
    BY <1>2, <1>3 DEF CheckConditions, Good, Policy
  <2> HIDE DEF v
  <2> QED  BY <1>1, <1>4, <1>6, <2>1, FoundInv
<1>7. CASE /\ policy' = desired /\ PolicyFound(s, CheckConditions(desired))
           /\ UNCHANGED faults
  <2>1. desired \in Policy /\ desired.observed = FALSE
    BY <1>2 DEF Policy, Run
  <2> HIDE DEF desired
  <2>2. CheckConditions(desired) = "Unknown" /\ ~Good(desired)
    BY <2>1 DEF CheckConditions, Good
  <2>3. policy' \in Policy /\ InForce(policy)' /\ Applied'
    BY <1>7, <2>1, <2>2 DEF InForce, Applied
  <2> QED  BY <1>1, <1>3, <1>7, <2>2, <2>3, FoundInv
<1>8. CASE (\E err : PolicyFailed(s, err)) /\ faults' \in Nat /\ UNCHANGED policy
  BY <1>1, <1>8, FailedInv
<1>9. Fault => faults' \in Nat
  BY <1>2 DEF Fault
<1> QED  BY <1>2, <1>5, <1>6, <1>7, <1>8, <1>9 DEF SyncPolicy

-----------------------------------------------------------------------------
(* The theorems *)

(* Some Spaces have been Ready for long, and no run is under way.           *)
LEMMA InitInv == Init => IInv
<1> SUFFICES ASSUME Init PROVE IInv
  OBVIOUS
<1>1. PICK script \in Scripts :
         LET old == script.old IN
           /\ space = [s \in SpaceNames |->
                         IF s \in old THEN [phase |-> "live", ready |-> "True",
                                            status |-> [c \in Conds |-> "True"]]
                                      ELSE NoSpace]
           /\ spaceSeen = space
           /\ part = [s \in SpaceNames |->
                        [p \in PartNames |-> IF s \in old THEN GoodPart({}) ELSE NoPart]]
           /\ partSeen = part
           /\ wi = script.wi
           /\ policy = IF wi /\ old # {} THEN [exists |-> TRUE, members |-> old,
                                               conds |-> "True", observed |-> TRUE]
                       ELSE NoPolicy
           /\ policySeen = policy
           /\ inForce = policy.members /\ granted = inForce
           /\ queue = {} /\ run = [s \in SpaceNames |-> IdleRun]
           /\ todo = script.todo /\ faults = script.faults
  BY DEF Init
<1> DEFINE old == script.old
           ready == [phase |-> "live", ready |-> "True", status |-> [c \in Conds |-> "True"]]
           good == GoodPart({})
           full == [exists |-> TRUE, members |-> old, conds |-> "True",
                    observed |-> TRUE]
<1>2. /\ script.wi \in BOOLEAN /\ old \subseteq SpaceNames /\ script.faults \in Nat
      /\ script.todo \in Seq([op: Operation, at: SpaceNames])
  BY SpacesAssumption
<1>3. /\ ready \in Space /\ ready.phase = "live"
      /\ ready.status["IAMPolicy"] = "True"
  BY PartsTyped DEF Space, Status, ConditionStatus
<1>4. good \in Part
  BY DEF GoodPart, Part
<1>5. full \in Policy /\ full.members = old /\ Good(full)
  BY <1>2 DEF Policy, ConditionStatus, Good
<1>6. /\ NoSpace \in Space /\ NoSpace.phase = "none" /\ NoPart \in Part
      /\ NoPolicy \in Policy /\ NoPolicy.members = {} /\ ~Good(NoPolicy)
      /\ IdleRun \in Run /\ IdleRun.pc = "idle"
  BY NothingTyped DEF NoSpace, NoPolicy, IdleRun, Good
<1>7. /\ space = [s \in SpaceNames |-> IF s \in old THEN ready ELSE NoSpace]
      /\ part = [s \in SpaceNames |->
                    [p \in PartNames |-> IF s \in old THEN good ELSE NoPart]]
      /\ wi = script.wi /\ policy = IF wi /\ old # {} THEN full ELSE NoPolicy
      /\ spaceSeen = space /\ partSeen = part /\ policySeen = policy
      /\ inForce = policy.members /\ granted = inForce
      /\ queue = {} /\ run = [s \in SpaceNames |-> IdleRun]
      /\ todo = script.todo /\ faults = script.faults
  BY <1>1
<1> HIDE DEF ready, good, full
<1>8. TypeOK
  <2>1. space \in [SpaceNames -> Space] /\ run \in [SpaceNames -> Run]
    BY <1>3, <1>6, <1>7
  <2>2. part \in [SpaceNames -> [PartNames -> Part]]
    BY <1>4, <1>6, <1>7
  <2>3. policy \in Policy /\ policy.members \subseteq SpaceNames
    BY <1>2, <1>5, <1>6, <1>7
  <2> QED  BY <1>2, <1>7, <2>1, <2>2, <2>3 DEF TypeOK
<1>9. InForce(policy) /\ InForce(policySeen) /\ Applied
  BY <1>7 DEF InForce, Applied
<1>10. ASSUME NEW s \in SpaceNames
       PROVE  SpaceInv(s)
  <2>1. /\ run[s].pc = "idle" /\ spaceSeen[s] = space[s]
        /\ (s \in old /\ space[s] = ready) \/ space[s] = NoSpace
    BY <1>6, <1>7
  <2>2. s \in old /\ wi => policySeen = full /\ s \in granted
    BY <1>5, <1>7
  <2> QED
    BY <1>3, <1>5, <1>6, <2>1, <2>2
    DEF SpaceInv, Claims, Summed, Busy, AtLive, Watched, Settled, Names
<1> QED  BY <1>8, <1>9, <1>10 DEF IInv

(* Every step keeps the invariant.                                          *)
LEMMA NextInv == IInv /\ [Next]_vars => IInv'
<1> SUFFICES ASSUME IInv, [Next]_vars PROVE IInv'
  OBVIOUS
<1>1. CASE UNCHANGED vars
  BY <1>1 DEF vars, spaceVars, partVars, policyVars, iamVars, IInv, TypeOK, InForce,
              Applied, SpaceInv, Claims, Summed, Busy, AtLive, Watched, Settled
<1>2. ASSUME NEW s \in SpaceNames, Step(s) PROVE IInv'
  BY <1>2, BeginStep, SyncPartStep, SyncPolicyStep DEF Step
<1>3. ASSUME NEW s \in SpaceNames, Users(s) PROVE IInv'
  BY <1>3, CreateSpaceStep, DeleteSpaceStep, DeleteNamespaceStep, EditRolesStep,
     EditPartStep, ForeignPartStep, ReleasePartStep DEF Users
<1> QED
  BY <1>1, <1>2, <1>3, DeliverSpaceStep, NamespaceGoneStep, SpaceGoneStep,
     DeliverPartStep, DeliverPolicyStep, ApplyPolicyStep, ReportPolicyStep DEF Next

(* The invariant holds always.                                              *)
LEMMA Invariant == Spec => []IInv
BY InitInv, NextInv, PTL DEF Spec

(* Every variable keeps its type, whatever users do and however many        *)
(* workers there are.                                                       *)
THEOREM TypeCorrect == Spec => []TypeOK
<1>1. IInv => TypeOK
  BY DEF IInv
<1> QED  BY <1>1, Invariant, PTL

(* With Workload Identity, a Space that is Ready was named by a policy that *)
(* was put in force, and the policy that is in force names it unless the    *)
(* controller has still something to do for it; although all Spaces share   *)
(* the policy, every worker rewrites it from the Spaces that it has listed, *)
(* the status is written into whatever version the lister has at the end of *)
(* the run, and a Space may be deleted and created again.                   *)
THEOREM ReadyIsRealHolds == Spec => []ReadyIsReal
<1>1. ASSUME IInv PROVE ReadyIsReal
  <2>1. ASSUME wi, NEW s \in SpaceNames, Ready(s)
        PROVE  s \in granted /\ (s \in inForce \/ Pending(s))
    <3>1. SpaceInv(s) /\ Applied
      BY <1>1 DEF IInv
    <3>2. s \in granted
      BY <2>1, <3>1 DEF SpaceInv, Claims, Summed, Ready
    <3>3. ASSUME ~Pending(s) PROVE s \in inForce
      <4>1. Names(policySeen, s) /\ policySeen = policy
        BY <2>1, <3>1, <3>3 DEF SpaceInv, Settled, Ready, Pending
      <4> QED  BY <3>1, <4>1 DEF Applied, Names
    <3> QED  BY <3>2, <3>3
  <2> QED  BY <2>1 DEF ReadyIsReal
<1> QED  BY <1>1, Invariant, PTL
==============================================================================
