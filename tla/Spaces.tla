------------------------------- MODULE Spaces -------------------------------
(***************************************************************************)
(* Spaces and their reconciler: for each Space it keeps a namespace, the   *)
(* objects in it that builds and Apps need, and ClusterRoleBindings made   *)
(* from the subjects that users put into the Space's RoleBindings.  All    *)
(* Spaces share one IAM policy, which names the builder account of each    *)
(* of them; every run for any Space computes it anew from the Spaces it    *)
(* lists.                                                                  *)
(*                                                                         *)
(* Several workers take Spaces from the work queue, never the same Space   *)
(* at once, and all may write the policy.  Objects are read from listers,  *)
(* the ...Seen variables, which may be behind; a write based on an         *)
(* outdated version conflicts.                                             *)
(***************************************************************************)
EXTENDS Conditions, Sequences, FiniteSets

CONSTANTS
    SpaceNames,
    MaxWorkers,     \* the workers of the controller
    Parts,          \* the objects of a Space, in the order in which they are
                    \* reconciled
    Scripts         \* bounds: whether Workload Identity is on, the Spaces to
                    \* begin with, the changes users then make, and how many
                    \* things go wrong

Operation ==
    {"create", "delete", "roles", "edit", "namespace", "foreign", "release"}
PartNames == {Parts[k] : k \in 1..Len(Parts)}

ASSUME SpacesAssumption ==
    /\ MaxWorkers \in Nat \ {0}
    /\ Scripts \subseteq [wi: BOOLEAN, old: SUBSET SpaceNames, faults: Nat,
                          todo: Seq([op: Operation, at: SpaceNames])]
    /\ Parts \in Seq(STRING) /\ Cardinality(PartNames) = Len(Parts)
    /\ {"Namespace", "RoleBindings", "ClusterRoleBindings"} \subseteq PartNames
    /\ "IAMPolicy" \notin PartNames

VARIABLES
    space, spaceSeen,       \* the Space objects
    part, partSeen,         \* the objects of each Space
    policy, policySeen,     \* the IAM policy
    queue,                  \* Spaces in the work queue
    run,                    \* of each Space, the run for it
    inForce,                \* the Spaces named by the policy that Google Cloud
                            \* goes by
    granted,                \* history: the Spaces that were among them before
    wi,                     \* Workload Identity is on: the secrets' config names
                            \* a Google service account (it stays so)
    todo,                   \* the changes that users have still to make
    faults                  \* the things that may still go wrong

spaceVars  == <<space, spaceSeen>>
partVars   == <<part, partSeen>>
policyVars == <<policy, policySeen>>
iamVars    == <<inForce, granted, wi>>
vars == <<spaceVars, partVars, policyVars, queue, run, iamVars, todo, faults>>

\* Of an object: that it is there and as it should be, or of another owner, and
\* the roles of the one subject in question that it stands for.
RoleNames == {"space-manager", "space-developer"}
Part == [is: {"none", "good", "edited", "terminating", "foreign"},
         roles: SUBSET (RoleNames \union {"cluster-reader"})]
NoPart == [is |-> "none", roles |-> {}]
GoodPart(rs) == [is |-> "good", roles |-> rs]
InNamespace(p) == p \notin {"Namespace", "ClusterRoleBindings"}

\* A Space without finalizers is there, is being deleted in the foreground,
\* or is not there.  Its status has a condition for each part and the policy,
\* and the one that sums them up.
Conds == PartNames \union {"IAMPolicy"}
Status == [Conds -> ConditionStatus]
NewStatus == [c \in Conds |-> "Unknown"]
Space == [phase: {"none", "live", "terminating"}, status: Status, ready: ConditionStatus]
NoSpace == [phase |-> "none", status |-> NewStatus, ready |-> "Unknown"]

\* conds: what the conditions of Config Connector's status come to; observed:
\* they are about this version, and not about an earlier one.
Policy == [exists: BOOLEAN, members: SUBSET SpaceNames, conds: ConditionStatus,
           observed: BOOLEAN]
NoPolicy == [exists |-> FALSE, members |-> {}, conds |-> "Unknown", observed |-> FALSE]

\* step: the position in Parts; listed: the Spaces listed for the policy;
\* status: as it will be written; seen: the Space object it began with.
Run == [pc: {"idle", "parts", "policy"}, step: 0..Len(Parts),
        listed: SUBSET SpaceNames, status: Status, seen: Space]
IdleRun ==
    [pc |-> "idle", step |-> 0, listed |-> {}, status |-> NewStatus, seen |-> NoSpace]

Live(spaces) == {s \in SpaceNames : spaces[s].phase = "live"}
NamespaceOf(s) == part[s]["Namespace"].is

-----------------------------------------------------------------------------
(* Users, the informers, Kubernetes and Config Connector. *)

Change(op, s) ==
    /\ todo # <<>> /\ Head(todo) = [op |-> op, at |-> s]
    /\ todo' = Tail(todo)

\* A name is used again only once the reconciler is done with the Space that
\* had it before.
CreateSpace(s) ==
    /\ Change("create", s) /\ space[s].phase = "none"
    /\ spaceSeen[s].phase = "none" /\ run[s].pc = "idle"
    /\ space' = [space EXCEPT ![s] = [NoSpace EXCEPT !.phase = "live"]]
    /\ UNCHANGED <<spaceSeen, partVars, policyVars, queue, run, iamVars, faults>>

\* delete-space; the objects it owns go first.
DeleteSpace(s) ==
    /\ Change("delete", s) /\ space[s].phase = "live"
    /\ space' = [space EXCEPT ![s].phase = "terminating"]
    /\ UNCHANGED <<spaceSeen, partVars, policyVars, queue, run, iamVars, faults>>

\* set-space-role and unset-space-role edit the Space's RoleBindings.
EditRoles(s, r) ==
    /\ Change("roles", s) /\ part[s]["RoleBindings"].is = "good"
    /\ part' = [part EXCEPT ![s]["RoleBindings"].roles =
                    IF r \in @ THEN @ \ {r} ELSE @ \union {r}]
    /\ UNCHANGED <<spaceVars, partSeen, policyVars, queue, run, iamVars, faults>>

\* Someone changes another object of the Space.
EditPart(s, p) ==
    /\ Change("edit", s)
    /\ part[s][p].is = "good" /\ p \notin {"Namespace", "RoleBindings"}
    /\ part' = [part EXCEPT ![s][p].is = "edited"]
    /\ UNCHANGED <<spaceVars, partSeen, policyVars, queue, run, iamVars, faults>>

\* The namespace is deleted under the Space.
DeleteNamespace(s) ==
    /\ Change("namespace", s) /\ NamespaceOf(s) = "good"
    /\ part' = [part EXCEPT ![s]["Namespace"].is = "terminating"]
    /\ UNCHANGED <<spaceVars, partSeen, policyVars, queue, run, iamVars, faults>>

\* Something of another owner has the name of an object of the Space,
ForeignPart(s, p) ==
    /\ Change("foreign", s) /\ part[s][p].is = "none"
    /\ InNamespace(p) => NamespaceOf(s) \in {"good", "foreign"}
    /\ part' = [part EXCEPT ![s][p].is = "foreign"]
    /\ UNCHANGED <<spaceVars, partSeen, policyVars, queue, run, iamVars, faults>>

\* and goes.
ReleasePart(s, p) ==
    /\ Change("release", s) /\ part[s][p].is = "foreign"
    /\ part' = [part EXCEPT ![s] =
                    [q \in PartNames |->
                        IF q = p \/ (p = "Namespace" /\ InNamespace(q)) THEN NoPart ELSE @[q]]]
    /\ UNCHANGED <<spaceVars, partSeen, policyVars, queue, run, iamVars, faults>>

\* What is in the namespace goes with it.
NamespaceGone(s) ==
    /\ NamespaceOf(s) = "terminating"
    /\ part' = [part EXCEPT ![s] =
                    [p \in PartNames |-> IF p = "Namespace" \/ InNamespace(p) THEN NoPart
                                         ELSE @[p]]]
    /\ UNCHANGED <<spaceVars, partSeen, policyVars, queue, run, iamVars, todo, faults>>

Enqueue(ss) == queue' = queue \union ss

\* The garbage collector has deleted what the Space owns, and the Space goes.
\* All that the events of the former do is to enqueue it.
SpaceGone(s) ==
    /\ space[s].phase = "terminating"
    /\ space' = [space EXCEPT ![s] = NoSpace]
    /\ part' = [part EXCEPT ![s] =
                    [p \in PartNames |->
                        IF @[p].is = "foreign"
                             /\ (InNamespace(p) => NamespaceOf(s) = "foreign")
                          THEN @[p] ELSE NoPart]]
    /\ partSeen' = [partSeen EXCEPT ![s] = part'[s]]
    /\ Enqueue({s})
    /\ UNCHANGED <<spaceSeen, policyVars, run, iamVars, todo, faults>>

DeliverSpace(s) ==
    /\ spaceSeen[s] # space[s]
    /\ spaceSeen' = [spaceSeen EXCEPT ![s] = space[s]]
    /\ Enqueue({s})
    /\ UNCHANGED <<space, partVars, policyVars, run, iamVars, todo, faults>>

DeliverPart(s, p) ==
    /\ partSeen[s][p] # part[s][p]
    /\ partSeen' = [partSeen EXCEPT ![s][p] = part[s][p]]
    /\ Enqueue({s})
    /\ UNCHANGED <<spaceVars, part, policyVars, run, iamVars, todo, faults>>

\* pickASpaceHandler: all the Spaces that are listed.
pickASpaceHandler == {s \in SpaceNames : spaceSeen[s].phase # "none"}

DeliverPolicy ==
    /\ policySeen # policy
    /\ policySeen' = policy
    /\ Enqueue(pickASpaceHandler)
    /\ UNCHANGED <<spaceVars, partVars, policy, run, iamVars, todo, faults>>

Fault == faults > 0 /\ faults' = faults - 1

\* Config Connector puts the policy in force,
ApplyPolicy ==
    /\ policy.exists /\ ~(policy.observed /\ policy.conds = "True")
    /\ policy' = [policy EXCEPT !.observed = TRUE, !.conds = "True"]
    /\ inForce' = policy.members /\ granted' = granted \union policy.members
    /\ UNCHANGED <<spaceVars, partVars, policySeen, queue, run, wi, todo, faults>>

\* or reports that it cannot, or not yet.
ReportPolicy ==
    /\ Fault /\ policy.exists /\ ~policy.observed
    /\ \E v \in {"Unknown", "False"} :
          policy' = [policy EXCEPT !.observed = TRUE, !.conds = v]
    /\ UNCHANGED <<spaceVars, partVars, policySeen, queue, run, iamVars, todo>>

-----------------------------------------------------------------------------
(* The reconciler.  What it reads between two writes is one step. *)

\* The ClusterRoles that the Roles in a Space bring with them: managers have
\* the Space's own, everyone is a reader.
FilterSubjectsByClusterRole(rs) ==
    (rs \cap {"space-manager"}) \union (IF rs # {} THEN {"cluster-reader"} ELSE {})

Desired(s, p) ==
    IF p = "ClusterRoleBindings"
      THEN GoodPart(FilterSubjectsByClusterRole(partSeen[s]["RoleBindings"].roles))
      ELSE GoodPart({})

\* Mutant: an object that is there is left as it is.
UpToDateListed(s, p) == partSeen[s][p].is # "none"

\* A listed part needs no write; the RoleBindings are the users' to change.
UpToDate(s, p) ==
    IF p = "RoleBindings" THEN partSeen[s][p].is = "good"
    ELSE partSeen[s][p] = Desired(s, p)

\* The first part from position k on that does need one.
NextPart(s, k) ==
    CHOOSE j \in k..Len(Parts) + 1 :
        /\ j = Len(Parts) + 1 \/ ~UpToDate(s, Parts[j])
        /\ \A i \in k..j - 1 : UpToDate(s, Parts[i])

\* The run r for s goes on at position k: parts that are as they should be are
\* marked so; when all are, the Spaces are listed for the policy.
Continue(s, r, k) ==
    LET j == NextPart(s, k)
        status == [c \in Conds |-> IF \E i \in k..j - 1 : Parts[i] = c
                                     THEN "True" ELSE r.status[c]]
    IN  IF j <= Len(Parts)
          THEN [r EXCEPT !.pc = "parts", !.step = j, !.status = status]
          ELSE [r EXCEPT !.pc = "policy", !.step = 0, !.status = status,
                         !.listed = Live(spaceSeen)]

\* A run that ends with an error enqueues its Space again.
End(s, failed) ==
    /\ run' = [run EXCEPT ![s] = IdleRun]
    /\ IF failed THEN Enqueue({s}) ELSE UNCHANGED queue

\* The run ends and writes its status, unless that is the one it began with,
\* into the Space that the lister has now, whether it failed or not.  Nothing
\* that the run did before depends on when others change that Space, so it is
\* one step with what comes before.
Finish(s, status, ready, failed) ==
    LET seen == run[s].seen
        o == [spaceSeen[s] EXCEPT !.status = status, !.ready = ready]
        same == \/ seen.phase = "live" /\ status = seen.status /\ ready = seen.ready
                \/ spaceSeen[s].phase # "none" /\ o = spaceSeen[s]
    IN  \/ same /\ End(s, failed) /\ UNCHANGED space
        \/ /\ ~same /\ spaceSeen[s].phase # "none" /\ spaceSeen[s] = space[s]
           /\ space' = [space EXCEPT ![s] = o]
           /\ End(s, failed)
        \/ /\ ~same /\ (spaceSeen[s].phase = "none" \/ spaceSeen[s] # space[s])
           /\ End(s, TRUE) /\ UNCHANGED space

\* The last condition that the run marks, and what the status comes to.
Mark(s, c, v, failed) ==
    LET status == [run[s].status EXCEPT ![c] = v]
    IN  Finish(s, status, Happy({status[d] : d \in Conds}), failed)

MarkError(s, c, err) == Mark(s, c, MarkReconciliationError(err), TRUE)

\* PropagateTerminatingStatus: the status of a Space that is being deleted is
\* the one it had, but for Ready.
FinishTerminating(s) == Finish(s, run[s].seen.status, "False", FALSE)

\* Mutant: of a Space that is gone there is nothing to reconcile.
ReconcileGone(s, r) ==
    IF r.seen.phase = "live" THEN Continue(s, r, 1)
    ELSE IF r.seen.phase = "terminating"
           THEN [r EXCEPT !.pc = "policy", !.listed = Live(spaceSeen)]
           ELSE IdleRun

\* Of a Space that is being deleted, or gone, only the policy is reconciled.
Reconcile(s, r) ==
    IF r.seen.phase = "live" THEN Continue(s, r, 1)
    ELSE [r EXCEPT !.pc = "policy", !.listed = Live(spaceSeen)]

\* A free worker takes a Space that no other is at.
Begin(s) ==
    /\ s \in queue /\ run[s].pc = "idle"
    /\ Cardinality({t \in SpaceNames : run[t].pc # "idle"}) < MaxWorkers
    /\ queue' = queue \ {s}
    /\ run' = [run EXCEPT ![s] =
                 Reconcile(s, [IdleRun EXCEPT !.seen = spaceSeen[s],
                                              !.status = spaceSeen[s].status])]
    /\ UNCHANGED <<spaceVars, partVars, policyVars, iamVars, todo, faults>>

\* What the API server answers to a write of a part, which the lister has (or
\* has not) as o.
Answer(s, p, o) ==
    IF o.is = "none" /\ InNamespace(p) /\ NamespaceOf(s) \notin {"good", "foreign"}
      THEN "forbidden"
    ELSE IF o = part[s][p] THEN "ok"
    ELSE IF o.is = "none" THEN "exists"
    ELSE IF part[s][p].is = "none" THEN "notfound" ELSE "conflict"

\* A part that needs it is created or updated.  One of another owner is an
\* error, and a namespace that is being deleted ends the run.  What is created
\* for a Space that is gone the garbage collector deletes.
SyncPart(s) ==
    LET p == Parts[run[s].step]
        o == partSeen[s][p]
        write == o.is \in {"none", "good", "edited"}
    IN  /\ run[s].pc = "parts"
        /\ \/ /\ o.is = "terminating" /\ Mark(s, p, "False", FALSE)
              /\ UNCHANGED <<part, faults>>
           \/ /\ o.is = "foreign" /\ MarkError(s, p, "notowned")
              /\ UNCHANGED <<part, faults>>
           \/ /\ write /\ Answer(s, p, o) = "ok"
              /\ part' = [part EXCEPT ![s][p] = IF space[s].phase = "none" THEN @
                                                ELSE Desired(s, p)]
              /\ run' = [run EXCEPT ![s] =
                            Continue(s, [@ EXCEPT !.status[p] = "True"], @.step + 1)]
              /\ UNCHANGED <<space, queue, faults>>
           \/ /\ write /\ Answer(s, p, o) # "ok"
              /\ MarkError(s, p, Answer(s, p, o))
              /\ UNCHANGED <<part, faults>>
           \/ /\ write /\ Fault /\ MarkError(s, p, "other")
              /\ UNCHANGED part
        /\ UNCHANGED <<spaceSeen, partSeen, policyVars, iamVars, todo>>

\* Mutant: the policy's conditions, whichever version they are about.
CheckConditionsAnyGeneration(p) == p.conds

\* CheckCondtions: conditions of an earlier version do not count.
CheckConditions(p) == IF p.observed THEN p.conds ELSE "Unknown"

\* What has come of updateGSAPolicies: of a live Space its condition, of one that
\* is gone nothing; of one that is being deleted an error ends the run at once.
PolicyFound(s, v) ==
    CASE run[s].seen.phase = "live" -> Mark(s, "IAMPolicy", v, FALSE)
      [] run[s].seen.phase = "terminating" -> FinishTerminating(s)
      [] OTHER -> End(s, FALSE) /\ UNCHANGED space

PolicyFailed(s, err) ==
    IF run[s].seen.phase = "live" THEN MarkError(s, "IAMPolicy", err)
    ELSE End(s, TRUE) /\ UNCHANGED space

\* updateGSAPolicies, once the Spaces are listed: without Workload Identity
\* everything is good; with it the listed policy is compared with the one that
\* names the listed Spaces.
SyncPolicy(s) ==
    LET desired == [policySeen EXCEPT !.exists = TRUE, !.members = run[s].listed,
                                      !.observed = FALSE]
        same == policySeen.exists /\ policySeen.members = run[s].listed
    IN  /\ run[s].pc = "policy"
        /\ \/ ~wi /\ PolicyFound(s, "True") /\ UNCHANGED <<policy, faults>>
           \/ /\ wi /\ same /\ PolicyFound(s, CheckConditions(policySeen))
              /\ UNCHANGED <<policy, faults>>
           \/ /\ wi /\ ~same /\ policySeen = policy
              /\ policy' = desired
              /\ PolicyFound(s, CheckConditions(desired)) /\ UNCHANGED faults
           \/ /\ wi /\ ~same /\ policySeen # policy
              /\ PolicyFailed(s, IF policySeen.exists THEN "conflict" ELSE "exists")
              /\ UNCHANGED <<policy, faults>>
           \/ /\ wi /\ ~same /\ Fault
              /\ PolicyFailed(s, "other") /\ UNCHANGED policy
        /\ UNCHANGED <<spaceSeen, partVars, policySeen, iamVars, todo>>

-----------------------------------------------------------------------------
\* Some Spaces have been there for long, the others are not there yet.
Init ==
    \E script \in Scripts : LET old == script.old IN
        /\ space = [s \in SpaceNames |->
                       IF s \in old THEN [phase |-> "live", ready |-> "True",
                                          status |-> [c \in Conds |-> "True"]]
                                    ELSE NoSpace]
        /\ spaceSeen = space
        /\ part = [s \in SpaceNames |->
                      [p \in PartNames |-> IF s \in old THEN GoodPart({}) ELSE NoPart]]
        /\ partSeen = part
        /\ wi = script.wi
        /\ policy = IF wi /\ old # {} THEN [exists |-> TRUE, members |-> old,
                                            conds |-> "True", observed |-> TRUE]
                    ELSE NoPolicy
        /\ policySeen = policy
        /\ inForce = policy.members /\ granted = inForce
        /\ queue = {} /\ run = [s \in SpaceNames |-> IdleRun]
        /\ todo = script.todo /\ faults = script.faults

Step(s) == Begin(s) \/ SyncPart(s) \/ SyncPolicy(s)

Users(s) ==
    \/ CreateSpace(s) \/ DeleteSpace(s) \/ DeleteNamespace(s)
    \/ \E r \in RoleNames : EditRoles(s, r)
    \/ \E p \in PartNames : EditPart(s, p) \/ ForeignPart(s, p) \/ ReleasePart(s, p)

Next ==
    \/ \E s \in SpaceNames :
          \/ Step(s) \/ Users(s) \/ DeliverSpace(s) \/ NamespaceGone(s) \/ SpaceGone(s)
          \/ \E p \in PartNames : DeliverPart(s, p)
    \/ DeliverPolicy \/ ApplyPolicy \/ ReportPolicy

Spec == Init /\ [][Next]_vars

\* The workers work, the informers deliver, a namespace that is being deleted
\* goes, and Config Connector tries until the policy is in force.  The periodic
\* resync is not needed.
Fairness ==
    /\ \A s \in SpaceNames :
          /\ WF_vars(Step(s)) /\ WF_vars(DeliverSpace(s)) /\ WF_vars(NamespaceGone(s))
          /\ \A p \in PartNames : WF_vars(DeliverPart(s, p))
    /\ WF_vars(DeliverPolicy) /\ WF_vars(ApplyPolicy)

FairSpec == Spec /\ Fairness

-----------------------------------------------------------------------------
(* Properties. *)

(* Every variable keeps the shape of the Go value it stands for.             *)
TypeOK ==
    /\ space \in [SpaceNames -> Space] /\ spaceSeen \in [SpaceNames -> Space]
    /\ part \in [SpaceNames -> [PartNames -> Part]]
    /\ partSeen \in [SpaceNames -> [PartNames -> Part]]
    /\ policy \in Policy /\ policySeen \in Policy
    /\ queue \subseteq SpaceNames /\ run \in [SpaceNames -> Run]
    /\ inForce \subseteq SpaceNames /\ granted \subseteq SpaceNames /\ wi \in BOOLEAN
    /\ todo \in Seq([op: Operation, at: SpaceNames]) /\ faults \in Nat

Ready(s) == space[s].phase = "live" /\ space[s].ready = "True"

\* The controller still has something to do that can change s's status.
Pending(s) ==
    \/ policySeen # policy \/ spaceSeen[s] # space[s]
    \/ s \in queue \/ run[s].pc # "idle"

(* With Workload Identity, a Space is Ready only once a policy that lets its  *)
(* builds push images has been in force, and is so unless the controller has *)
(* still something to do for it: although the policy is shared, other        *)
(* workers rewrite it from the Spaces that they list, its conditions outlive *)
(* a change, and a Space that is created again meets the policy of the one   *)
(* before it.                                                                *)
ReadyIsReal ==
    wi => \A s \in SpaceNames :
              Ready(s) => s \in granted /\ (s \in inForce \/ Pending(s))

\* Another owner's object is in the way of s, whose runs get no further.
Blocked(s) == \E p \in PartNames : part[s][p].is = "foreign"

(* With Workload Identity, the shared policy comes to name the Spaces that   *)
(* are there and no others, whichever workers wrote it from whatever they    *)
(* had listed, as long as there is a Space left whose runs put it right.     *)
PolicyConverges ==
    <>[](wi /\ (\E s \in Live(space) : ~Blocked(s))
            => policy.exists /\ policy.members = Live(space))

(* Every Space gets its namespace, its objects, the ClusterRoleBindings that *)
(* follow from its RoleBindings, and is Ready, whatever was changed, deleted *)
(* or failed on the way; it is not Ready for as long as one of the objects   *)
(* is another owner's.                                                       *)
SpacesConverge ==
    <>[](\A s \in Live(space) :
            IF Blocked(s) THEN ~Ready(s)
            ELSE /\ Ready(s)
                 /\ \A p \in PartNames : part[s][p].is = "good"
                 /\ part[s]["ClusterRoleBindings"].roles =
                       LET rs == part[s]["RoleBindings"].roles
                       IN  {r \in {"space-manager"} : r \in rs}
                               \union {r \in {"cluster-reader"} : rs # {}})
==============================================================================
