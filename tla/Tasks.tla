-------------------------------- MODULE Tasks --------------------------------
(***************************************************************************)
(* The Tasks of one App: the Task reconciler, the App reconciler as far as *)
(* it writes the App's status, and the garbage collector.                  *)
(*                                                                         *)
(* A Task runs once, as a Tekton TaskRun of its name.  Its ID is taken     *)
(* from a counter in the App's status.  The reconciler of a Task reads the *)
(* listers, writes the App's status (for the ID), the Task (its label),    *)
(* the TaskRun and the Task's status, one API call after the other; other  *)
(* writers, failures and deliveries happen in between.  The Task           *)
(* reconciler is not started by events of the App.                         *)
(***************************************************************************)
EXTENDS Conditions, Sequences, FiniteSets

CONSTANTS
    MaxTasks,       \* bound: Tasks created; they are named in their order
    Retained,       \* TaskRetentionCount of config-defaults
    MaxChanges,     \* bound: Tasks terminated or deleted by users
    MaxAppWrites,   \* bound: status updates of the App reconciler
    MaxFaults,      \* bound: failed calls, and informers that are too slow
    Disturbances    \* which of Disturbance may happen

\* A Space or App the lister does not know, a failed API call, an image that
\* cannot be read from its registry, a failed update of the TaskRun.
Disturbance == {"missing", "api", "registry", "sync"}

ASSUME TasksAssumption ==
    /\ {MaxTasks, Retained, MaxChanges, MaxAppWrites, MaxFaults} \subseteq Nat
    /\ Disturbances \subseteq Disturbance

VARIABLES
    task, taskWatch, taskCache,     \* the Task objects
    app,                            \* the App's status: its counter, the rest
    run, runSeen,                   \* the TaskRuns, as stored and as listed
    queue,                          \* Tasks enqueued for the reconciler
    pc, copy, stale, assigned,      \* per Task: the step, the copy of the
                                    \* Task; Tasks whose copy is not the
                                    \* stored one, or got its ID in this run
    apc, acopy,                     \* App reconciler: its copy of the status
    gtodo,                          \* garbage collector: Tasks to delete
    created, changes, faults        \* what happened so far

taskVars == <<task, taskWatch, taskCache>>
runVars  == <<run, runSeen>>
recVars  == <<queue, pc, copy, stale, assigned>>
vars     == <<taskVars, app, runVars, recVars, apc, acopy, gtodo,
              created, changes, faults>>

Task == 1..MaxTasks

TaskStatus == [id: Nat, succeeded: ConditionStatus]
TaskObject == [exists: BOOLEAN, deleting: BOOLEAN, terminated: BOOLEAN,
               label: Nat, status: TaskStatus]
AppStatus  == [tasks: Nat, other: 0..MaxAppWrites]
TaskRun    == [state: {"none", "running", "True", "False"},
               label: Nat, cancelled: BOOLEAN]

NoTask == [exists |-> FALSE, deleting |-> FALSE, terminated |-> FALSE, label |-> 0,
           status |-> [id |-> 0, succeeded |-> "Unknown"]]
NoApp  == [tasks |-> 0, other |-> 0]
NoRun  == [state |-> "none", label |-> 0, cancelled |-> FALSE]

IsFinal(o) == IsStatusFinal(o.status.succeeded)

-----------------------------------------------------------------------------
(* The API server, the informers and Tekton. *)

WriteTask(t, o) ==
    /\ taskWatch[t] = <<>>
    /\ task' = [task EXCEPT ![t] = o]
    /\ taskWatch' = [taskWatch EXCEPT ![t] = <<o>>]
    /\ UNCHANGED taskCache

\* A write by another than the reconciler outdates the copy of a run that
\* still has to update the Task.
StoreTask(t, o) ==
    /\ WriteTask(t, o)
    /\ stale' = IF pc[t] \in {"id", "label"} THEN stale \union {t} ELSE stale

Fault(kind) ==
    /\ kind \in Disturbances
    /\ faults < MaxFaults /\ faults' = faults + 1

DeliverTask(t) ==
    /\ taskWatch[t] # <<>>
    /\ taskCache' = [taskCache EXCEPT ![t] = Head(taskWatch[t])]
    /\ taskWatch' = [taskWatch EXCEPT ![t] = <<>>]
    /\ queue' = queue \union {t}
    /\ UNCHANGED <<task, app, runVars, pc, copy, stale, assigned, apc, acopy, gtodo,
                   created, changes, faults>>

DeliverRun(t) ==
    /\ runSeen[t] # run[t]
    /\ runSeen' = [runSeen EXCEPT ![t] = run[t]]
    /\ queue' = queue \union {t}
    /\ UNCHANGED <<taskVars, app, run, pc, copy, stale, assigned, apc, acopy, gtodo,
                   created, changes, faults>>

\* Tekton: the TaskRun ends by itself, or fails because it was cancelled.
RunEnds(t) ==
    /\ run[t].state = "running"
    /\ \E s \in {"True", "False"} : run' = [run EXCEPT ![t].state = s]
    /\ UNCHANGED <<taskVars, app, runSeen, recVars, apc, acopy, gtodo,
                   created, changes, faults>>

RunCancelled(t) ==
    /\ run[t].state = "running" /\ run[t].cancelled
    /\ run' = [run EXCEPT ![t].state = "False"]
    /\ UNCHANGED <<taskVars, app, runSeen, recVars, apc, acopy, gtodo,
                   created, changes, faults>>

\* Kubernetes deletes the TaskRun with the Task that owns it.
RunCollected(t) ==
    /\ run[t].state # "none" /\ (task[t].deleting \/ ~task[t].exists)
    /\ run' = [run EXCEPT ![t] = NoRun]
    /\ UNCHANGED <<taskVars, app, runSeen, recVars, apc, acopy, gtodo,
                   created, changes, faults>>

-----------------------------------------------------------------------------
(* Users. *)

\* run-task, or a TaskSchedule.
RunTask ==
    LET t == created + 1
    IN  /\ created < MaxTasks
        /\ created' = t
        /\ StoreTask(t, [NoTask EXCEPT !.exists = TRUE])
        /\ UNCHANGED <<app, runVars, queue, pc, copy, assigned, apc, acopy, gtodo,
                       changes, faults>>

\* terminate-task leaves Tasks that are final or terminated alone.
TerminateTask(t) ==
    /\ changes < MaxChanges
    /\ task[t].exists /\ ~IsFinal(task[t]) /\ ~task[t].terminated
    /\ StoreTask(t, [task[t] EXCEPT !.terminated = TRUE])
    /\ changes' = changes + 1
    /\ UNCHANGED <<app, runVars, queue, pc, copy, assigned, apc, acopy, gtodo,
                   created, faults>>

\* With the App or the TaskSchedule that owns it, in the foreground: the Task
\* stays until its TaskRun is collected.
DeleteTask(t) ==
    /\ changes < MaxChanges
    /\ task[t].exists /\ ~task[t].deleting
    /\ StoreTask(t, [task[t] EXCEPT !.deleting = TRUE])
    /\ changes' = changes + 1
    /\ UNCHANGED <<app, runVars, queue, pc, copy, assigned, apc, acopy, gtodo,
                   created, faults>>

TaskCollected(t) ==
    /\ task[t].exists /\ task[t].deleting /\ run[t].state = "none"
    /\ StoreTask(t, NoTask)
    /\ UNCHANGED <<app, runVars, queue, pc, copy, assigned, apc, acopy, gtodo,
                   created, changes, faults>>

-----------------------------------------------------------------------------
(* The Task reconciler.  The work queue runs one reconcile of a Task at a    *)
(* time, reconciles of different Tasks side by side.                         *)

TFinish(t, failed) ==
    /\ pc' = [pc EXCEPT ![t] = "idle"]
    /\ copy' = [copy EXCEPT ![t] = NoTask]
    /\ assigned' = assigned \ {t}
    /\ queue' = IF failed THEN queue \union {t} ELSE queue

\* The run ends with the status of o, which is stored if it is not the one
\* the run started from: the ID is new, or the Task has become final.
TEnds(t, o, failed) ==
    IF t \in assigned \/ o.status.succeeded # "Unknown"
      THEN /\ pc' = [pc EXCEPT ![t] = IF failed THEN "failed" ELSE "update"]
           /\ copy' = [copy EXCEPT ![t] = o]
           /\ UNCHANGED <<queue, assigned>>
      ELSE TFinish(t, failed)

\* A run that starts from an outdated copy is one of the bounded faults.
TTakes(t) ==
    /\ t \in queue /\ pc[t] = "idle"
    /\ \/ taskWatch[t] = <<>> /\ UNCHANGED faults
       \/ taskWatch[t] # <<>> /\ faults < MaxFaults /\ faults' = faults + 1

TGoes(t, step, o) ==
    /\ queue' = queue \ {t}
    /\ pc' = [pc EXCEPT ![t] = step]
    /\ copy' = [copy EXCEPT ![t] = o]
    /\ stale' = IF step \in {"id", "label"} /\ taskWatch[t] # <<>>
                  THEN stale \union {t} ELSE stale
    /\ UNCHANGED <<taskVars, app, runVars, assigned, apc, acopy, gtodo,
                   created, changes>>

\* Nothing to do: the Task is gone, or is final.
TNothing(t) ==
    LET o == taskCache[t]
    IN  /\ ~o.exists \/ (~o.deleting /\ IsFinal(o))
        /\ TTakes(t) /\ TGoes(t, "idle", NoTask)

Failed(o) == [o EXCEPT !.status.succeeded = "False"]

\* A Task that is being deleted is marked failed.
TTerminating(t) ==
    LET o == taskCache[t]
    IN  /\ o.exists /\ o.deleting
        /\ TTakes(t) /\ TGoes(t, "update", Failed(o))

\* A Task to run.  If the Space or the App is missing it fails for good.
TBegin(t) ==
    LET o == taskCache[t]
    IN  /\ o.exists /\ ~o.deleting /\ ~IsFinal(o)
        /\ \/ /\ TTakes(t)
              /\ TGoes(t, IF o.status.id = 0 THEN "id" ELSE "label", o)
           \/ /\ t \in queue /\ pc[t] = "idle" /\ taskWatch[t] = <<>>
              /\ Fault("missing")
              /\ TGoes(t, "failed", Failed(o))

\* The copy of the App that the lister has is written back with the counter
\* incremented.  A lister that is behind makes the API server refuse it.
TAssignID(t) ==
    /\ pc[t] = "id"
    /\ \/ /\ app' = [app EXCEPT !.tasks = @ + 1]
          /\ copy' = [copy EXCEPT ![t].status.id = app'.tasks]
          /\ pc' = [pc EXCEPT ![t] = "label"]
          /\ assigned' = assigned \union {t}
          /\ UNCHANGED <<queue, stale, faults>>
       \/ /\ Fault("api")
          /\ TFinish(t, TRUE)
          /\ stale' = stale \ {t}
          /\ UNCHANGED app
    /\ UNCHANGED <<taskVars, runVars, apc, acopy, gtodo, created, changes>>

\* The run stops with the status it has by now.
TStops(t) == TEnds(t, copy[t], TRUE)

\* Mutant: the Task is updated only when its label changes.
TLabelChanged(t) ==
    LET label == copy[t].status.id
    IN  /\ pc[t] = "label"
        /\ \/ /\ t \notin stale /\ label # copy[t].label
              /\ WriteTask(t, [copy[t] EXCEPT !.label = label,
                                              !.status = task[t].status])
              /\ pc' = [pc EXCEPT ![t] = "taskrun"]
              /\ UNCHANGED <<queue, copy, assigned, faults>>
           \/ /\ label = copy[t].label
              /\ pc' = [pc EXCEPT ![t] = "taskrun"]
              /\ UNCHANGED <<taskVars, queue, copy, assigned, faults>>
           \/ /\ label # copy[t].label /\ t \in stale
              /\ TStops(t)
              /\ UNCHANGED <<taskVars, faults>>
        /\ stale' = stale \ {t}
        /\ UNCHANGED <<app, runVars, apc, acopy, gtodo,
                       created, changes>>

\* Mutant: a Task that has a label keeps it.
TLabelOnce(t) ==
    /\ pc[t] = "label"
    /\ \/ /\ t \notin stale
          /\ IF copy[t].label = 0
               THEN WriteTask(t, [copy[t] EXCEPT !.label = copy[t].status.id,
                                                 !.status = task[t].status])
               ELSE UNCHANGED taskVars
          /\ pc' = [pc EXCEPT ![t] = "taskrun"]
          /\ UNCHANGED <<queue, copy, assigned>>
       \/ t \in stale /\ TStops(t) /\ UNCHANGED taskVars
    /\ stale' = stale \ {t}
    /\ UNCHANGED <<app, runVars, apc, acopy, gtodo, created, changes, faults>>

\* The Task is always updated, so this is also where an outdated copy is
\* found out.  An update that changes nothing makes no new version.
TLabel(t) ==
    LET label == copy[t].status.id
    IN  /\ pc[t] = "label"
        /\ \/ /\ t \notin stale /\ label # copy[t].label
              /\ WriteTask(t, [copy[t] EXCEPT !.label = label,
                                              !.status = task[t].status])
              /\ pc' = [pc EXCEPT ![t] = "taskrun"]
              /\ UNCHANGED <<queue, copy, assigned, faults>>
           \/ /\ t \notin stale /\ label = copy[t].label
              /\ pc' = [pc EXCEPT ![t] = "taskrun"]
              /\ UNCHANGED <<taskVars, queue, copy, assigned, faults>>
           \/ /\ \/ t \in stale /\ UNCHANGED faults
                 \/ Fault("api")
              /\ TStops(t)
              /\ UNCHANGED taskVars
        /\ stale' = stale \ {t}
        /\ UNCHANGED <<app, runVars, apc, acopy, gtodo,
                       created, changes>>

\* The TaskRun has the labels of the copy, without the label just written.
MakeTaskRun(t) ==
    [state |-> "running", label |-> copy[t].label, cancelled |-> copy[t].terminated]

\* Mutant: a TaskRun that has not failed counts as done.
PropagateTaskStatusOptimistic(s) == IF s = "False" THEN "False" ELSE "True"

PropagateTaskStatus(s) == IF s = "running" THEN "Unknown" ELSE s

WithRun(t, s) == [copy[t] EXCEPT !.status.succeeded = PropagateTaskStatus(s)]

\* The image's entrypoint is read from the registry before the TaskRun.
TRegistryFails(t) ==
    /\ pc[t] = "taskrun"
    /\ Fault("registry")
    /\ TEnds(t, Failed(copy[t]), TRUE)
    /\ UNCHANGED <<taskVars, app, runVars, stale, apc, acopy, gtodo,
                   created, changes>>

\* The lister does not have the TaskRun: it is created, if it is not there.
TCreateRun(t) ==
    /\ pc[t] = "taskrun" /\ runSeen[t].state = "none"
    /\ \/ /\ run[t].state = "none"
          /\ run' = [run EXCEPT ![t] = MakeTaskRun(t)]
          /\ TEnds(t, copy[t], FALSE)
          /\ UNCHANGED faults
       \/ /\ \/ run[t].state # "none" /\ UNCHANGED faults
             \/ Fault("api")
          /\ TStops(t)
          /\ UNCHANGED run
    /\ UNCHANGED <<taskVars, app, runSeen, stale, apc, acopy, gtodo,
                   created, changes>>

\* Mutant: the TaskRun's spec.status is not compared.
UpToDateLabels(t) == runSeen[t].label = MakeTaskRun(t).label

UpToDate(t) ==
    /\ runSeen[t].label = MakeTaskRun(t).label
    /\ runSeen[t].cancelled = MakeTaskRun(t).cancelled

\* The lister has it: reconcileTaskRun brings its labels and spec up to date;
\* what it reports is taken from the lister's version.
TSyncRun(t) ==
    /\ pc[t] = "taskrun" /\ runSeen[t].state # "none"
    /\ \/ /\ UpToDate(t)
          /\ TEnds(t, WithRun(t, runSeen[t].state), FALSE)
          /\ UNCHANGED <<run, faults>>
       \/ /\ ~UpToDate(t) /\ run[t] = runSeen[t]
          /\ run' = [run EXCEPT ![t] = [MakeTaskRun(t) EXCEPT !.state = run[t].state]]
          /\ TEnds(t, WithRun(t, runSeen[t].state), FALSE)
          /\ UNCHANGED faults
       \/ /\ ~UpToDate(t)
          /\ \E err \in {"conflict", "api"} :
                /\ IF err = "conflict" THEN run[t] # runSeen[t] /\ UNCHANGED faults
                                       ELSE Fault("sync")
                /\ TEnds(t, [copy[t] EXCEPT !.status.succeeded =
                                                MarkReconciliationError(err)], TRUE)
          /\ UNCHANGED run
    /\ UNCHANGED <<taskVars, app, runSeen, stale, apc, acopy, gtodo,
                   created, changes>>

\* updateStatus puts the whole status into the version the lister has now.  A
\* lister that is behind (the run's own label write included) makes it fail.
TUpdateStatus(t) ==
    LET updated == [taskCache[t] EXCEPT !.status = copy[t].status]
    IN  /\ pc[t] \in {"update", "failed"}
        /\ \/ /\ taskCache[t].exists /\ updated = taskCache[t]
              /\ TFinish(t, pc[t] = "failed")
              /\ UNCHANGED <<taskVars, faults>>
           \/ /\ taskCache[t].exists /\ updated # taskCache[t]
              /\ WriteTask(t, updated)
              /\ TFinish(t, pc[t] = "failed")
              /\ UNCHANGED faults
           \/ /\ \/ ~taskCache[t].exists /\ UNCHANGED faults
                 \/ /\ taskCache[t].exists /\ updated # taskCache[t]
                    /\ \/ /\ taskWatch[t] # <<>>
                          /\ faults < MaxFaults /\ faults' = faults + 1
                       \/ Fault("api")
              /\ TFinish(t, TRUE)
              /\ UNCHANGED taskVars
        /\ UNCHANGED <<app, runVars, stale, apc, acopy, gtodo,
                       created, changes>>

-----------------------------------------------------------------------------
(* The App reconciler, which writes back the status it started from with     *)
(* what it found out in between.  A lister that is behind is a run that      *)
(* began earlier, or an update that is refused.                              *)

ABegin ==
    /\ apc = "idle" /\ app.other < MaxAppWrites
    /\ acopy' = [app EXCEPT !.other = @ + 1]
    /\ apc' = "update"
    /\ UNCHANGED <<taskVars, app, runVars, recVars, gtodo, created, changes, faults>>

\* updateStatus writes into the version the lister has by now.
AUpdateStatus ==
    /\ apc = "update"
    /\ \/ app' = acopy /\ UNCHANGED faults
       \/ Fault("api") /\ UNCHANGED app
    /\ apc' = "idle" /\ acopy' = NoApp
    /\ UNCHANGED <<taskVars, runVars, recVars, gtodo, created, changes>>

-----------------------------------------------------------------------------
(* The garbage collector. *)

\* Not finished first, then the youngest first; of those past the limit the
\* finished ones are deleted.
tasksToGC(tasks, max) ==
    LET before(u, t) == IF IsFinal(task[u]) = IsFinal(task[t])
                          THEN u > t ELSE ~IsFinal(task[u])
    IN  {t \in tasks : /\ IsFinal(task[t])
                       /\ Cardinality({u \in tasks : before(u, t)}) >= max}

\* It lists the Tasks from the API server and deletes them one by one.
GBegin ==
    LET found == tasksToGC({t \in Task : task[t].exists}, Retained)
    IN  /\ gtodo = {} /\ found # {}
        /\ gtodo' = found
        /\ UNCHANGED <<taskVars, app, runVars, recVars, apc, acopy,
                       created, changes, faults>>

\* A Task that is already gone stops it.
GDelete(t) ==
    /\ t \in gtodo
    /\ IF task[t].exists
         THEN StoreTask(t, NoTask) /\ gtodo' = gtodo \ {t}
         ELSE gtodo' = {} /\ UNCHANGED <<taskVars, stale>>
    /\ UNCHANGED <<app, runVars, queue, pc, copy, assigned, apc, acopy,
                   created, changes, faults>>

-----------------------------------------------------------------------------
Init ==
    /\ task = [t \in Task |-> NoTask] /\ taskCache = task
    /\ taskWatch = [t \in Task |-> <<>>]
    /\ app = NoApp
    /\ run = [t \in Task |-> NoRun] /\ runSeen = run
    /\ queue = {} /\ pc = [t \in Task |-> "idle"]
    /\ copy = [t \in Task |-> NoTask] /\ stale = {} /\ assigned = {}
    /\ apc = "idle" /\ acopy = app
    /\ gtodo = {}
    /\ created = 0 /\ changes = 0 /\ faults = 0

TaskReconciler(t) ==
    \/ TNothing(t) \/ TTerminating(t) \/ TBegin(t) \/ TAssignID(t) \/ TLabel(t)
    \/ TRegistryFails(t) \/ TCreateRun(t) \/ TSyncRun(t) \/ TUpdateStatus(t)

Cluster(t) == DeliverTask(t) \/ DeliverRun(t) \/ RunCollected(t) \/ TaskCollected(t)

User(t) == TerminateTask(t) \/ DeleteTask(t)

Next ==
    \/ RunTask \/ ABegin \/ AUpdateStatus \/ GBegin
    \/ \E t \in Task : \/ TaskReconciler(t) \/ Cluster(t) \/ User(t)
                       \/ RunEnds(t) \/ RunCancelled(t) \/ GDelete(t)

Spec == Init /\ [][Next]_vars

\* The informers deliver, the reconciler runs what is enqueued, and Tekton
\* ends a TaskRun that is cancelled.  No user command, and no TaskRun that is
\* left alone, has to end.
Fairness ==
    /\ \A t \in Task :
        /\ WF_vars(DeliverTask(t)) /\ WF_vars(DeliverRun(t))
        /\ WF_vars(TaskReconciler(t)) /\ WF_vars(RunCancelled(t))

FairSpec == Spec /\ Fairness

-----------------------------------------------------------------------------
(* Properties. *)

(* Every variable keeps the shape of the Go value it stands for.             *)
TypeOK ==
    /\ task \in [Task -> TaskObject] /\ taskCache \in [Task -> TaskObject]
    /\ \A t \in Task : taskWatch[t] \in Seq(TaskObject) /\ Len(taskWatch[t]) <= 1
    /\ app \in AppStatus /\ acopy \in AppStatus
    /\ run \in [Task -> TaskRun] /\ runSeen \in [Task -> TaskRun]
    /\ {queue, stale, assigned, gtodo} \subseteq SUBSET Task
    /\ pc \in [Task -> {"idle", "id", "label", "taskrun", "update", "failed"}]
    /\ copy \in [Task -> TaskObject]
    /\ apc \in {"idle", "update"}
    /\ created \in 0..MaxTasks /\ changes \in 0..MaxChanges /\ faults \in 0..MaxFaults

(* "Tasks only get run once regardless of success or failure status": no     *)
(* TaskRun is started for a Task that is stored as finished, however         *)
(* outdated the copy is that the reconciler works on.                        *)
StartsOnce ==
    [][\A t \in Task :
        run[t].state = "none" /\ run'[t].state # "none" => ~IsFinal(task[t])]_vars

(* A Task that reports success has a TaskRun that succeeded, although the    *)
(* whole status is written from copies that may be outdated.                 *)
SucceededIsReal ==
    \A t \in Task :
        task[t].exists /\ ~task[t].deleting /\ task[t].status.succeeded = "True" =>
            run[t].state = "True"

(* The label by which `kf terminate-task APP ID` looks a Task up ends up as  *)
(* the ID in its status for every Task that is not finished, although the    *)
(* two are written one after the other and a retry assigns the ID anew.      *)
LabelFollowsID ==
    \A t \in Task :
        <>[](task[t].exists /\ ~task[t].deleting /\ ~IsFinal(task[t]) =>
                task[t].label = task[t].status.id)

(* A running Task that is terminated does not go on as if nothing had been   *)
(* asked: it ends, or is reported as finished (which a failure to reach the  *)
(* registry does while the TaskRun is still running), or is deleted.         *)
TerminateEnds ==
    \A t \in Task :
        task[t].terminated /\ run[t].state = "running" ~>
            run[t].state # "running" \/ IsFinal(task[t]) \/ ~task[t].exists

(* "each Task is assigned an App-wide unique ID by incrementing the App      *)
(* counter".                                                                 *)
UniqueIDs ==
    \A t, u \in Task :
        t # u /\ task[t].status.id # 0 => task[t].status.id # task[u].status.id
==============================================================================
