----------------------------- MODULE TasksProofs -----------------------------
(***************************************************************************)
(* Proofs about Tasks, for every number of Tasks, every retention count    *)
(* and every set of disturbances.                                          *)
(*                                                                         *)
(* Neither "runs once" nor "success is real" is inductive: the reconciler  *)
(* acts on what its listers show.  The invariant says how the lister, the  *)
(* copy of a run and the stored Task hang together: a run that got past    *)
(* its label update worked on the stored version, and a TaskRun's success  *)
(* is never taken back while its Task stays.                               *)
(***************************************************************************)
EXTENDS Tasks, TLAPS

-----------------------------------------------------------------------------
(* The inductive invariant *)

\* The Task was deleted, or is being deleted: it does not come back.
Gone(t) == ~task[t].exists \/ task[t].deleting

\* What is stored is in the lister, or on its way there.
Delivered(t) ==
    \/ taskWatch[t] = <<>> /\ taskCache[t] = task[t]
    \/ taskWatch[t] = <<task[t]>>

\* As long as it is not stale, the copy of a run that still has to update the
\* Task is the stored one; past the update the Task has not become final, as
\* only the run itself would make it so.
Held(t) ==
    /\ pc[t] \in {"id", "label"} /\ t \notin stale =>
          /\ copy[t].exists = task[t].exists
          /\ copy[t].deleting = task[t].deleting
          /\ ~IsFinal(task[t])
    /\ pc[t] = "taskrun" => ~IsFinal(task[t])

\* Without a TaskRun that succeeded, nothing anywhere says that it did.
Ended(t) ==
    \/ run[t].state = "True"
    \/ Gone(t)
    \/ /\ runSeen[t].state # "True"
       /\ task[t].status.succeeded # "True"
       /\ taskCache[t].status.succeeded # "True"
       /\ copy[t].status.succeeded # "True"

\* A Task that was not created yet has left no trace.
Unused(t) ==
    t > created =>
        /\ task[t] = NoTask /\ taskCache[t] = NoTask /\ copy[t] = NoTask
        /\ taskWatch[t] = <<>> /\ pc[t] = "idle"
        /\ run[t] = NoRun /\ runSeen[t] = NoRun

TaskInv(t) == Delivered(t) /\ Held(t) /\ Ended(t) /\ Unused(t)

\* At most one version of a Task is on its way.
Pending == {<<>>} \cup {<<o>> : o \in TaskObject}

IInv ==
    /\ TypeOK
    /\ taskWatch \in [Task -> Pending]
    /\ \A t \in Task : TaskInv(t)

-----------------------------------------------------------------------------
(* Types *)

(* The objects of which everything else is made.                            *)
LEMMA ObjectsTyped ==
    /\ NoTask \in TaskObject
    /\ NoRun \in TaskRun
    /\ NoApp \in AppStatus
<1>1. MaxAppWrites \in Nat
  BY TasksAssumption
<1> QED
  BY <1>1
  DEF NoTask, NoRun, NoApp, TaskObject, TaskStatus, TaskRun, AppStatus,
      ConditionStatus

(* Changing the status, or one field of a Task, keeps it a Task.            *)
LEMMA TaskTyped ==
    ASSUME NEW o \in TaskObject
    PROVE  /\ o.status \in TaskStatus /\ o.label \in Nat
           /\ o.exists \in BOOLEAN /\ o.deleting \in BOOLEAN
           /\ o.terminated \in BOOLEAN
           /\ o.status.id \in Nat /\ o.status.succeeded \in ConditionStatus
           /\ \A st \in TaskStatus : [o EXCEPT !.status = st] \in TaskObject
           /\ [o EXCEPT !.terminated = TRUE] \in TaskObject
           /\ [o EXCEPT !.deleting = TRUE] \in TaskObject
           /\ \A l \in Nat, st \in TaskStatus :
                 [o EXCEPT !.label = l, !.status = st] \in TaskObject
BY DEF TaskObject, TaskStatus

(* A Task with another status keeps the rest.                               *)
LEMMA StatusSet ==
    ASSUME NEW o \in TaskObject, NEW st \in TaskStatus
    PROVE  /\ [o EXCEPT !.status = st] \in TaskObject
           /\ [o EXCEPT !.status = st].status = st
           /\ [o EXCEPT !.status = st].exists = o.exists
           /\ [o EXCEPT !.status = st].deleting = o.deleting
BY DEF TaskObject

(* A Task with another outcome in its status.                               *)
LEMMA OutcomeTyped ==
    ASSUME NEW o \in TaskObject, NEW c \in ConditionStatus
    PROVE  /\ [o EXCEPT !.status.succeeded = c] \in TaskObject
           /\ [o EXCEPT !.status.succeeded = c].status.succeeded = c
           /\ [o EXCEPT !.status.succeeded = c].exists = o.exists
           /\ [o EXCEPT !.status.succeeded = c].deleting = o.deleting
<1> DEFINE st == [o.status EXCEPT !.succeeded = c]
<1>1. st \in TaskStatus /\ st.succeeded = c
  BY DEF TaskObject, TaskStatus
<1>2. [o EXCEPT !.status.succeeded = c] = [o EXCEPT !.status = st]
  BY DEF TaskObject
<1> HIDE DEF st
<1> QED  BY <1>1, <1>2, StatusSet

(* A Task with another ID in its status.                                    *)
LEMMA IDTyped ==
    ASSUME NEW o \in TaskObject, NEW n \in Nat
    PROVE  /\ [o EXCEPT !.status.id = n] \in TaskObject
           /\ [o EXCEPT !.status.id = n].status.succeeded = o.status.succeeded
           /\ [o EXCEPT !.status.id = n].exists = o.exists
           /\ [o EXCEPT !.status.id = n].deleting = o.deleting
<1> DEFINE st == [o.status EXCEPT !.id = n]
<1>1. st \in TaskStatus /\ st.succeeded = o.status.succeeded
  BY DEF TaskObject, TaskStatus
<1>2. [o EXCEPT !.status.id = n] = [o EXCEPT !.status = st]
  BY DEF TaskObject
<1> HIDE DEF st
<1> QED  BY <1>1, <1>2, StatusSet

(* What is on its way is one Task at most, and it is the head.              *)
LEMMA PendingTyped ==
    ASSUME NEW w \in Pending
    PROVE  /\ w \in Seq(TaskObject) /\ Len(w) <= 1
           /\ w # <<>> => Head(w) \in TaskObject
<1>1. CASE w = <<>>
  BY <1>1
<1>2. CASE w # <<>>
  <2>1. PICK o \in TaskObject : w = <<o>>
    BY <1>2 DEF Pending
  <2> QED  BY <2>1
<1> QED  BY <1>1, <1>2

(* The TaskRun that makeTaskRun describes.                                  *)
LEMMA RunTyped ==
    ASSUME copy \in [Task -> TaskObject], NEW t \in Task
    PROVE  /\ MakeTaskRun(t) \in TaskRun
           /\ MakeTaskRun(t).state = "running"
           /\ \A s \in {"none", "running", "True", "False"} :
                 /\ [MakeTaskRun(t) EXCEPT !.state = s] \in TaskRun
                 /\ [MakeTaskRun(t) EXCEPT !.state = s].state = s
<1>1. copy[t].label \in Nat /\ copy[t].terminated \in BOOLEAN
  BY TaskTyped
<1> QED  BY <1>1 DEF MakeTaskRun, TaskRun

\* The types of the variables that are not per Task.
Rest ==
    /\ app \in AppStatus /\ acopy \in AppStatus
    /\ {stale, gtodo} \subseteq SUBSET Task
    /\ apc \in {"idle", "update"}
    /\ created \in 0..MaxTasks /\ changes \in 0..MaxChanges /\ faults \in 0..MaxFaults

Others == Rest /\ {queue, assigned} \subseteq SUBSET Task

PerTask ==
    /\ task \in [Task -> TaskObject] /\ taskCache \in [Task -> TaskObject]
    /\ taskWatch \in [Task -> Pending]
    /\ run \in [Task -> TaskRun] /\ runSeen \in [Task -> TaskRun]
    /\ pc \in [Task -> {"idle", "id", "label", "taskrun", "update", "failed"}]
    /\ copy \in [Task -> TaskObject]

(* The two together are the types.                                          *)
LEMMA TypesSplit ==
    TypeOK /\ taskWatch \in [Task -> Pending] <=> Others /\ PerTask
<1>1. ASSUME taskWatch \in [Task -> Pending]
      PROVE  \A t \in Task : taskWatch[t] \in Seq(TaskObject) /\ Len(taskWatch[t]) <= 1
  BY <1>1, PendingTyped
<1> QED  BY <1>1 DEF TypeOK, Others, Rest, PerTask

-----------------------------------------------------------------------------
(* A step of one Task leaves the others alone *)

Same(u) ==
    /\ task'[u] = task[u] /\ taskWatch'[u] = taskWatch[u]
    /\ taskCache'[u] = taskCache[u]
    /\ run'[u] = run[u] /\ runSeen'[u] = runSeen[u]
    /\ pc'[u] = pc[u] /\ copy'[u] = copy[u]
    /\ u \in stale' <=> u \in stale

\* What has to be shown of a step that concerns t.
Moves(t) ==
    /\ Others' /\ PerTask'
    /\ created' = created
    /\ \A u \in Task \ {t} : Same(u)
    /\ TaskInv(t)'

(* A Task to which nothing happens keeps its invariant.                     *)
LEMMA SameKeeps ==
    ASSUME NEW u \in Task, TaskInv(u), Same(u), created' = created
    PROVE  TaskInv(u)'
BY DEF TaskInv, Delivered, Held, Ended, Unused, Gone, Same, IsFinal

(* So it is enough to look at the Task that a step concerns.                *)
LEMMA MovesKeep ==
    ASSUME IInv, NEW t \in Task, Moves(t)
    PROVE  IInv'
<1>1. TypeOK' /\ (taskWatch \in [Task -> Pending])'
  <2>1. (TypeOK /\ taskWatch \in [Task -> Pending] <=> Others /\ PerTask)'
    BY TypesSplit, PTL
  <2> QED  BY <2>1 DEF Moves
<1>2. ASSUME NEW u \in Task PROVE TaskInv(u)'
  <2>1. CASE u = t
    BY <2>1 DEF Moves
  <2>2. CASE u # t
    BY <2>2, SameKeeps DEF IInv, Moves
  <2> QED  BY <2>1, <2>2
<1> QED  BY <1>1, <1>2 DEF IInv

(* A step that touches no Task.                                             *)
LEMMA IdleKeeps ==
    ASSUME IInv, UNCHANGED <<taskVars, runVars, pc, copy, stale, created>>, Others'
    PROVE  IInv'
<1>1. Others /\ PerTask
  BY TypesSplit DEF IInv
<1>2. PerTask'
  BY <1>1 DEF PerTask, taskVars, runVars
<1>3. TypeOK' /\ (taskWatch \in [Task -> Pending])'
  <2>1. (TypeOK /\ taskWatch \in [Task -> Pending] <=> Others /\ PerTask)'
    BY TypesSplit, PTL
  <2> QED  BY <1>2, <2>1
<1>4. ASSUME NEW u \in Task PROVE TaskInv(u)'
  BY SameKeeps DEF IInv, Same, taskVars, runVars
<1> QED  BY <1>3, <1>4 DEF IInv

-----------------------------------------------------------------------------
(* The shapes of the steps *)

(* A write stores the Task and puts it on its way to the lister.            *)
LEMMA WriteShape ==
    ASSUME PerTask, NEW t \in Task, NEW o \in TaskObject, WriteTask(t, o)
    PROVE  /\ task' \in [Task -> TaskObject] /\ taskWatch' \in [Task -> Pending]
           /\ taskCache' = taskCache
           /\ taskWatch[t] = <<>> /\ task'[t] = o /\ taskWatch'[t] = <<o>>
           /\ \A u \in Task \ {t} : task'[u] = task[u] /\ taskWatch'[u] = taskWatch[u]
<1>1. <<o>> \in Pending
  BY DEF Pending
<1> QED  BY <1>1 DEF PerTask, WriteTask

(* Counting a fault stays within the bound.                                 *)
LEMMA FaultTyped ==
    ASSUME faults \in 0..MaxFaults, NEW kind, Fault(kind)
    PROVE  faults' \in 0..MaxFaults
BY TasksAssumption DEF Fault

(* A Task with a trace was created.                                         *)
LEMMA Used ==
    ASSUME IInv, NEW t \in Task,
           \/ task[t].exists \/ taskCache[t].exists \/ pc[t] # "idle"
           \/ run[t].state # "none"
    PROVE  ~(t > created)
BY DEF IInv, TaskInv, Unused, NoTask, NoRun

(* The lister is up to date when nothing is on its way.                     *)
LEMMA ListerCurrent ==
    ASSUME IInv, NEW t \in Task, taskWatch[t] = <<>>
    PROVE  taskCache[t] = task[t]
BY DEF IInv, TaskInv, Delivered

(* A write by another than the reconciler, which finishes no Task and       *)
(* brings none back.                                                        *)
LEMMA StoreMoves ==
    ASSUME IInv, NEW t \in Task, NEW o \in TaskObject, StoreTask(t, o),
           UNCHANGED <<runVars, pc, copy, queue, assigned, app, acopy, apc, created>>,
           gtodo' \subseteq Task,
           changes' \in 0..MaxChanges, faults' \in 0..MaxFaults,
           ~(t > created),
           Gone(t) => ~o.exists \/ o.deleting,
           o.status.succeeded \in {"Unknown", task[t].status.succeeded}
    PROVE  Moves(t)
<1>1. Others /\ PerTask /\ TaskInv(t)
  BY TypesSplit DEF IInv
<1>2. /\ task' \in [Task -> TaskObject] /\ taskWatch' \in [Task -> Pending]
      /\ taskCache' = taskCache
      /\ taskWatch[t] = <<>> /\ task'[t] = o /\ taskWatch'[t] = <<o>>
      /\ \A u \in Task \ {t} : task'[u] = task[u] /\ taskWatch'[u] = taskWatch[u]
  BY <1>1, WriteShape DEF StoreTask
<1>3. stale' = IF pc[t] \in {"id", "label"} THEN stale \union {t} ELSE stale
  BY DEF StoreTask
<1>4. Others'
  BY <1>1, <1>3 DEF Others, Rest
<1>5. PerTask'
  BY <1>1, <1>2 DEF PerTask, runVars
<1>6. \A u \in Task \ {t} : Same(u)
  BY <1>2, <1>3 DEF Same, runVars
<1>7. Delivered(t)' /\ Unused(t)'
  BY <1>2 DEF Delivered, Unused
<1>8. Held(t)'
  BY <1>1, <1>2, <1>3 DEF TaskInv, Held, IsFinal, IsStatusFinal
<1>9. Ended(t)'
  BY <1>1, <1>2 DEF TaskInv, Ended, Gone, runVars
<1> QED  BY <1>4, <1>5, <1>6, <1>7, <1>8, <1>9 DEF Moves, TaskInv

(* A run that starts: the copy is the lister's Task, or what becomes of it. *)
LEMMA GoesMoves ==
    ASSUME IInv, NEW t \in Task, NEW step \in {"idle", "id", "label", "update", "failed"},
           NEW o \in TaskObject, TGoes(t, step, o), faults' \in 0..MaxFaults,
           ~(t > created) \/ (step = "idle" /\ o = NoTask),
           step \in {"id", "label"} => o = taskCache[t] /\ ~IsFinal(o),
           o.status.succeeded = "True" => taskCache[t].status.succeeded = "True"
    PROVE  Moves(t)
<1>1. Others /\ PerTask /\ TaskInv(t)
  BY TypesSplit DEF IInv
<1>2. /\ queue' = queue \ {t}
      /\ pc' = [pc EXCEPT ![t] = step]
      /\ copy' = [copy EXCEPT ![t] = o]
      /\ stale' = IF step \in {"id", "label"} /\ taskWatch[t] # <<>>
                    THEN stale \union {t} ELSE stale
      /\ UNCHANGED <<task, taskWatch, taskCache, app, run, runSeen, assigned, apc,
                     acopy, gtodo, created, changes>>
  BY DEF TGoes, taskVars, runVars
<1>3. Others'
  BY <1>1, <1>2 DEF Others, Rest
<1>4. PerTask' /\ pc'[t] = step /\ copy'[t] = o
  BY <1>1, <1>2 DEF PerTask
<1>5. \A u \in Task \ {t} : Same(u)
  BY <1>1, <1>2 DEF Same, PerTask
<1>6. Delivered(t)' /\ Unused(t)'
  BY <1>1, <1>2, <1>4 DEF TaskInv, Delivered, Unused
<1>7. Held(t)'
  <2>1. CASE step \in {"id", "label"} /\ t \notin stale'
    <3>1. taskWatch[t] = <<>>
      BY <1>2, <2>1
    <3>2. task[t] = o /\ ~IsFinal(o)
      BY <2>1, <3>1, ListerCurrent
    <3> QED  BY <1>2, <1>4, <2>1, <3>2 DEF Held, IsFinal
  <2>2. CASE ~(step \in {"id", "label"} /\ t \notin stale')
    BY <1>4, <2>2 DEF Held
  <2> QED  BY <2>1, <2>2
<1>8. Ended(t)'
  BY <1>1, <1>2, <1>4 DEF TaskInv, Ended, Gone
<1> QED  BY <1>2, <1>3, <1>4, <1>5, <1>6, <1>7, <1>8 DEF Moves, TaskInv

(* How a run stops working: it goes to its status update, or is over.       *)
LEMMA EndsShape ==
    ASSUME Others, PerTask, NEW t \in Task, NEW o \in TaskObject, NEW failed \in BOOLEAN,
           TEnds(t, o, failed) \/ TFinish(t, failed)
    PROVE  /\ {queue', assigned'} \subseteq SUBSET Task
           /\ pc' \in [Task -> {"idle", "id", "label", "taskrun", "update", "failed"}]
           /\ copy' \in [Task -> TaskObject]
           /\ pc'[t] \in {"idle", "update", "failed"}
           /\ copy'[t] \in {o, NoTask}
           /\ \A u \in Task \ {t} : pc'[u] = pc[u] /\ copy'[u] = copy[u]
<1>1. CASE TFinish(t, failed)
  BY <1>1, ObjectsTyped DEF Others, PerTask, TFinish
<1>2. CASE TEnds(t, o, failed) /\ ~TFinish(t, failed)
  BY <1>2 DEF Others, PerTask, TEnds
<1> QED  BY <1>1, <1>2

(* The end of a run: it may have started or changed the TaskRun, and it     *)
(* reports success only for a TaskRun that succeeded.                       *)
LEMMA EndsMoves ==
    ASSUME IInv, NEW t \in Task, NEW o \in TaskObject, NEW failed \in BOOLEAN,
           TEnds(t, o, failed) \/ TFinish(t, failed),
           pc[t] # "idle",
           UNCHANGED <<taskVars, runSeen, created>>,
           run' \in [Task -> TaskRun],
           \A u \in Task \ {t} : run'[u] = run[u],
           run[t].state = "True" => run'[t].state = "True",
           o.status.succeeded = "True" => run'[t].state = "True" \/ Gone(t),
           Rest', \A u \in Task \ {t} : u \in stale' <=> u \in stale
    PROVE  Moves(t)
<1>1. Others /\ PerTask /\ TaskInv(t) /\ ~(t > created)
  BY TypesSplit, Used DEF IInv
<1>2. /\ {queue', assigned'} \subseteq SUBSET Task
      /\ pc' \in [Task -> {"idle", "id", "label", "taskrun", "update", "failed"}]
      /\ copy' \in [Task -> TaskObject]
      /\ pc'[t] \in {"idle", "update", "failed"}
      /\ copy'[t] \in {o, NoTask}
      /\ \A u \in Task \ {t} : pc'[u] = pc[u] /\ copy'[u] = copy[u]
  BY <1>1, EndsShape
<1>3. UNCHANGED <<task, taskWatch, taskCache>>
  BY DEF taskVars
<1>4. Others'
  BY <1>2 DEF Others
<1>5. PerTask'
  BY <1>1, <1>2, <1>3 DEF PerTask
<1>6. \A u \in Task \ {t} : Same(u)
  BY <1>2, <1>3 DEF Same
<1>7. Delivered(t)' /\ Held(t)' /\ Unused(t)'
  BY <1>1, <1>2, <1>3 DEF TaskInv, Delivered, Held, Unused
<1>8. NoTask.status.succeeded = "Unknown"
  BY DEF NoTask
<1>9. Ended(t)'
  BY <1>1, <1>2, <1>3, <1>8 DEF TaskInv, Ended, Gone
<1> QED  BY <1>4, <1>5, <1>6, <1>7, <1>9 DEF Moves, TaskInv

-----------------------------------------------------------------------------
(* The API server, the informers and Tekton *)

(* The lister gets what is stored.                                          *)
LEMMA DeliverTaskMoves ==
    ASSUME IInv, NEW t \in Task, DeliverTask(t)
    PROVE  Moves(t)
<1>1. Others /\ PerTask /\ TaskInv(t)
  BY TypesSplit DEF IInv
<1>2. taskWatch[t] = <<task[t]>> /\ Head(taskWatch[t]) = task[t]
  BY <1>1 DEF DeliverTask, TaskInv, Delivered
<1>3. /\ taskCache' = [taskCache EXCEPT ![t] = task[t]]
      /\ taskWatch' = [taskWatch EXCEPT ![t] = <<>>]
      /\ queue' = queue \union {t}
      /\ UNCHANGED <<task, app, run, runSeen, pc, copy, stale, assigned, apc, acopy,
                     gtodo, created, changes, faults>>
  BY <1>2 DEF DeliverTask, runVars
<1>4. Others'
  BY <1>1, <1>3 DEF Others, Rest
<1>5. <<>> \in Pending
  BY DEF Pending
<1>6. PerTask' /\ taskCache'[t] = task[t] /\ taskWatch'[t] = <<>>
  BY <1>1, <1>3, <1>5 DEF PerTask
<1>7. \A u \in Task \ {t} : Same(u)
  BY <1>1, <1>3 DEF Same, PerTask
<1>8. Delivered(t)' /\ Held(t)' /\ Ended(t)'
  BY <1>1, <1>3, <1>6 DEF TaskInv, Delivered, Held, Ended, Gone, IsFinal
<1>9. Unused(t)'
  BY <1>1, <1>2, <1>3 DEF TaskInv, Unused
<1> QED  BY <1>3, <1>4, <1>6, <1>7, <1>8, <1>9 DEF Moves, TaskInv

(* A step that only changes the TaskRun, or what the lister knows of it:    *)
(* its success is never taken back, and only seen after it happened.        *)
LEMMA RunMoves ==
    ASSUME IInv, NEW t \in Task,
           UNCHANGED <<taskVars, app, pc, copy, stale, assigned, apc, acopy, gtodo,
                       created, changes, faults>>,
           run' \in [Task -> TaskRun], runSeen' \in [Task -> TaskRun],
           queue' \subseteq Task,
           \A u \in Task \ {t} : run'[u] = run[u] /\ runSeen'[u] = runSeen[u],
           ~(t > created),
           run[t].state = "True" => run'[t].state = "True" \/ Gone(t),
           runSeen'[t].state = "True" =>
               runSeen[t].state = "True" \/ run'[t].state = "True"
    PROVE  Moves(t)
<1>1. Others /\ PerTask /\ TaskInv(t)
  BY TypesSplit DEF IInv
<1>2. UNCHANGED <<task, taskWatch, taskCache>>
  BY DEF taskVars
<1>3. Others' /\ PerTask'
  BY <1>1, <1>2 DEF Others, Rest, PerTask
<1>4. \A u \in Task \ {t} : Same(u)
  BY <1>2 DEF Same
<1>5. Delivered(t)' /\ Held(t)' /\ Unused(t)'
  BY <1>1, <1>2 DEF TaskInv, Delivered, Held, Unused, IsFinal
<1>6. Ended(t)'
  BY <1>1, <1>2 DEF TaskInv, Ended, Gone
<1> QED  BY <1>3, <1>4, <1>5, <1>6 DEF Moves, TaskInv

(* The lister of TaskRuns gets what is stored.                              *)
LEMMA DeliverRunMoves ==
    ASSUME IInv, NEW t \in Task, DeliverRun(t)
    PROVE  Moves(t)
<1>1. Others /\ PerTask /\ TaskInv(t)
  BY TypesSplit DEF IInv
<1>2. /\ runSeen' = [runSeen EXCEPT ![t] = run[t]] /\ run' = run
      /\ queue' = queue \union {t}
      /\ UNCHANGED <<taskVars, app, pc, copy, stale, assigned, apc, acopy, gtodo,
                     created, changes, faults>>
  BY DEF DeliverRun
<1>3. ~(t > created)
  BY <1>1 DEF DeliverRun, TaskInv, Unused
<1>4. /\ run' \in [Task -> TaskRun] /\ runSeen' \in [Task -> TaskRun]
      /\ \A u \in Task \ {t} : run'[u] = run[u] /\ runSeen'[u] = runSeen[u]
      /\ runSeen'[t] = run'[t] /\ run'[t] = run[t] /\ queue' \subseteq Task
  BY <1>1, <1>2 DEF PerTask, Others
<1> QED  BY <1>2, <1>3, <1>4, RunMoves

(* Tekton ends a TaskRun that runs, and Kubernetes removes the TaskRun of a *)
(* Task that is gone.                                                       *)
LEMMA TektonMoves ==
    ASSUME IInv, NEW t \in Task, RunEnds(t) \/ RunCancelled(t) \/ RunCollected(t)
    PROVE  Moves(t)
<1>1. Others /\ PerTask /\ TaskInv(t)
  BY TypesSplit DEF IInv
<1>2. /\ run[t].state # "none"
      /\ UNCHANGED <<taskVars, app, runSeen, queue, pc, copy, stale, assigned, apc,
                     acopy, gtodo, created, changes, faults>>
  BY DEF RunEnds, RunCancelled, RunCollected, recVars
<1>3. ~(t > created)
  BY <1>2, Used
<1>4. /\ run' \in [Task -> TaskRun]
      /\ \A u \in Task \ {t} : run'[u] = run[u]
      /\ run[t].state = "True" => run'[t].state = "True" \/ Gone(t)
  <2>1. CASE RunCollected(t)
    BY <1>1, <2>1, ObjectsTyped DEF RunCollected, PerTask, Gone
  <2>2. CASE RunEnds(t) \/ RunCancelled(t)
    <3>1. PICK s \in {"True", "False"} :
             run' = [run EXCEPT ![t].state = s] /\ run[t].state = "running"
      BY <2>2 DEF RunEnds, RunCancelled
    <3>2. [run[t] EXCEPT !.state = s] \in TaskRun
      BY <1>1 DEF PerTask, TaskRun
    <3> QED  BY <1>1, <3>1, <3>2 DEF PerTask
  <2> QED  BY <2>1, <2>2
<1>5. queue' \subseteq Task /\ runSeen' \in [Task -> TaskRun]
  BY <1>1, <1>2 DEF Others, PerTask
<1> QED  BY <1>2, <1>3, <1>4, <1>5, RunMoves

-----------------------------------------------------------------------------
(* Users, the App reconciler and the garbage collector *)

(* Terminating, deleting and collecting a Task.                             *)
LEMMA UserMoves ==
    ASSUME IInv, NEW t \in Task,
           \/ TerminateTask(t) \/ DeleteTask(t) \/ TaskCollected(t)
           \/ GDelete(t) /\ task[t].exists
    PROVE  Moves(t)
<1>1. Others /\ PerTask /\ TaskInv(t)
  BY TypesSplit DEF IInv
<1>2. task[t] \in TaskObject
  BY <1>1 DEF PerTask
<1>3. task[t].exists
  BY DEF TerminateTask, DeleteTask, TaskCollected
<1>4. ~(t > created)
  BY <1>3, Used
<1>5. /\ UNCHANGED <<runVars, pc, copy, queue, assigned, app, acopy, apc, created>>
      /\ gtodo' \subseteq Task /\ faults' \in 0..MaxFaults
      /\ changes' \in 0..MaxChanges
  <2>1. MaxChanges \in Nat
    BY TasksAssumption
  <2> QED
    BY <1>1, <1>3, <2>1
    DEF TerminateTask, DeleteTask, TaskCollected, GDelete, Others, Rest
<1>6. CASE TerminateTask(t)
  <2> DEFINE o == [task[t] EXCEPT !.terminated = TRUE]
  <2>1. o \in TaskObject /\ o.exists = task[t].exists /\ o.deleting = task[t].deleting
        /\ o.status = task[t].status
    BY <1>2 DEF TaskObject
  <2>2. StoreTask(t, o)
    BY <1>6 DEF TerminateTask
  <2> HIDE DEF o
  <2> QED  BY <1>4, <1>5, <2>1, <2>2, StoreMoves DEF Gone
<1>7. CASE DeleteTask(t)
  <2> DEFINE o == [task[t] EXCEPT !.deleting = TRUE]
  <2>1. o \in TaskObject /\ o.deleting /\ o.status = task[t].status
    BY <1>2 DEF TaskObject
  <2>2. StoreTask(t, o)
    BY <1>7 DEF DeleteTask
  <2> HIDE DEF o
  <2> QED  BY <1>4, <1>5, <2>1, <2>2, StoreMoves
<1>8. CASE TaskCollected(t) \/ GDelete(t)
  <2>1. StoreTask(t, NoTask)
    BY <1>3, <1>8 DEF TaskCollected, GDelete
  <2>2. ~NoTask.exists /\ NoTask.status.succeeded = "Unknown"
    BY DEF NoTask
  <2> QED  BY <1>4, <1>5, <2>1, <2>2, ObjectsTyped, StoreMoves
<1> QED  BY <1>6, <1>7, <1>8

(* A new Task is the next one, of which there was no trace.                 *)
LEMMA RunTaskKeeps ==
    ASSUME IInv, RunTask
    PROVE  IInv'
<1> DEFINE t == created + 1
<1> DEFINE o == [NoTask EXCEPT !.exists = TRUE]
<1>1. Others /\ PerTask
  BY TypesSplit DEF IInv
<1>2. MaxTasks \in Nat /\ created \in 0..MaxTasks /\ created < MaxTasks
  BY <1>1, TasksAssumption DEF Others, Rest, RunTask
<1>3. t \in Task /\ t > created
  BY <1>2 DEF Task
<1>4. TaskInv(t)
  BY <1>3 DEF IInv
<1>5. /\ task[t] = NoTask /\ taskCache[t] = NoTask /\ copy[t] = NoTask
      /\ taskWatch[t] = <<>> /\ pc[t] = "idle"
      /\ run[t] = NoRun /\ runSeen[t] = NoRun
  BY <1>3, <1>4 DEF TaskInv, Unused
<1>6. o \in TaskObject /\ o.exists /\ ~o.deleting /\ o.status.succeeded = "Unknown"
  BY DEF NoTask, TaskObject, TaskStatus, ConditionStatus
<1>7. NoTask.status.succeeded = "Unknown" /\ NoRun.state = "none"
  BY DEF NoTask, NoRun
<1>8. WriteTask(t, o) /\ stale' = stale /\ created' = t
      /\ UNCHANGED <<app, run, runSeen, queue, pc, copy, assigned, apc, acopy, gtodo,
                     changes, faults>>
  BY <1>5 DEF RunTask, StoreTask, runVars
<1> HIDE DEF o
<1>9. /\ task' \in [Task -> TaskObject] /\ taskWatch' \in [Task -> Pending]
      /\ taskCache' = taskCache
      /\ taskWatch[t] = <<>> /\ task'[t] = o /\ taskWatch'[t] = <<o>>
      /\ \A u \in Task \ {t} : task'[u] = task[u] /\ taskWatch'[u] = taskWatch[u]
  BY <1>1, <1>3, <1>6, <1>8, WriteShape
<1>10. Others' /\ PerTask'
  BY <1>1, <1>2, <1>8, <1>9 DEF Others, Rest, PerTask
<1>11. TypeOK' /\ (taskWatch \in [Task -> Pending])'
  <2>1. (TypeOK /\ taskWatch \in [Task -> Pending] <=> Others /\ PerTask)'
    BY TypesSplit, PTL
  <2> QED  BY <1>10, <2>1
<1>12. ASSUME NEW u \in Task PROVE TaskInv(u)'
  <2>1. CASE u = t
    <3>1. created' = u
      BY <1>8, <2>1
    <3>2. Delivered(u)' /\ Unused(u)'
      BY <1>2, <1>9, <2>1, <3>1 DEF Delivered, Unused, Task
    <3>3. Held(u)' /\ Ended(u)'
      BY <1>5, <1>6, <1>7, <1>8, <1>9, <2>1 DEF Held, Ended
    <3> QED  BY <3>2, <3>3 DEF TaskInv
  <2>2. CASE u # t
    <3>1. TaskInv(u) /\ (u > created' => u > created)
      BY <1>2, <1>8 DEF IInv, Task
    <3>2. /\ task'[u] = task[u] /\ taskWatch'[u] = taskWatch[u]
          /\ taskCache'[u] = taskCache[u]
      BY <1>9, <2>2
    <3> QED
      BY <1>8, <3>1, <3>2 DEF TaskInv, Delivered, Held, Ended, Unused, Gone, IsFinal
  <2> QED  BY <2>1, <2>2
<1> QED  BY <1>11, <1>12 DEF IInv

(* Neither the App reconciler nor the garbage collector's listing touches a *)
(* Task.                                                                    *)
LEMMA OthersKeep ==
    ASSUME IInv,
           \/ ABegin \/ AUpdateStatus \/ GBegin
           \/ \E t \in Task : GDelete(t) /\ ~task[t].exists
    PROVE  IInv'
<1>1. Others
  BY TypesSplit DEF IInv
<1>2. MaxAppWrites \in Nat /\ NoApp \in AppStatus
  BY TasksAssumption, ObjectsTyped
<1>3. CASE ABegin
  <2>1. [app EXCEPT !.other = app.other + 1] \in AppStatus
    BY <1>1, <1>2, <1>3 DEF Others, Rest, ABegin, AppStatus
  <2>2. Others'
    BY <1>1, <1>3, <2>1 DEF Others, Rest, ABegin, recVars
  <2> QED  BY <1>3, <2>2, IdleKeeps DEF ABegin, recVars
<1>4. CASE AUpdateStatus
  <2>1. faults' \in 0..MaxFaults
    BY <1>1, <1>4, FaultTyped DEF AUpdateStatus, Others, Rest
  <2>2. Others'
    BY <1>1, <1>2, <1>4, <2>1 DEF Others, Rest, AUpdateStatus, recVars
  <2> QED  BY <1>4, <2>2, IdleKeeps DEF AUpdateStatus, recVars
<1>5. CASE GBegin
  <2>1. gtodo' \subseteq Task
    BY <1>5 DEF GBegin, tasksToGC
  <2>2. Others'
    BY <1>1, <1>5, <2>1 DEF Others, Rest, GBegin, recVars
  <2> QED  BY <1>5, <2>2, IdleKeeps DEF GBegin, recVars
<1>6. CASE \E t \in Task : GDelete(t) /\ ~task[t].exists
  <2>1. /\ UNCHANGED <<taskVars, stale, app, runVars, queue, pc, copy, assigned, apc,
                       acopy, created, changes, faults>>
        /\ gtodo' = {}
    BY <1>6 DEF GDelete
  <2>2. Others'
    BY <1>1, <2>1 DEF Others, Rest
  <2> QED  BY <2>1, <2>2, IdleKeeps
<1> QED  BY <1>3, <1>4, <1>5, <1>6

-----------------------------------------------------------------------------
(* The Task reconciler *)

(* A run starts.                                                            *)
LEMMA StartMoves ==
    ASSUME IInv, NEW t \in Task, TNothing(t) \/ TTerminating(t) \/ TBegin(t)
    PROVE  Moves(t)
<1> DEFINE o == taskCache[t]
<1>1. Others /\ PerTask /\ faults \in 0..MaxFaults /\ MaxFaults \in Nat
  BY TypesSplit, TasksAssumption DEF IInv, Others, Rest
<1>2. o \in TaskObject
  BY <1>1 DEF PerTask
<1>3. /\ Failed(o) \in TaskObject /\ Failed(o).status.succeeded = "False"
  BY <1>2, OutcomeTyped DEF Failed, ConditionStatus
<1>4. o.exists => ~(t > created)
  BY Used
<1>5. TTakes(t) => faults' \in 0..MaxFaults
  BY <1>1 DEF TTakes
<1>6. NoTask.status.succeeded = "Unknown"
  BY DEF NoTask
<1> HIDE DEF o
<1>7. CASE TNothing(t)
  BY <1>5, <1>6, <1>7, ObjectsTyped, GoesMoves DEF TNothing
<1>8. CASE TTerminating(t)
  BY <1>3, <1>4, <1>5, <1>8, GoesMoves DEF TTerminating, o
<1>9. CASE TBegin(t)
  <2>1. o.exists /\ ~IsFinal(o)
    BY <1>9 DEF TBegin, o
  <2>2. CASE /\ TTakes(t)
             /\ TGoes(t, IF o.status.id = 0 THEN "id" ELSE "label", o)
    BY <1>2, <1>4, <1>5, <2>1, <2>2, GoesMoves DEF o
  <2>3. CASE Fault("missing") /\ TGoes(t, "failed", Failed(o))
    <3>1. faults' \in 0..MaxFaults
      BY <1>1, <2>3, FaultTyped
    <3> QED  BY <1>3, <1>4, <2>1, <2>3, <3>1, GoesMoves
  <2> QED  BY <1>9, <2>2, <2>3 DEF TBegin, o
<1> QED  BY <1>7, <1>8, <1>9

(* The ID is the App's next one; the copy gets it, nothing else changes.    *)
LEMMA AssignIDMoves ==
    ASSUME IInv, NEW t \in Task, TAssignID(t)
    PROVE  Moves(t)
<1>1. Others /\ PerTask /\ TaskInv(t) /\ pc[t] = "id" /\ ~(t > created)
  BY TypesSplit, Used DEF IInv, TAssignID
<1>2. /\ UNCHANGED <<taskVars, runVars, apc, acopy, gtodo, created, changes>>
      /\ UNCHANGED <<task, taskWatch, taskCache, run, runSeen>>
  BY DEF TAssignID, taskVars, runVars
<1>3. copy[t] \in TaskObject
  BY <1>1 DEF PerTask
<1>4. CASE /\ app' = [app EXCEPT !.tasks = @ + 1]
           /\ copy' = [copy EXCEPT ![t].status.id = app'.tasks]
           /\ pc' = [pc EXCEPT ![t] = "label"]
           /\ assigned' = assigned \union {t}
           /\ UNCHANGED <<queue, stale, faults>>
  <2>1. app' \in AppStatus /\ app'.tasks \in Nat
    BY <1>1, <1>4 DEF Others, Rest, AppStatus
  <2> DEFINE o == [copy[t] EXCEPT !.status.id = app'.tasks]
  <2>2. /\ o \in TaskObject /\ o.status.succeeded = copy[t].status.succeeded
        /\ o.exists = copy[t].exists /\ o.deleting = copy[t].deleting
    BY <1>3, <2>1, IDTyped
  <2>3. copy' = [copy EXCEPT ![t] = o]
    BY <1>1, <1>4 DEF PerTask
  <2> HIDE DEF o
  <2>4. Others'
    BY <1>1, <1>2, <1>4, <2>1 DEF Others, Rest
  <2>5. PerTask' /\ copy'[t] = o /\ pc'[t] = "label"
    BY <1>1, <1>2, <1>4, <2>2, <2>3 DEF PerTask
  <2>6. \A u \in Task \ {t} : Same(u)
    BY <1>1, <1>2, <1>4, <2>3 DEF Same, PerTask
  <2>7. Delivered(t)' /\ Unused(t)'
    BY <1>1, <1>2 DEF TaskInv, Delivered, Unused
  <2>8. Held(t)'
    BY <1>1, <1>2, <1>4, <2>2, <2>5 DEF TaskInv, Held, IsFinal
  <2>9. Ended(t)'
    BY <1>1, <1>2, <2>2, <2>5 DEF TaskInv, Ended, Gone
  <2> QED  BY <1>2, <2>4, <2>5, <2>6, <2>7, <2>8, <2>9 DEF Moves, TaskInv
<1>5. CASE /\ Fault("api") /\ TFinish(t, TRUE)
           /\ stale' = stale \ {t} /\ UNCHANGED app
  <2>1. faults' \in 0..MaxFaults
    BY <1>1, <1>5, FaultTyped DEF Others, Rest
  <2>2. Rest'
    BY <1>1, <1>2, <1>5, <2>1 DEF Others, Rest
  <2>3. run' \in [Task -> TaskRun]
    BY <1>1, <1>2 DEF PerTask
  <2>4. NoTask.status.succeeded = "Unknown"
    BY DEF NoTask
  <2> QED  BY <1>1, <1>2, <1>5, <2>2, <2>3, <2>4, ObjectsTyped, EndsMoves
<1> QED  BY <1>4, <1>5 DEF TAssignID

(* The run that stops early: its copy says no more than before.             *)
LEMMA StopsMoves ==
    ASSUME IInv, NEW t \in Task, TStops(t), pc[t] # "idle",
           UNCHANGED <<taskVars, runVars, created>>, Rest',
           \A u \in Task \ {t} : u \in stale' <=> u \in stale
    PROVE  Moves(t)
<1>1. PerTask /\ TaskInv(t)
  BY TypesSplit DEF IInv
<1>2. copy[t] \in TaskObject /\ run' \in [Task -> TaskRun] /\ run' = run
      /\ runSeen' = runSeen
  BY <1>1 DEF PerTask, runVars
<1>3. copy[t].status.succeeded = "True" => run'[t].state = "True" \/ Gone(t)
  BY <1>1, <1>2 DEF TaskInv, Ended
<1>4. TEnds(t, copy[t], TRUE)
  BY DEF TStops
<1> QED  BY <1>2, <1>3, <1>4, EndsMoves

(* The label: what is stored is the copy, which is the stored version, with *)
(* the status that is stored.                                               *)
LEMMA LabelMoves ==
    ASSUME IInv, NEW t \in Task, TLabel(t)
    PROVE  Moves(t)
<1>1. Others /\ PerTask /\ TaskInv(t) /\ pc[t] = "label" /\ ~(t > created)
  BY TypesSplit, Used DEF IInv, TLabel
<1>2. /\ stale' = stale \ {t}
      /\ UNCHANGED <<app, runVars, run, runSeen, apc, acopy, gtodo, created, changes>>
  BY DEF TLabel, runVars
<1>3. copy[t] \in TaskObject /\ task[t] \in TaskObject
      /\ task[t].status \in TaskStatus /\ copy[t].status.id \in Nat
  BY <1>1, TaskTyped DEF PerTask
<1>4. ASSUME t \notin stale, pc' = [pc EXCEPT ![t] = "taskrun"],
             UNCHANGED <<queue, copy, assigned, faults>>,
             PerTask', Delivered(t)', taskCache' = taskCache,
             \A u \in Task \ {t} : task'[u] = task[u] /\ taskWatch'[u] = taskWatch[u],
             task'[t].status = task[t].status, task'[t].exists = task[t].exists,
             task'[t].deleting = task[t].deleting
      PROVE  Moves(t)
  <2>1. Others'
    BY <1>1, <1>2, <1>4 DEF Others, Rest
  <2>2. \A u \in Task \ {t} : Same(u)
    BY <1>1, <1>2, <1>4 DEF Same, PerTask
  <2>3. pc'[t] = "taskrun"
    BY <1>1, <1>4 DEF PerTask
  <2>4. Held(t)' /\ Unused(t)'
    BY <1>1, <1>2, <1>4, <2>3 DEF TaskInv, Held, IsFinal, Unused
  <2>5. Ended(t)'
    BY <1>1, <1>2, <1>4 DEF TaskInv, Ended, Gone
  <2> QED  BY <1>2, <1>4, <2>1, <2>2, <2>4, <2>5 DEF Moves, TaskInv
<1>5. CASE /\ t \notin stale
           /\ WriteTask(t, [copy[t] EXCEPT !.label = copy[t].status.id,
                                           !.status = task[t].status])
           /\ pc' = [pc EXCEPT ![t] = "taskrun"]
           /\ UNCHANGED <<queue, copy, assigned, faults>>
  <2> DEFINE o == [copy[t] EXCEPT !.label = copy[t].status.id,
                                  !.status = task[t].status]
  <2>1. /\ o \in TaskObject /\ o.status = task[t].status
        /\ o.exists = copy[t].exists /\ o.deleting = copy[t].deleting
    BY <1>3 DEF TaskObject
  <2>2. WriteTask(t, o)
    BY <1>5
  <2> HIDE DEF o
  <2>3. /\ task' \in [Task -> TaskObject] /\ taskWatch' \in [Task -> Pending]
        /\ taskCache' = taskCache
        /\ task'[t] = o /\ taskWatch'[t] = <<o>>
        /\ \A u \in Task \ {t} : task'[u] = task[u] /\ taskWatch'[u] = taskWatch[u]
    BY <1>1, <2>1, <2>2, WriteShape
  <2>4. PerTask'
    BY <1>1, <1>2, <1>5, <2>3 DEF PerTask
  <2>5. copy[t].exists = task[t].exists /\ copy[t].deleting = task[t].deleting
    BY <1>1, <1>5 DEF TaskInv, Held
  <2>6. Delivered(t)'
    BY <2>3 DEF Delivered
  <2> QED  BY <1>4, <1>5, <2>1, <2>3, <2>4, <2>5, <2>6
<1>6. CASE /\ t \notin stale
           /\ pc' = [pc EXCEPT ![t] = "taskrun"]
           /\ UNCHANGED <<taskVars, queue, copy, assigned, faults>>
  <2>1. UNCHANGED <<task, taskWatch, taskCache>>
    BY <1>6 DEF taskVars
  <2>2. PerTask' /\ Delivered(t)'
    BY <1>1, <1>2, <1>6, <2>1 DEF PerTask, TaskInv, Delivered
  <2> QED  BY <1>4, <1>6, <2>1, <2>2
<1>7. CASE /\ \/ t \in stale /\ UNCHANGED faults
              \/ Fault("api")
           /\ TStops(t)
           /\ UNCHANGED taskVars
  <2>1. faults' \in 0..MaxFaults
    BY <1>1, <1>7, FaultTyped DEF Others, Rest
  <2>2. Rest'
    BY <1>1, <1>2, <2>1 DEF Others, Rest
  <2> QED  BY <1>1, <1>2, <1>7, <2>2, StopsMoves
<1> QED  BY <1>5, <1>6, <1>7 DEF TLabel

(* The image cannot be read: the Task fails.                                *)
LEMMA RegistryMoves ==
    ASSUME IInv, NEW t \in Task, TRegistryFails(t)
    PROVE  Moves(t)
<1>1. Others /\ PerTask /\ pc[t] = "taskrun" /\ TEnds(t, Failed(copy[t]), TRUE)
  BY TypesSplit DEF IInv, TRegistryFails
<1>2. UNCHANGED <<taskVars, app, run, runSeen, stale, apc, acopy, gtodo, created, changes>>
  BY DEF TRegistryFails, runVars
<1>3. Failed(copy[t]) \in TaskObject /\ Failed(copy[t]).status.succeeded = "False"
  BY <1>1, OutcomeTyped DEF PerTask, Failed, ConditionStatus
<1>4. faults' \in 0..MaxFaults
  BY <1>1, FaultTyped DEF TRegistryFails, Others, Rest
<1>5. Rest' /\ run' \in [Task -> TaskRun]
  BY <1>1, <1>2, <1>4 DEF Others, Rest, PerTask
<1> QED  BY <1>1, <1>2, <1>3, <1>5, EndsMoves

(* The TaskRun is created, or the run stops.                                *)
LEMMA CreateRunMoves ==
    ASSUME IInv, NEW t \in Task, TCreateRun(t)
    PROVE  Moves(t)
<1>1. Others /\ PerTask /\ TaskInv(t) /\ pc[t] = "taskrun"
  BY TypesSplit DEF IInv, TCreateRun
<1>2. UNCHANGED <<taskVars, app, runSeen, stale, apc, acopy, gtodo, created, changes>>
  BY DEF TCreateRun
<1>3. copy[t] \in TaskObject
  BY <1>1 DEF PerTask
<1>4. CASE /\ run[t].state = "none"
           /\ run' = [run EXCEPT ![t] = MakeTaskRun(t)]
           /\ TEnds(t, copy[t], FALSE)
           /\ UNCHANGED faults
  <2>1. /\ run' \in [Task -> TaskRun] /\ run'[t].state = "running"
        /\ \A u \in Task \ {t} : run'[u] = run[u]
    BY <1>1, <1>4, RunTyped DEF PerTask
  <2>2. copy[t].status.succeeded = "True" => Gone(t)
    BY <1>1, <1>4 DEF TaskInv, Ended
  <2>3. Rest'
    BY <1>1, <1>2, <1>4 DEF Others, Rest
  <2> QED  BY <1>1, <1>2, <1>3, <1>4, <2>1, <2>2, <2>3, EndsMoves
<1>5. CASE /\ \/ run[t].state # "none" /\ UNCHANGED faults
              \/ Fault("api")
           /\ TStops(t)
           /\ UNCHANGED run
  <2>1. faults' \in 0..MaxFaults
    BY <1>1, <1>5, FaultTyped DEF Others, Rest
  <2>2. Rest'
    BY <1>1, <1>2, <2>1 DEF Others, Rest
  <2>3. UNCHANGED runVars
    BY <1>2, <1>5 DEF runVars
  <2> QED  BY <1>1, <1>2, <1>5, <2>2, <2>3, StopsMoves
<1> QED  BY <1>4, <1>5 DEF TCreateRun

(* The TaskRun is brought up to date, and what the lister shows is          *)
(* reported: a success that the lister shows is one that happened.          *)
LEMMA SyncRunMoves ==
    ASSUME IInv, NEW t \in Task, TSyncRun(t)
    PROVE  Moves(t)
<1> DEFINE o == WithRun(t, runSeen[t].state)
<1>1. Others /\ PerTask /\ TaskInv(t) /\ pc[t] = "taskrun"
      /\ runSeen[t].state # "none"
  BY TypesSplit DEF IInv, TSyncRun
<1>2. UNCHANGED <<taskVars, app, runSeen, stale, apc, acopy, gtodo, created, changes>>
  BY DEF TSyncRun
<1>3. copy[t] \in TaskObject /\ run[t] \in TaskRun /\ runSeen[t] \in TaskRun
  BY <1>1 DEF PerTask
<1>4. o \in TaskObject /\ (o.status.succeeded = "True" => runSeen[t].state = "True")
  <2>1. /\ PropagateTaskStatus(runSeen[t].state) \in ConditionStatus
        /\ PropagateTaskStatus(runSeen[t].state) = "True" => runSeen[t].state = "True"
    BY <1>1, <1>3 DEF PropagateTaskStatus, TaskRun, ConditionStatus
  <2> QED  BY <1>3, <2>1, OutcomeTyped DEF WithRun
<1>5. runSeen[t].state = "True" => run[t].state = "True" \/ Gone(t)
  BY <1>1 DEF TaskInv, Ended
<1> HIDE DEF o
<1>6. CASE UpToDate(t) /\ TEnds(t, o, FALSE) /\ UNCHANGED <<run, faults>>
  <2>1. Rest' /\ run' \in [Task -> TaskRun]
    BY <1>1, <1>2, <1>6 DEF Others, Rest, PerTask
  <2> QED  BY <1>1, <1>2, <1>4, <1>5, <1>6, <2>1, EndsMoves
<1>7. CASE /\ run[t] = runSeen[t]
           /\ run' = [run EXCEPT ![t] = [MakeTaskRun(t) EXCEPT !.state = run[t].state]]
           /\ TEnds(t, o, FALSE)
           /\ UNCHANGED faults
  <2> DEFINE r == [MakeTaskRun(t) EXCEPT !.state = run[t].state]
  <2>1. r \in TaskRun /\ r.state = run[t].state
    <3>1. run[t].state \in {"none", "running", "True", "False"}
      BY <1>3 DEF TaskRun
    <3> QED  BY <1>1, <3>1, RunTyped DEF PerTask
  <2>2. run' = [run EXCEPT ![t] = r]
    BY <1>7
  <2> HIDE DEF r
  <2>3. /\ run' \in [Task -> TaskRun] /\ run'[t].state = run[t].state
        /\ \A u \in Task \ {t} : run'[u] = run[u]
    BY <1>1, <2>1, <2>2 DEF PerTask
  <2>4. Rest'
    BY <1>1, <1>2, <1>7 DEF Others, Rest
  <2> QED  BY <1>1, <1>2, <1>4, <1>5, <1>7, <2>3, <2>4, EndsMoves
<1>8. ASSUME NEW err \in {"conflict", "api"},
             IF err = "conflict" THEN run[t] # runSeen[t] /\ UNCHANGED faults
                                 ELSE Fault("sync"),
             TEnds(t, [copy[t] EXCEPT !.status.succeeded =
                                          MarkReconciliationError(err)], TRUE),
             UNCHANGED run
      PROVE  Moves(t)
  <2> DEFINE p == [copy[t] EXCEPT !.status.succeeded = MarkReconciliationError(err)]
  <2>1. p \in TaskObject /\ p.status.succeeded # "True"
    <3>1. MarkReconciliationError(err) \in ConditionStatus \ {"True"}
      BY DEF MarkReconciliationError, ConditionStatus
    <3> QED  BY <1>3, <3>1, OutcomeTyped
  <2>2. TEnds(t, p, TRUE)
    BY <1>8
  <2> HIDE DEF p
  <2>3. faults' \in 0..MaxFaults
    BY <1>1, <1>8, FaultTyped DEF Others, Rest
  <2>4. Rest' /\ run' \in [Task -> TaskRun]
    BY <1>1, <1>2, <1>8, <2>3 DEF Others, Rest, PerTask
  <2> QED  BY <1>1, <1>2, <1>8, <2>1, <2>2, <2>4, EndsMoves
<1> QED  BY <1>6, <1>7, <1>8 DEF TSyncRun, o

(* The status is stored into the version that the lister has, which is the  *)
(* stored one, or the run ends without it.                                  *)
LEMMA UpdateStatusMoves ==
    ASSUME IInv, NEW t \in Task, TUpdateStatus(t)
    PROVE  Moves(t)
<1> DEFINE o == [taskCache[t] EXCEPT !.status = copy[t].status]
<1>1. Others /\ PerTask /\ TaskInv(t) /\ pc[t] \in {"update", "failed"}
      /\ ~(t > created)
  BY TypesSplit, Used DEF IInv, TUpdateStatus
<1>2. UNCHANGED <<app, runVars, run, runSeen, stale, apc, acopy, gtodo, created, changes>>
  BY DEF TUpdateStatus, runVars
<1>3. copy[t] \in TaskObject /\ taskCache[t] \in TaskObject
      /\ copy[t].status \in TaskStatus
  BY <1>1, TaskTyped DEF PerTask
<1>4. o \in TaskObject /\ o.status = copy[t].status
      /\ o.exists = taskCache[t].exists /\ o.deleting = taskCache[t].deleting
  BY <1>3, StatusSet
<1> HIDE DEF o
<1>5. NoTask \in TaskObject /\ NoTask.status.succeeded = "Unknown"
  BY ObjectsTyped DEF NoTask
<1>6. faults' \in 0..MaxFaults
  <2>1. faults \in 0..MaxFaults /\ MaxFaults \in Nat
    BY <1>1, TasksAssumption DEF Others, Rest
  <2>2. \/ UNCHANGED faults
        \/ faults < MaxFaults /\ faults' = faults + 1
    BY DEF TUpdateStatus, Fault
  <2> QED  BY <2>1, <2>2
<1>7. Rest'
  BY <1>1, <1>2, <1>6 DEF Others, Rest
<1>8. ASSUME NEW failed \in BOOLEAN, TFinish(t, failed), UNCHANGED taskVars
      PROVE  Moves(t)
  <2>1. run' \in [Task -> TaskRun]
    BY <1>1, <1>2 DEF PerTask
  <2> QED  BY <1>1, <1>2, <1>5, <1>7, <1>8, <2>1, EndsMoves
<1>9. CASE /\ WriteTask(t, o)
           /\ TFinish(t, pc[t] = "failed")
  <2>1. /\ task' \in [Task -> TaskObject] /\ taskWatch' \in [Task -> Pending]
        /\ taskCache' = taskCache
        /\ taskWatch[t] = <<>> /\ task'[t] = o /\ taskWatch'[t] = <<o>>
        /\ \A u \in Task \ {t} : task'[u] = task[u] /\ taskWatch'[u] = taskWatch[u]
    BY <1>1, <1>4, <1>9, WriteShape
  <2>2. taskCache[t] = task[t]
    BY <2>1, ListerCurrent
  <2>3. /\ {queue', assigned'} \subseteq SUBSET Task
        /\ pc' \in [Task -> {"idle", "id", "label", "taskrun", "update", "failed"}]
        /\ copy' \in [Task -> TaskObject]
        /\ \A u \in Task \ {t} : pc'[u] = pc[u] /\ copy'[u] = copy[u]
        /\ pc'[t] = "idle" /\ copy'[t] = NoTask
    BY <1>1, <1>5, <1>9 DEF TFinish, Others, PerTask
  <2>4. Others' /\ PerTask'
    BY <1>1, <1>2, <1>7, <2>1, <2>3 DEF Others, PerTask
  <2>5. \A u \in Task \ {t} : Same(u)
    BY <1>2, <2>1, <2>3 DEF Same
  <2>6. Delivered(t)' /\ Held(t)' /\ Unused(t)'
    BY <1>1, <1>2, <2>1, <2>3 DEF Delivered, Held, Unused
  <2>7. Ended(t)'
    BY <1>1, <1>2, <1>4, <1>5, <2>1, <2>2, <2>3 DEF TaskInv, Ended, Gone
  <2> QED  BY <1>2, <2>4, <2>5, <2>6, <2>7 DEF Moves, TaskInv
<1> QED  BY <1>8, <1>9 DEF TUpdateStatus, o

-----------------------------------------------------------------------------
(* The theorems *)

(* Nothing has happened at the start.                                       *)
LEMMA IInvInit == Init => IInv
<1> SUFFICES ASSUME Init PROVE IInv
  OBVIOUS
<1>1. /\ {MaxTasks, MaxChanges, MaxAppWrites, MaxFaults} \subseteq Nat
      /\ NoTask \in TaskObject /\ NoRun \in TaskRun /\ NoApp \in AppStatus
      /\ <<>> \in Pending
  BY TasksAssumption, ObjectsTyped DEF Pending
<1>2. Others
  BY <1>1 DEF Init, Others, Rest
<1>3. PerTask
  BY <1>1 DEF Init, PerTask
<1>4. ASSUME NEW t \in Task PROVE TaskInv(t)
  <2>1. /\ task[t] = NoTask /\ taskCache[t] = NoTask /\ copy[t] = NoTask
        /\ taskWatch[t] = <<>> /\ pc[t] = "idle"
        /\ run[t] = NoRun /\ runSeen[t] = NoRun
    BY DEF Init
  <2>2. NoTask.status.succeeded = "Unknown" /\ NoRun.state = "none"
    BY DEF NoTask, NoRun
  <2> QED  BY <2>1, <2>2 DEF TaskInv, Delivered, Held, Ended, Unused
<1> QED  BY <1>2, <1>3, <1>4, TypesSplit DEF IInv

(* Every step keeps the invariant.                                          *)
LEMMA IInvStep == IInv /\ [Next]_vars => IInv'
<1> SUFFICES ASSUME IInv, [Next]_vars PROVE IInv'
  OBVIOUS
<1>1. CASE RunTask
  BY <1>1, RunTaskKeeps
<1>2. CASE \/ ABegin \/ AUpdateStatus \/ GBegin
           \/ \E t \in Task : GDelete(t) /\ ~task[t].exists
  BY <1>2, OthersKeep
<1>3. ASSUME NEW t \in Task,
             \/ TaskReconciler(t) \/ Cluster(t) \/ User(t)
             \/ RunEnds(t) \/ RunCancelled(t) \/ (GDelete(t) /\ task[t].exists)
      PROVE  IInv'
  <2>1. CASE Cluster(t) \/ RunEnds(t) \/ RunCancelled(t)
    BY <2>1, DeliverTaskMoves, DeliverRunMoves, TektonMoves, UserMoves, MovesKeep
    DEF Cluster
  <2>2. CASE User(t) \/ (GDelete(t) /\ task[t].exists)
    BY <2>2, UserMoves, MovesKeep DEF User
  <2>3. CASE TaskReconciler(t)
    BY <2>3, StartMoves, AssignIDMoves, LabelMoves, RegistryMoves, CreateRunMoves,
       SyncRunMoves, UpdateStatusMoves, MovesKeep
    DEF TaskReconciler
  <2> QED  BY <1>3, <2>1, <2>2, <2>3
<1>4. CASE UNCHANGED vars
  <2>1. Others'
    BY <1>4, TypesSplit DEF IInv, Others, Rest, vars, recVars
  <2> QED  BY <1>4, <2>1, IdleKeeps DEF vars, recVars
<1>5. ASSUME NEW t \in Task, GDelete(t) PROVE IInv'
  <2>1. CASE task[t].exists
    BY <1>3, <1>5, <2>1
  <2>2. CASE ~task[t].exists
    BY <1>2, <1>5, <2>2
  <2> QED  BY <2>1, <2>2
<1> QED  BY <1>1, <1>2, <1>3, <1>4, <1>5 DEF Next

(* The invariant holds in every reachable state.                            *)
LEMMA Inductive == Spec => []IInv
BY IInvInit, IInvStep, PTL DEF Spec

(* The variables keep their types, for every number of Tasks.               *)
THEOREM TypeCorrect == Spec => []TypeOK
<1>1. IInv => TypeOK
  BY DEF IInv
<1> QED  BY <1>1, Inductive, PTL

(* A Task that reports success, and is not being deleted, has a TaskRun     *)
(* that succeeded, however far the listers are behind and whatever fails.   *)
THEOREM SucceededIsRealHolds == Spec => []SucceededIsReal
<1>1. IInv => SucceededIsReal
  BY DEF IInv, TaskInv, Ended, Gone, SucceededIsReal
<1> QED  BY <1>1, Inductive, PTL

(* No step starts a TaskRun for a Task that is stored as finished.          *)
THEOREM StartsOnceHolds == Spec => StartsOnce
<1>1. ASSUME IInv, [Next]_vars, NEW t \in Task,
             run[t].state = "none", run'[t].state # "none"
      PROVE  ~IsFinal(task[t])
  <2>1. run' # run
    BY <1>1
  <2>2. run \in [Task -> TaskRun] /\ NoRun.state = "none"
    BY <1>1 DEF IInv, TypeOK, NoRun
  <2>3. PICK u \in Task : \/ RunEnds(u) \/ RunCancelled(u) \/ RunCollected(u)
                          \/ TCreateRun(u) \/ TSyncRun(u)
    BY <1>1, <2>1
    DEF Next, vars, runVars, TaskReconciler, Cluster, User, RunTask, ABegin,
        AUpdateStatus, GBegin, GDelete, DeliverTask, DeliverRun, TaskCollected,
        TerminateTask, DeleteTask, TNothing, TTerminating, TBegin, TGoes, TAssignID,
        TLabel, TRegistryFails, TUpdateStatus
  <2>4. CASE t # u
    BY <1>1, <2>2, <2>3, <2>4
    DEF RunEnds, RunCancelled, RunCollected, TCreateRun, TSyncRun
  <2>5. CASE t = u
    <3>1. ~(RunEnds(u) \/ RunCancelled(u) \/ RunCollected(u))
      BY <1>1, <2>5 DEF RunEnds, RunCancelled, RunCollected
    <3>2. pc[t] = "taskrun"
      BY <2>3, <2>5, <3>1 DEF TCreateRun, TSyncRun
    <3> QED  BY <1>1, <3>2 DEF IInv, TaskInv, Held
  <2> QED  BY <2>4, <2>5
<1>2. IInv /\ [Next]_vars =>
         [\A t \in Task : run[t].state = "none" /\ run'[t].state # "none" =>
             ~IsFinal(task[t])]_vars
  BY <1>1
<1> QED  BY <1>2, Inductive, PTL DEF Spec, StartsOnce
==============================================================================
