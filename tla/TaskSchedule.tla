---------------------------- MODULE TaskSchedule ----------------------------
(***************************************************************************)
(* The reconciler of one TaskSchedule: every ten seconds it looks whether  *)
(* a scheduled time has come and creates a Task for it, as the             *)
(* concurrency policy allows.  What it knows of the past is in the         *)
(* TaskSchedule's status, which it writes after the Task; the name of the  *)
(* Task, made from the scheduled time, is the lock against a second one.   *)
(*                                                                         *)
(* Time is in minutes.  A Task is identified by its scheduled time.        *)
(***************************************************************************)
EXTENDS Naturals, Sequences

CONSTANTS
    Scheduled,      \* the times of the cron schedule
    MaxTime,        \* bound: how far the clock goes
    MaxChanges,     \* bound: changes users make
    MaxFaults,      \* bound: failed calls, and informers that are too slow
    Disturbances    \* {"api", "gc", "space", "schedule"}: calls fail, Tasks
                    \* listed as active are collected, the Space is not
                    \* listed, the schedule does not parse

\* The schedule goes on after the bound.
ASSUME ScheduleAssumption ==
    /\ Scheduled \subseteq Nat \ {0} /\ {MaxTime, MaxChanges, MaxFaults} \subseteq Nat
    /\ \E s, u \in Scheduled : MaxTime < s /\ s < u
    /\ Disturbances \subseteq {"api", "gc", "space", "schedule"}

VARIABLES
    now,                    \* the clock
    overlap,                \* history: a Task ran when, or after, the most
                            \* recent scheduled time came, not that time's own
    policy,                 \* spec.concurrencyPolicy
    ts, tsWatch, tsCache,   \* the TaskSchedule object
    task, taskSeen,         \* the Tasks, as stored and as listed
    terminated,             \* Tasks with spec.terminated
    pc, copy, changed,      \* the run: its step, its copy of the object, the
    next, todo,             \* copy's status differs from the one it began
                            \* with, the scheduled time, Tasks to terminate
    changes, faults         \* what happened so far

tsVars   == <<ts, tsWatch, tsCache>>
taskVars == <<task, taskSeen, terminated>>
recVars  == <<pc, copy, changed, next, todo>>
vars     == <<now, overlap, policy, tsVars, taskVars, recVars, changes, faults>>

Time == 0..MaxTime

\* last is LastScheduleTime, or the time of creation, 0, before the first.
\* The conditions are left out: nothing is decided by them.
Object == [exists: BOOLEAN, suspend: BOOLEAN, active: SUBSET Time, last: Time]
TaskState == {"none", "running", "finished", "gone"}

Existing(s) == s \in {"running", "finished"}

NewSchedule == [exists |-> TRUE, suspend |-> FALSE, active |-> {}, last |-> 0]

-----------------------------------------------------------------------------
(* The API server, the informers, the clock and the Tasks. *)

Store(o) ==
    /\ tsWatch = <<>>
    /\ ts' = o
    /\ tsWatch' = <<o>>
    /\ UNCHANGED tsCache

Fault(kind) ==
    /\ kind \in Disturbances
    /\ faults < MaxFaults /\ faults' = faults + 1

Deliver ==
    /\ tsWatch # <<>>
    /\ tsCache' = Head(tsWatch)
    /\ tsWatch' = <<>>
    /\ UNCHANGED <<now, overlap, policy, ts, taskVars, recVars, changes, faults>>

DeliverTask(k) ==
    /\ taskSeen[k] # task[k]
    /\ taskSeen' = [taskSeen EXCEPT ![k] = task[k]]
    /\ UNCHANGED <<now, overlap, policy, tsVars, task, terminated, recVars, changes, faults>>

Tick ==
    /\ now < MaxTime
    /\ now' = now + 1
    /\ overlap' = IF now' \in Scheduled THEN \E k \in Time : task[k] = "running"
                                       ELSE overlap
    /\ UNCHANGED <<policy, tsVars, taskVars, recVars, changes, faults>>

\* The Task ends, because it is done or was terminated.
TaskEnds(k) ==
    /\ task[k] = "running"
    /\ task' = [task EXCEPT ![k] = "finished"]
    /\ UNCHANGED <<now, overlap, policy, tsVars, taskSeen, terminated, recVars, changes, faults>>

\* The garbage collector deletes a finished Task.  It does not look at the
\* active lists; one that is still in any is deleted only with "gc".
TaskCollected(k) ==
    /\ task[k] = "finished"
    /\ \/ k \notin ts.active \union tsCache.active \union copy.active
       \/ "gc" \in Disturbances
    /\ task' = [task EXCEPT ![k] = "gone"]
    /\ UNCHANGED <<now, overlap, policy, tsVars, taskSeen, terminated, recVars, changes, faults>>

\* Suspending or resuming (schedule-job, delete-job-schedule), delete-job.
Suspend ==
    /\ changes < MaxChanges /\ ts.exists
    /\ Store([ts EXCEPT !.suspend = ~@])
    /\ changes' = changes + 1
    /\ UNCHANGED <<now, overlap, policy, taskVars, recVars, faults>>

Delete ==
    /\ changes < MaxChanges /\ ts.exists
    /\ Store([ts EXCEPT !.exists = FALSE])
    /\ changes' = changes + 1
    /\ UNCHANGED <<now, overlap, policy, taskVars, recVars, faults>>

-----------------------------------------------------------------------------
(* The reconciler. *)

\* External (cron): the first scheduled time after t.
Next1(t) == CHOOSE s \in Scheduled : s > t /\ \A u \in Scheduled : u > t => s <= u

\* Mutant: the time after the missed ones.
getNextScheduleTimeLate(last, at) ==
    LET t1 == Next1(last)
        t2 == Next1(t1)
    IN  CASE at < t1 -> 0
          [] t1 <= at /\ at < t2 -> t1
          [] OTHER -> t1 + ((at - t1) \div (t2 - t1) + 1) * (t2 - t1)

\* Mutant: after several missed times, the present one.
getNextScheduleTimeNow(last, at) ==
    LET t1 == Next1(last)
        t2 == Next1(t1)
    IN  CASE at < t1 -> 0
          [] t1 <= at /\ at < t2 -> t1
          [] OTHER -> at

\* The most recent scheduled time that was missed, computed from the distance
\* of the next two; 0 if there is none.
getNextScheduleTime(last, at) ==
    LET t1 == Next1(last)
        t2 == Next1(t1)
    IN  CASE at < t1 -> 0
          [] t1 <= at /\ at < t2 -> t1
          [] OTHER -> t1 + ((at - t1) \div (t2 - t1)) * (t2 - t1)

\* Mutant: a Task that is not listed counts as finished.
FinishedUnlessListed(k) == taskSeen[k] # "running"

\* isTaskFinished, of a listed child.
Finished(k) == taskSeen[k] = "finished"

\* The most recent time of the schedule.
Latest == CHOOSE s \in {0} \union Scheduled :
            s <= now /\ \A u \in Scheduled : u <= now => u <= s

Finish ==
    /\ pc' = "idle" /\ copy' = NewSchedule /\ changed' = FALSE
    /\ next' = 0 /\ todo' = {}

\* Mutant: the time counts as scheduled although its Task was not created.
StopRecorded ==
    /\ pc' = "update" /\ changed' = TRUE
    /\ copy' = [copy EXCEPT !.last = next]
    /\ UNCHANGED <<next, todo>>

\* Nothing is written if the status is the one the run began with.
Stop ==
    IF changed THEN pc' = "update" /\ UNCHANGED <<copy, changed, next, todo>>
               ELSE Finish

\* A Task may be created at all.
Allowed(o) == policy = "Forbid" => o.active = {}

\* The copy is read, finished Tasks leave its active list, and the next time
\* and what the policy makes of it are worked out.  A run that starts from an
\* outdated copy is one of the bounded faults.
Begin ==
    LET active == {k \in tsCache.active : ~Finished(k)}
        o      == [tsCache EXCEPT !.active = active]
        t      == IF o.suspend THEN 0 ELSE getNextScheduleTime(o.last, now)
    IN  /\ pc = "idle" /\ tsCache.exists
        /\ \/ tsWatch = <<>> /\ UNCHANGED faults
           \/ tsWatch # <<>> /\ faults < MaxFaults /\ faults' = faults + 1
        /\ \/ /\ t # 0 /\ Allowed(o)
              /\ pc' = IF policy = "Replace" /\ active # {}
                         THEN "terminate" ELSE "create"
              /\ copy' = o /\ changed' = (o # tsCache) /\ next' = t
              /\ todo' = IF policy = "Replace" THEN active ELSE {}
           \/ /\ ~(t # 0 /\ Allowed(o)) /\ o # tsCache
              /\ pc' = "update" /\ copy' = o /\ changed' = TRUE
              /\ UNCHANGED <<next, todo>>
        /\ UNCHANGED <<now, overlap, policy, tsVars, taskVars, changes>>

\* Early exits: without the Space nothing is looked at, without a schedule that
\* parses the active list is pruned, and in both cases no Task is created.
BeginFails ==
    /\ pc = "idle" /\ tsCache.exists
    /\ \/ Fault("space") /\ copy' = tsCache
       \/ /\ Fault("schedule") /\ ~tsCache.suspend
          /\ copy' = [tsCache EXCEPT !.active = {k \in @ : ~Finished(k)}]
    /\ pc' = "update" /\ changed' = TRUE
    /\ UNCHANGED <<now, overlap, policy, tsVars, taskVars, next, todo, changes>>

\* A TaskSchedule that is gone is not returned on: the run works on a nil
\* object and panics, which ends the controller process.
Panic ==
    /\ pc = "idle" /\ ~tsCache.exists /\ tsWatch = <<>>
    /\ pc' = "panic"
    /\ UNCHANGED <<now, overlap, policy, tsVars, taskVars, copy, changed, next, todo, changes, faults>>

\* Patch each active Task; one that is gone, or a failure, ends the run.
Terminate(k) ==
    /\ pc = "terminate" /\ k \in todo
    /\ \/ /\ Existing(task[k])
          /\ terminated' = terminated \union {k}
          /\ todo' = todo \ {k}
          /\ pc' = IF todo = {k} THEN "create" ELSE "terminate"
          /\ UNCHANGED <<copy, changed, next, faults>>
       \/ /\ \/ ~Existing(task[k]) /\ UNCHANGED faults
             \/ Fault("api")
          /\ Stop
          /\ UNCHANGED terminated
    /\ UNCHANGED <<now, overlap, policy, tsVars, task, taskSeen, changes>>

\* A Task that is listed, or turns out to exist, changes nothing.
Create ==
    /\ pc = "create"
    /\ \/ /\ ~Existing(taskSeen[next]) /\ ~Existing(task[next])
          /\ task' = [task EXCEPT ![next] = "running"]
          /\ copy' = [copy EXCEPT !.last = next, !.active = @ \union {next}]
          /\ changed' = TRUE
          /\ overlap' = IF next # Latest THEN TRUE ELSE overlap
          /\ pc' = "update"
          /\ UNCHANGED <<next, todo, faults>>
       \/ /\ \/ Existing(taskSeen[next]) /\ UNCHANGED faults
             \/ ~Existing(taskSeen[next]) /\ Existing(task[next]) /\ UNCHANGED faults
             \/ ~Existing(taskSeen[next]) /\ Fault("api")
          /\ Stop
          /\ UNCHANGED <<task, overlap>>
    /\ UNCHANGED <<now, policy, tsVars, taskSeen, terminated, changes>>

\* updateStatus, into the version the lister has now.  A lister that is
\* behind makes it fail, and so does an object that is gone.
UpdateStatus ==
    LET updated == [tsCache EXCEPT !.active = copy.active, !.last = copy.last]
    IN  /\ pc = "update"
        /\ \/ /\ ~tsCache.exists \/ updated = tsCache
              /\ UNCHANGED <<tsVars, faults>>
           \/ /\ tsCache.exists /\ updated # tsCache
              /\ Store(updated)
              /\ UNCHANGED faults
           \/ /\ tsCache.exists /\ updated # tsCache
              /\ \/ tsWatch # <<>> /\ faults < MaxFaults /\ faults' = faults + 1
                 \/ Fault("api")
              /\ UNCHANGED tsVars
        /\ Finish
        /\ UNCHANGED <<now, overlap, policy, taskVars, changes>>

-----------------------------------------------------------------------------
Init ==
    /\ now = 0 /\ overlap = FALSE
    /\ policy \in {"Always", "Forbid", "Replace"}
    /\ ts = NewSchedule /\ tsCache = NewSchedule /\ tsWatch = <<>>
    /\ task = [k \in Time |-> "none"] /\ taskSeen = task
    /\ terminated = {}
    /\ pc = "idle" /\ copy = NewSchedule /\ changed = FALSE
    /\ next = 0 /\ todo = {}
    /\ changes = 0 /\ faults = 0

Reconciler ==
    Begin \/ BeginFails \/ Panic \/ (\E k \in Time : Terminate(k)) \/ Create \/ UpdateStatus

Next ==
    \/ Reconciler \/ Deliver \/ Tick \/ Suspend \/ Delete
    \/ \E k \in Time : DeliverTask(k) \/ TaskEnds(k) \/ TaskCollected(k)

Spec == Init /\ [][Next]_vars

\* The resync enqueues the TaskSchedule every ten seconds; the informers
\* deliver.  The clock need not go on, and no Task need end.
Fairness ==
    /\ WF_vars(Reconciler) /\ WF_vars(Deliver)
    /\ \A k \in Time : WF_vars(DeliverTask(k))

FairSpec == Spec /\ Fairness

-----------------------------------------------------------------------------
(* Properties. *)

(* Every variable keeps the shape of the Go value it stands for.             *)
TypeOK ==
    /\ now \in Time /\ policy \in {"Always", "Forbid", "Replace"}
    /\ overlap \in BOOLEAN
    /\ ts \in Object /\ tsCache \in Object /\ copy \in Object
    /\ tsWatch \in Seq(Object) /\ Len(tsWatch) <= 1
    /\ task \in [Time -> TaskState] /\ taskSeen \in [Time -> TaskState]
    /\ terminated \subseteq Time /\ next \in Time /\ todo \subseteq Time
    /\ pc \in {"idle", "panic", "terminate", "create", "update"}
    /\ changed \in BOOLEAN
    /\ changes \in 0..MaxChanges /\ faults \in 0..MaxFaults

(* Tasks are created for times of the schedule only, once they have come,    *)
(* however many runs were missed before.                                     *)
OnlyScheduledTimes ==
    \A k \in Time : task[k] # "none" => k \in Scheduled /\ k <= now

(* As long as no call failed and no run began with an outdated copy, Forbid  *)
(* never lets two Tasks run, and Replace leaves at most one running that it  *)
(* has not terminated, although both go by the active list of the status,    *)
(* which is written after the Task and pruned by what the lister shows.      *)
RespectsPolicy ==
    faults = 0 =>
        \A j, k \in Time :
            task[j] = "running" /\ task[k] = "running" /\ j # k =>
                CASE policy = "Always"  -> TRUE
                  [] policy = "Forbid"  -> FALSE
                  [] policy = "Replace" -> {j, k} \cap terminated # {}

(* A scheduled time is not lost: the Task of the most recent one is created  *)
(* in the end, however many earlier ones were missed and whatever failed,    *)
(* unless the schedule is suspended.  With Forbid this is asked only of a     *)
(* time at which no other Task ran: the others are documented as skipped      *)
(* (taskschedule_types.go:59), while the code makes them up later.            *)
CatchesUp ==
    <>[](\/ ~ts.exists \/ ts.suspend \/ Latest = 0
         \/ task[Latest] # "none"
         \/ policy = "Forbid" /\ overlap)
==============================================================================
