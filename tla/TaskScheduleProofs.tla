-------------------------- MODULE TaskScheduleProofs --------------------------
(***************************************************************************)
(* Proofs about TaskSchedule, for every schedule and every bound.          *)
(*                                                                         *)
(* RespectsPolicy needs to know that, as long as nothing failed, no Task   *)
(* that runs is missing from the active list of the version in use, which  *)
(* is the run's copy during a run and the stored object between runs.      *)
(* OnlyScheduledTimes holds for schedules with equal distances only: what  *)
(* getNextScheduleTime computes is a multiple of the first distance.       *)
(***************************************************************************)
EXTENDS TaskSchedule, WellFoundedInduction, TLAPS

-----------------------------------------------------------------------------
(* The inductive invariant *)

Working == pc \in {"terminate", "create", "update"}

\* The reconciler never begins again: the TaskSchedule is known to be gone.
Over == ~Working /\ ~tsCache.exists

\* What is stored is in the lister, or on its way there; an object that is
\* gone does not come back.
Delivered ==
    /\ \/ tsWatch = <<>> /\ tsCache = ts
       \/ tsWatch = <<ts>>
    /\ ~tsCache.exists => tsWatch = <<>>

\* A Task listed as finished does not run.
ListedFinished == \A k \in Time : taskSeen[k] = "finished" => task[k] # "running"

\* While a run goes on nobody else writes the active list.
ActiveStable ==
    Working =>
        /\ ts.active = tsCache.active
        /\ ~changed => copy.active = tsCache.active

Tracked ==
    \/ Over
    \/ \A k \in Time : task[k] = "running" =>
          k \in (IF Working THEN copy.active ELSE ts.active)

\* What the policy has ensured before a Task is created.
Cleared ==
    /\ pc \in {"terminate", "create"} /\ policy = "Forbid" => copy.active = {}
    /\ pc = "terminate" /\ policy = "Replace" => copy.active \ todo \subseteq terminated
    /\ pc = "create" /\ policy = "Replace" => copy.active \subseteq terminated

\* Of two Tasks that run, Forbid allows none and Replace has terminated one.
Kept ==
    \A j, k \in Time : task[j] = "running" /\ task[k] = "running" /\ j # k =>
        \/ policy = "Always"
        \/ policy = "Replace" /\ (j \in terminated \/ k \in terminated)

Careful == faults = 0 => ActiveStable /\ Tracked /\ Kept

\* No Task has the time 0.
Due ==
    /\ next # 0 => next <= now
    /\ pc \in {"terminate", "create"} => next # 0

\* The types of all variables but tsWatch, which Delivered gives.
Types ==
    /\ now \in Time /\ policy \in {"Always", "Forbid", "Replace"}
    /\ ts \in Object /\ tsCache \in Object /\ copy \in Object
    /\ task \in [Time -> TaskState] /\ taskSeen \in [Time -> TaskState]
    /\ terminated \subseteq Time /\ next \in Time /\ todo \subseteq Time
    /\ pc \in {"idle", "panic", "terminate", "create", "update"}
    /\ changed \in BOOLEAN
    /\ changes \in 0..MaxChanges /\ faults \in 0..MaxFaults

IInv == Types /\ Delivered /\ ListedFinished /\ Careful /\ Cleared /\ Due

-----------------------------------------------------------------------------
(* The schedule *)

(* The numbers have a first one among those of any kind.                    *)
LEMMA LeastNumber ==
    ASSUME NEW T \in SUBSET Nat, T # {}
    PROVE  \E x \in T : \A y \in T : x <= y
<1>1. IsWellFoundedOn(OpToRel(<, Nat), Nat)
  BY NatLessThanWellFounded
<1>2. \E x \in T : \A y \in T : ~(<<y, x>> \in OpToRel(<, Nat))
  BY <1>1, WFMin
<1>3. ASSUME NEW x \in T, NEW y \in T, ~(<<y, x>> \in OpToRel(<, Nat))
      PROVE  x <= y
  BY <1>3 DEF OpToRel
<1> QED  BY <1>2, <1>3

(* cron's Next is the first scheduled time after t, if there is one.        *)
LEMMA NextIsFirst ==
    ASSUME NEW t \in Nat, NEW w \in Scheduled, w > t
    PROVE  /\ Next1(t) \in Scheduled /\ Next1(t) \in Nat /\ Next1(t) > t
           /\ \A u \in Scheduled : u > t => Next1(t) <= u
<1> DEFINE T == {s \in Scheduled : s > t}
<1>1. T \in SUBSET Nat /\ T # {}
  BY ScheduleAssumption
<1>2. PICK x \in T : \A y \in T : x <= y
  BY <1>1, LeastNumber
<1>3. \E s \in Scheduled : s > t /\ \A u \in Scheduled : u > t => s <= u
  BY <1>2
<1>4. /\ Next1(t) \in Scheduled /\ Next1(t) > t
      /\ \A u \in Scheduled : u > t => Next1(t) <= u
  BY <1>3 DEF Next1
<1> QED  BY <1>4, ScheduleAssumption

(* The next two times after one within the bound.                           *)
LEMMA NextTwo ==
    ASSUME NEW last \in Time
    PROVE  /\ Next1(last) \in Scheduled /\ Next1(last) \in Nat
           /\ Next1(last) > last
           /\ Next1(Next1(last)) \in Scheduled /\ Next1(Next1(last)) \in Nat
           /\ Next1(Next1(last)) > Next1(last)
           /\ \A u \in Scheduled : u > Next1(last) => Next1(Next1(last)) <= u
<1>1. PICK s \in Scheduled, u \in Scheduled : MaxTime < s /\ s < u
  BY ScheduleAssumption
<1>2. last \in Nat /\ last <= MaxTime /\ s \in Nat /\ u \in Nat /\ MaxTime \in Nat
  BY ScheduleAssumption DEF Time
<1>3. s > last
  BY <1>1, <1>2
<1>4. /\ Next1(last) \in Scheduled /\ Next1(last) \in Nat /\ Next1(last) > last
      /\ Next1(last) <= s
  BY <1>2, <1>3, NextIsFirst
<1>5. u > Next1(last)
  BY <1>1, <1>2, <1>4
<1> QED  BY <1>4, <1>5, NextIsFirst

(* Dividing and multiplying again does not exceed what was divided.         *)
LEMMA DivideBelow ==
    ASSUME NEW a \in Nat, NEW d \in Nat, d > 0
    PROVE  a \div d \in Nat /\ (a \div d) * d <= a /\ (a \div d) * d \in Nat
OBVIOUS

\* How many whole distances of the next two times have passed since the first.
Missed(t1, t2, at) == (at - t1) \div (t2 - t1)

(* The time that a Task is made for has come.                               *)
LEMMA NextScheduleTime ==
    ASSUME NEW last \in Time, NEW at \in Time
    PROVE  LET t  == getNextScheduleTime(last, at)
               t1 == Next1(last)
               t2 == Next1(t1)
           IN  /\ t \in Time /\ t <= at
               /\ \/ t = 0
                  \/ t = t1
                  \/ /\ Missed(t1, t2, at) \in Nat
                     /\ t = t1 + Missed(t1, t2, at) * (t2 - t1)
<1> DEFINE t1 == Next1(last)
<1> DEFINE t2 == Next1(t1)
<1> DEFINE t == getNextScheduleTime(last, at)
<1>1. t1 \in Nat /\ t2 \in Nat /\ t2 > t1
  BY NextTwo
<1>2. MaxTime \in Nat /\ at \in Nat /\ at <= MaxTime
  BY ScheduleAssumption DEF Time
<1>3. CASE at < t1
  <2>1. ~(t1 <= at)
    BY <1>1, <1>2, <1>3
  <2>2. t = 0
    BY <1>3, <2>1 DEF getNextScheduleTime
  <2> QED  BY <1>2, <2>2 DEF Time
<1>4. CASE t1 <= at /\ at < t2
  <2>1. ~(at < t1)
    BY <1>1, <1>2, <1>4
  <2>2. t = t1
    BY <1>4, <2>1 DEF getNextScheduleTime
  <2> HIDE DEF t1, t2, t
  <2>3. t \in Time /\ t <= at /\ t = t1
    BY <1>1, <1>2, <1>4, <2>2 DEF Time
  <2> QED  BY <2>3 DEF t1, t2, t
<1>5. CASE ~(at < t1) /\ ~(t1 <= at /\ at < t2)
  <2> DEFINE q == Missed(t1, t2, at)
  <2>1. t = t1 + q * (t2 - t1)
    BY <1>5 DEF getNextScheduleTime, Missed
  <2>2. at - t1 \in Nat /\ t2 - t1 \in Nat /\ t2 - t1 > 0
    <3> HIDE DEF t1, t2
    <3> QED  BY <1>1, <1>2, <1>5
  <2>3. q \in Nat /\ q * (t2 - t1) <= at - t1 /\ q * (t2 - t1) \in Nat
    <3> HIDE DEF t1, t2
    <3> QED  BY <2>2, DivideBelow DEF Missed
  <2>4. t \in Time /\ t <= at
    <3> DEFINE m == q * (t2 - t1)
    <3>1. t = t1 + m /\ m <= at - t1 /\ m \in Nat
      BY <2>1, <2>3
    <3> HIDE DEF t1, t2, t, q, m
    <3> QED  BY <1>1, <1>2, <3>1 DEF Time
  <2> QED  BY <2>1, <2>3, <2>4
<1> QED  BY <1>3, <1>4, <1>5

-----------------------------------------------------------------------------
(* Steps around the run *)

(* The bounds are numbers.                                                  *)
LEMMA Bounds ==
    /\ MaxTime \in Nat /\ MaxChanges \in Nat /\ MaxFaults \in Nat
    /\ 0 \in Time
BY ScheduleAssumption DEF Time

(* The objects the reconciler makes.                                        *)
LEMMA ObjectShapes ==
    /\ NewSchedule \in Object
    /\ \A o \in Object :
          /\ o.exists \in BOOLEAN /\ o.suspend \in BOOLEAN
          /\ o.active \subseteq Time /\ o.last \in Time
          /\ [o EXCEPT !.suspend = ~o.suspend] \in Object
          /\ [o EXCEPT !.suspend = ~o.suspend].active = o.active
          /\ [o EXCEPT !.exists = FALSE] \in Object
          /\ [o EXCEPT !.exists = FALSE].active = o.active
BY Bounds DEF NewSchedule, Object

(* The clock, the informer of Tasks and the Tasks themselves: no Task       *)
(* starts to run.                                                           *)
LEMMA Undisturbed ==
    ASSUME IInv, UNCHANGED <<policy, tsVars, recVars, terminated, changes, faults>>,
           task' \in [Time -> TaskState], taskSeen' \in [Time -> TaskState],
           \A k \in Time : task'[k] = "running" => task[k] = "running",
           ListedFinished', now' \in Time, now <= now'
    PROVE  IInv'
<1>1. UNCHANGED <<policy, ts, tsWatch, tsCache, pc, copy, changed, next, todo, terminated,
                  changes, faults>>
  BY DEF tsVars, recVars
<1>2. Types'
  BY <1>1 DEF IInv, Types
<1>3. Delivered' /\ Cleared'
  BY <1>1 DEF IInv, Delivered, Cleared
<1>4. Careful'
  BY <1>1 DEF IInv, Careful, ActiveStable, Tracked, Kept, Over, Working
<1>5. Due'
  <2>1. now \in Nat /\ now' \in Nat /\ next \in Nat
    BY <1>2, Bounds DEF IInv, Types, Time
  <2> QED  BY <1>1, <2>1 DEF IInv, Due
<1> QED  BY <1>2, <1>3, <1>4, <1>5 DEF IInv

(* Which steps these are.                                                   *)
LEMMA UndisturbedSteps ==
    ASSUME IInv,
           \/ Tick \/ UNCHANGED vars
           \/ \E k \in Time : DeliverTask(k) \/ TaskEnds(k) \/ TaskCollected(k)
    PROVE  IInv'
<1>1. Types /\ ListedFinished
  BY DEF IInv
<1>2. now \in Nat /\ MaxTime \in Nat
  BY <1>1, Bounds DEF Types, Time
<1>3. CASE Tick
  <2>1. now' \in Time /\ now <= now'
    BY <1>1, <1>2, <1>3 DEF Tick, Types, Time
  <2>2. UNCHANGED <<policy, tsVars, recVars, task, taskSeen, terminated, changes, faults>>
    BY <1>3 DEF Tick, taskVars
  <2> QED  BY <1>1, <2>1, <2>2, Undisturbed DEF Types, ListedFinished
<1>4. CASE UNCHANGED vars
  <2>1. UNCHANGED <<now, policy, tsVars, recVars, task, taskSeen, terminated, changes,
                    faults>>
    BY <1>4 DEF vars, taskVars
  <2> QED  BY <1>1, <1>2, <2>1, Undisturbed DEF Types, ListedFinished
<1>5. ASSUME NEW k \in Time, DeliverTask(k) \/ TaskEnds(k) \/ TaskCollected(k)
      PROVE  IInv'
  <2>1. UNCHANGED <<now, policy, tsVars, recVars, terminated, changes, faults>>
    BY <1>5 DEF DeliverTask, TaskEnds, TaskCollected
  <2>2. /\ task' \in [Time -> TaskState] /\ taskSeen' \in [Time -> TaskState]
        /\ \A j \in Time : task'[j] = "running" => task[j] = "running"
        /\ ListedFinished'
    BY <1>1, <1>5
    DEF DeliverTask, TaskEnds, TaskCollected, Types, TaskState, ListedFinished
  <2> QED  BY <1>1, <1>2, <2>1, <2>2, Undisturbed DEF Types
<1> QED  BY <1>3, <1>4, <1>5

(* The TaskSchedule changes, is deleted, or is delivered: the active list   *)
(* stays as it is.                                                          *)
LEMMA ObjectSteps ==
    ASSUME IInv, Deliver \/ Suspend \/ Delete
    PROVE  IInv'
<1>1. Types /\ Delivered /\ ListedFinished /\ Careful /\ Cleared /\ Due
  BY DEF IInv
<1>2. UNCHANGED <<now, policy, task, taskSeen, terminated, pc, copy, changed, next, todo,
                  faults>>
  BY DEF Deliver, Suspend, Delete, taskVars, recVars
<1>3. ListedFinished' /\ Cleared' /\ Due'
  BY <1>1, <1>2 DEF ListedFinished, Cleared, Due
<1>4. changes' \in 0..MaxChanges
  BY <1>1, Bounds DEF Deliver, Suspend, Delete, Types
<1>5. CASE Deliver
  <2>1. tsCache' = ts /\ tsWatch' = <<>> /\ ts' = ts /\ tsCache.exists
    BY <1>1, <1>5 DEF Deliver, Delivered
  <2>2. Types' /\ Delivered'
    BY <1>1, <1>2, <1>4, <2>1 DEF Types, Delivered
  <2>3. Careful'
    BY <1>1, <1>2, <2>1 DEF Careful, ActiveStable, Tracked, Kept, Over, Working
  <2> QED  BY <1>3, <2>2, <2>3 DEF IInv
<1>6. CASE Suspend \/ Delete
  <2>1. PICK o \in Object : Store(o) /\ o.active = ts.active /\ ts.exists
    BY <1>1, <1>6, ObjectShapes DEF Suspend, Delete, Types
  <2>2. /\ ts' = o /\ tsWatch' = <<o>> /\ tsCache' = tsCache
        /\ tsCache = ts /\ tsCache.exists
    BY <1>1, <2>1 DEF Store, Delivered
  <2>3. Types' /\ Delivered'
    BY <1>1, <1>2, <1>4, <2>2 DEF Types, Delivered
  <2>4. Careful'
    BY <1>1, <1>2, <2>1, <2>2 DEF Careful, ActiveStable, Tracked, Kept, Over, Working
  <2> QED  BY <1>3, <2>3, <2>4 DEF IInv
<1> QED  BY <1>5, <1>6

-----------------------------------------------------------------------------
(* The run *)

(* A fault is counted, so none has happened before if none has by now.      *)
LEMMA FaultCounted ==
    ASSUME faults \in 0..MaxFaults
    PROVE  /\ \A kind : Fault(kind) => faults' \in 0..MaxFaults /\ faults' # 0
           /\ faults < MaxFaults /\ faults' = faults + 1 =>
                 faults' \in 0..MaxFaults /\ faults' # 0
BY Bounds DEF Fault

(* A run that stops: it goes on to the update if it has changed the status, *)
(* and otherwise the stored active list is its own.                         *)
LEMMA StopKeeps ==
    ASSUME IInv, pc \in {"terminate", "create"}, Stop,
           UNCHANGED <<now, policy, ts, tsWatch, tsCache, task, taskSeen, terminated,
                       changes>>,
           faults' \in 0..MaxFaults, faults' = 0 => faults = 0
    PROVE  IInv'
<1>1. Types /\ Delivered /\ ListedFinished /\ Careful /\ Cleared /\ Due
  BY DEF IInv
<1>2. Delivered' /\ ListedFinished'
  BY <1>1 DEF Delivered, ListedFinished
<1>3. CASE changed
  <2>1. pc' = "update" /\ UNCHANGED <<copy, changed, next, todo>>
    BY <1>3 DEF Stop
  <2>2. Types' /\ Cleared' /\ Due'
    BY <1>1, <2>1 DEF Types, Cleared, Due
  <2>3. Careful'
    BY <1>1, <2>1 DEF Careful, ActiveStable, Tracked, Kept, Over, Working
  <2> QED  BY <1>2, <2>2, <2>3 DEF IInv
<1>4. CASE ~changed
  <2>1. pc' = "idle" /\ copy' = NewSchedule /\ changed' = FALSE
        /\ next' = 0 /\ todo' = {}
    BY <1>4 DEF Stop, Finish
  <2>2. Types' /\ Cleared' /\ Due'
    BY <1>1, <2>1, ObjectShapes, Bounds DEF Types, Cleared, Due
  <2>3. Careful'
    BY <1>1, <1>4, <2>1 DEF Careful, ActiveStable, Tracked, Kept, Over, Working
  <2> QED  BY <1>2, <2>2, <2>3 DEF IInv
<1> QED  BY <1>3, <1>4

(* A run begins.  Without a fault it is based on the stored object, of      *)
(* whose active list it only drops Tasks that do not run.                   *)
LEMMA BeginKeeps ==
    ASSUME IInv, Begin
    PROVE  IInv'
<1> DEFINE a == {k \in tsCache.active : ~Finished(k)}
<1> DEFINE o == [tsCache EXCEPT !.active = a]
<1> DEFINE t == IF o.suspend THEN 0 ELSE getNextScheduleTime(o.last, now)
<1>1. Types /\ Delivered /\ ListedFinished /\ Careful /\ Cleared /\ Due
  BY DEF IInv
<1>2. /\ pc = "idle" /\ tsCache.exists
      /\ \/ tsWatch = <<>> /\ UNCHANGED faults
         \/ tsWatch # <<>> /\ faults < MaxFaults /\ faults' = faults + 1
      /\ UNCHANGED <<now, policy, ts, tsWatch, tsCache, task, taskSeen, terminated, changes>>
  BY DEF Begin, tsVars, taskVars
<1>3. a \subseteq Time /\ a \subseteq tsCache.active
  BY <1>1, ObjectShapes DEF Types
<1>4. /\ o \in Object /\ o.active = a /\ o.last = tsCache.last /\ o.last \in Time
      /\ o.suspend \in BOOLEAN
  <2> HIDE DEF a
  <2> QED  BY <1>1, <1>3 DEF Types, Object
<1>5. t \in Time /\ t <= now
  <2>1. now \in Time /\ now \in Nat
    BY <1>1, Bounds DEF Types, Time
  <2>2. getNextScheduleTime(o.last, now) \in Time
        /\ getNextScheduleTime(o.last, now) <= now
    <3> HIDE DEF o
    <3> QED  BY <1>4, <2>1, NextScheduleTime
  <2> QED  BY <2>1, <2>2, Bounds
<1>6. /\ copy' = o /\ changed' = (o # tsCache)
      /\ \/ /\ t # 0 /\ Allowed(o)
            /\ pc' = IF policy = "Replace" /\ a # {} THEN "terminate" ELSE "create"
            /\ next' = t
            /\ todo' = IF policy = "Replace" THEN a ELSE {}
         \/ pc' = "update" /\ UNCHANGED <<next, todo>>
  BY DEF Begin
<1>7. faults' \in 0..MaxFaults /\ (faults' = 0 => faults = 0 /\ tsWatch = <<>>)
  BY <1>1, <1>2, FaultCounted DEF Types
<1>8. Working'
  BY <1>6 DEF Working
<1>9. changed' = FALSE => copy'.active = tsCache.active
  BY <1>6
<1>10. ASSUME NEW k \in Time, task[k] = "running", k \in tsCache.active
       PROVE  k \in a
  BY <1>1, <1>10 DEF ListedFinished, Finished
<1>11. Allowed(o) /\ policy = "Forbid" => a = {}
  BY <1>4 DEF Allowed
<1> HIDE DEF a, o, t
<1>12. Types'
  BY <1>1, <1>2, <1>3, <1>4, <1>5, <1>6, <1>7 DEF Types
<1>13. Delivered' /\ ListedFinished'
  BY <1>1, <1>2 DEF Delivered, ListedFinished
<1>14. Cleared'
  BY <1>2, <1>4, <1>6, <1>11 DEF Cleared
<1>15. Due'
  BY <1>1, <1>2, <1>5, <1>6 DEF Due
<1>16. Careful'
  <2> SUFFICES ASSUME faults' = 0 PROVE ActiveStable' /\ Tracked' /\ Kept'
    BY DEF Careful
  <2>1. faults = 0 /\ tsCache = ts
    BY <1>1, <1>7 DEF Delivered
  <2>2. Kept'
    BY <1>1, <1>2, <2>1 DEF Careful, Kept
  <2>3. ActiveStable'
    BY <1>2, <1>9, <1>12, <2>1 DEF ActiveStable, Types
  <2>4. ASSUME NEW k \in Time, task[k] = "running"
        PROVE  k \in a
    BY <1>1, <1>2, <1>10, <2>1, <2>4 DEF Careful, Tracked, Over, Working
  <2>5. Tracked'
    BY <1>2, <1>4, <1>6, <1>8, <2>4 DEF Tracked
  <2> QED  BY <2>2, <2>3, <2>5
<1> QED  BY <1>12, <1>13, <1>14, <1>15, <1>16 DEF IInv

(* A run that ends early creates nothing; it is one of the faults.          *)
LEMMA BeginFailsKeeps ==
    ASSUME IInv, BeginFails
    PROVE  IInv'
<1> DEFINE a == {k \in tsCache.active : ~Finished(k)}
<1> DEFINE o == [tsCache EXCEPT !.active = a]
<1>1. Types /\ Delivered /\ ListedFinished /\ Careful /\ Cleared /\ Due
  BY DEF IInv
<1>2. /\ pc = "idle" /\ pc' = "update" /\ changed' = TRUE
      /\ \E kind : Fault(kind)
      /\ UNCHANGED <<now, policy, ts, tsWatch, tsCache, task, taskSeen, terminated, next,
                     todo, changes>>
  BY DEF BeginFails, tsVars, taskVars
<1>3. a \in SUBSET Time
  BY <1>1, ObjectShapes DEF Types
<1>4. o \in Object
  <2> HIDE DEF a
  <2> QED  BY <1>1, <1>3 DEF Types, Object
<1>5. copy' = tsCache \/ copy' = o
  BY DEF BeginFails
<1> HIDE DEF o, a
<1>6. faults' \in 0..MaxFaults /\ faults' # 0
  BY <1>1, <1>2, FaultCounted DEF Types
<1>7. Types'
  BY <1>1, <1>2, <1>4, <1>5, <1>6 DEF Types
<1>8. Delivered' /\ ListedFinished' /\ Cleared' /\ Due'
  BY <1>1, <1>2 DEF Delivered, ListedFinished, Cleared, Due
<1>9. Careful'
  BY <1>6 DEF Careful
<1> QED  BY <1>7, <1>8, <1>9 DEF IInv

(* The panic.                                                               *)
LEMMA PanicKeeps ==
    ASSUME IInv, Panic
    PROVE  IInv'
<1>1. Types /\ Delivered /\ ListedFinished /\ Careful /\ Cleared /\ Due
  BY DEF IInv
<1>2. /\ ~tsCache.exists /\ pc' = "panic"
      /\ UNCHANGED <<now, policy, ts, tsWatch, tsCache, task, taskSeen, terminated, copy,
                     changed, next, todo, changes, faults>>
  BY DEF Panic, tsVars, taskVars
<1>3. Types' /\ Delivered' /\ ListedFinished' /\ Cleared' /\ Due'
  BY <1>1, <1>2 DEF Types, Delivered, ListedFinished, Cleared, Due
<1>4. Careful'
  BY <1>1, <1>2 DEF Careful, ActiveStable, Tracked, Kept, Over, Working
<1> QED  BY <1>3, <1>4 DEF IInv

(* A Task is terminated.                                                    *)
LEMMA TerminateKeeps ==
    ASSUME IInv, NEW k \in Time, Terminate(k)
    PROVE  IInv'
<1>1. Types /\ Delivered /\ ListedFinished /\ Careful /\ Cleared /\ Due
  BY DEF IInv
<1>2. pc = "terminate" /\ k \in todo
      /\ UNCHANGED <<now, policy, ts, tsWatch, tsCache, task, taskSeen, changes>>
  BY DEF Terminate, tsVars
<1>3. CASE /\ terminated' = terminated \union {k}
           /\ todo' = todo \ {k}
           /\ pc' = IF todo = {k} THEN "create" ELSE "terminate"
           /\ UNCHANGED <<copy, changed, next, faults>>
  <2>1. Types'
    BY <1>1, <1>2, <1>3 DEF Types
  <2>2. Delivered' /\ ListedFinished' /\ Due'
    BY <1>1, <1>2, <1>3 DEF Delivered, ListedFinished, Due
  <2>3. Cleared'
    BY <1>1, <1>2, <1>3 DEF Cleared
  <2>4. Careful'
    BY <1>1, <1>2, <1>3 DEF Careful, ActiveStable, Tracked, Kept, Over, Working
  <2> QED  BY <2>1, <2>2, <2>3, <2>4 DEF IInv
<1>4. CASE /\ (~Existing(task[k]) /\ UNCHANGED faults) \/ Fault("api")
           /\ Stop
           /\ UNCHANGED terminated
  <2>1. faults' \in 0..MaxFaults /\ (faults' = 0 => faults = 0)
    BY <1>1, <1>4, FaultCounted DEF Types
  <2> QED  BY <1>2, <1>4, <2>1, StopKeeps
<1> QED  BY <1>3, <1>4 DEF Terminate

(* The Task is created: by then the policy has been seen to.                *)
LEMMA CreateKeeps ==
    ASSUME IInv, Create
    PROVE  IInv'
<1>1. Types /\ Delivered /\ ListedFinished /\ Careful /\ Cleared /\ Due
  BY DEF IInv
<1>2. pc = "create" /\ next \in Time
      /\ UNCHANGED <<now, policy, ts, tsWatch, tsCache, taskSeen, terminated, changes>>
  BY <1>1 DEF Create, tsVars, Types
<1>3. CASE /\ ~Existing(taskSeen[next])
           /\ task' = [task EXCEPT ![next] = "running"]
           /\ copy' = [copy EXCEPT !.last = next, !.active = @ \union {next}]
           /\ changed' = TRUE
           /\ pc' = "update"
           /\ UNCHANGED <<next, todo, faults>>
  <2> DEFINE a == copy.active \union {next}
  <2> DEFINE o == [copy EXCEPT !.last = next, !.active = a]
  <2>1. a \in SUBSET Time
    BY <1>1, <1>2, ObjectShapes DEF Types
  <2>2. o \in Object /\ o.active = a
    <3> HIDE DEF a
    <3> QED  BY <1>1, <1>2, <2>1 DEF Types, Object
  <2>3. copy' = o
    BY <1>1, <1>3 DEF Types, Object
  <2> HIDE DEF o
  <2>4. /\ task' \in [Time -> TaskState]
        /\ \A k \in Time : task'[k] = "running" => k = next \/ task[k] = "running"
    BY <1>1, <1>2, <1>3 DEF Types, TaskState
  <2>5. Types'
    BY <1>1, <1>2, <1>3, <2>2, <2>3, <2>4 DEF Types
  <2>6. Delivered' /\ Due' /\ Cleared'
    BY <1>1, <1>2, <1>3 DEF Delivered, Due, Cleared
  <2>7. ListedFinished'
    BY <1>1, <1>2, <1>3, <2>4 DEF ListedFinished, Existing
  <2>8. Careful'
    <3> SUFFICES ASSUME faults' = 0 PROVE ActiveStable' /\ Tracked' /\ Kept'
      BY DEF Careful
    <3>1. ActiveStable /\ Tracked /\ Kept
      BY <1>1, <1>3 DEF Careful
    <3>2. \A k \in Time : task[k] = "running" => k \in copy.active
      BY <1>2, <3>1 DEF Tracked, Over, Working
    <3>3. ActiveStable'
      BY <1>2, <1>3, <3>1 DEF ActiveStable, Working
    <3>4. Tracked'
      BY <1>3, <2>2, <2>3, <2>4, <3>2 DEF Tracked, Working
    <3>5. CASE policy = "Always"
      <4>1. Kept'
        BY <1>2, <3>5 DEF Kept
      <4> QED  BY <3>3, <3>4, <4>1
    <3>6. CASE policy = "Forbid"
      <4>1. \A k \in Time : task[k] # "running"
        BY <1>1, <1>2, <3>2, <3>6 DEF Cleared
      <4>2. Kept'
        BY <2>4, <4>1 DEF Kept
      <4> QED  BY <3>3, <3>4, <4>2
    <3>7. CASE policy = "Replace"
      <4>1. \A k \in Time : task[k] = "running" => k \in terminated
        BY <1>1, <1>2, <3>2, <3>7 DEF Cleared
      <4>2. Kept'
        BY <1>2, <2>4, <3>7, <4>1 DEF Kept
      <4> QED  BY <3>3, <3>4, <4>2
    <3> QED  BY <1>1, <3>5, <3>6, <3>7 DEF Types
  <2> QED  BY <2>5, <2>6, <2>7, <2>8 DEF IInv
<1>4. CASE /\ UNCHANGED faults \/ Fault("api")
           /\ Stop
           /\ UNCHANGED task
  <2>1. faults' \in 0..MaxFaults /\ (faults' = 0 => faults = 0)
    BY <1>1, <1>4, FaultCounted DEF Types
  <2> QED  BY <1>2, <1>4, <2>1, StopKeeps
<1> QED  BY <1>3, <1>4 DEF Create

(* The status is stored.  Without a fault it is, unless there is nothing to *)
(* change or the TaskSchedule is gone.                                      *)
LEMMA UpdateKeeps ==
    ASSUME IInv, UpdateStatus
    PROVE  IInv'
<1> DEFINE o == [tsCache EXCEPT !.active = copy.active, !.last = copy.last]
<1>1. Types /\ Delivered /\ ListedFinished /\ Careful /\ Cleared /\ Due
  BY DEF IInv
<1>2. /\ pc = "update" /\ pc' = "idle" /\ copy' = NewSchedule /\ changed' = FALSE
      /\ next' = 0 /\ todo' = {}
      /\ UNCHANGED <<now, policy, task, taskSeen, terminated, changes>>
  BY DEF UpdateStatus, Finish, taskVars
<1>3. copy.active \in SUBSET Time /\ copy.last \in Time
  BY <1>1, ObjectShapes DEF Types
<1>4. o \in Object /\ o.active = copy.active /\ o.exists = tsCache.exists
  BY <1>1, <1>3 DEF Types, Object
<1>5. \/ (~tsCache.exists \/ o = tsCache) /\ UNCHANGED <<tsVars, faults>>
      \/ tsCache.exists /\ Store(o) /\ UNCHANGED faults
      \/ /\ UNCHANGED tsVars
         /\ (faults < MaxFaults /\ faults' = faults + 1) \/ Fault("api")
  BY DEF UpdateStatus
<1> HIDE DEF o
<1>6. faults' \in 0..MaxFaults /\ (faults' = 0 => faults = 0)
  BY <1>1, <1>5, FaultCounted DEF Types
<1>7. ListedFinished' /\ Cleared' /\ Due'
  BY <1>1, <1>2 DEF ListedFinished, Cleared, Due
<1>8. ASSUME UNCHANGED tsVars,
             faults' = 0 => ~tsCache.exists \/ copy.active = tsCache.active
      PROVE  IInv'
  <2>1. UNCHANGED <<ts, tsWatch, tsCache>>
    BY <1>8 DEF tsVars
  <2>2. Types' /\ Delivered'
    BY <1>1, <1>2, <1>6, <2>1, ObjectShapes, Bounds DEF Types, Delivered
  <2>3. Careful'
    BY <1>1, <1>2, <1>6, <1>8, <2>1
    DEF Careful, ActiveStable, Tracked, Kept, Over, Working
  <2> QED  BY <1>7, <2>2, <2>3 DEF IInv
<1>9. CASE tsCache.exists /\ Store(o)
  <2>1. ts' = o /\ tsWatch' = <<o>> /\ tsCache' = tsCache /\ tsCache.exists
    BY <1>9 DEF Store
  <2>2. Types' /\ Delivered'
    BY <1>1, <1>2, <1>4, <1>6, <2>1, ObjectShapes, Bounds DEF Types, Delivered
  <2>3. Careful'
    BY <1>1, <1>2, <1>4, <1>6, <2>1
    DEF Careful, ActiveStable, Tracked, Kept, Over, Working
  <2> QED  BY <1>7, <2>2, <2>3 DEF IInv
<1>10. CASE (~tsCache.exists \/ o = tsCache) /\ UNCHANGED <<tsVars, faults>>
  BY <1>4, <1>8, <1>10
<1>11. CASE /\ UNCHANGED tsVars
            /\ (faults < MaxFaults /\ faults' = faults + 1) \/ Fault("api")
  <2>1. faults' # 0
    BY <1>1, <1>11, FaultCounted DEF Types
  <2> QED  BY <1>8, <1>11, <2>1
<1> QED  BY <1>5, <1>9, <1>10, <1>11

-----------------------------------------------------------------------------
(* The theorems *)

(* A TaskSchedule that was just created.                                    *)
LEMMA IInvInit == Init => IInv
<1> SUFFICES ASSUME Init PROVE IInv
  OBVIOUS
<1>1. NewSchedule.exists /\ NewSchedule.active = {}
  BY DEF NewSchedule
<1>2. Types
  BY Bounds, ObjectShapes DEF Init, Types, TaskState
<1>3. Delivered /\ ListedFinished /\ Cleared /\ Due
  BY <1>1 DEF Init, Delivered, ListedFinished, Cleared, Due
<1>4. Careful
  BY <1>1 DEF Init, Careful, ActiveStable, Tracked, Kept, Over, Working
<1> QED  BY <1>2, <1>3, <1>4 DEF IInv

(* Every step keeps the invariant.                                          *)
LEMMA IInvStep == IInv /\ [Next]_vars => IInv'
<1> SUFFICES ASSUME IInv, [Next]_vars PROVE IInv'
  OBVIOUS
<1>1. CASE Reconciler
  BY <1>1, BeginKeeps, BeginFailsKeeps, PanicKeeps, TerminateKeeps, CreateKeeps, UpdateKeeps
  DEF Reconciler
<1>2. CASE Deliver \/ Suspend \/ Delete
  BY <1>2, ObjectSteps
<1>3. CASE \/ Tick \/ UNCHANGED vars
           \/ \E k \in Time : DeliverTask(k) \/ TaskEnds(k) \/ TaskCollected(k)
  BY <1>3, UndisturbedSteps
<1> QED  BY <1>1, <1>2, <1>3 DEF Next

(* The invariant holds in every reachable state.                            *)
LEMMA Inductive == Spec => []IInv
BY IInvInit, IInvStep, PTL DEF Spec

OverlapTyped == overlap \in BOOLEAN

(* The history variable is TRUE or FALSE.                                   *)
LEMMA OverlapType == Spec => []OverlapTyped
<1>1. Init => OverlapTyped
  BY DEF Init, OverlapTyped
<1>2. ASSUME OverlapTyped, [Next]_vars PROVE OverlapTyped'
  <2> USE DEF OverlapTyped
  <2>1. CASE Tick
    BY <1>2, <2>1 DEF Tick
  <2>2. CASE Create
    BY <1>2, <2>2 DEF Create
  <2>3. CASE ~Tick /\ ~Create
    <3>1. overlap' = overlap
      BY <1>2, <2>3 DEF Next, Reconciler, Begin, BeginFails, Panic, Terminate, UpdateStatus,
        Deliver, Suspend, Delete, DeliverTask, TaskEnds, TaskCollected, vars
    <3> QED  BY <1>2, <3>1
  <2> QED  BY <2>1, <2>2, <2>3
<1> QED  BY <1>1, <1>2, PTL DEF Spec

(* The variables keep their types for every schedule: in particular no time *)
(* is worked out that lies in the future.                                   *)
THEOREM TypeCorrect == Spec => []TypeOK
<1>1. ASSUME IInv, OverlapTyped PROVE TypeOK
  <2>1. tsWatch = <<>> \/ tsWatch = <<ts>>
    BY <1>1 DEF IInv, Delivered
  <2>2. ts \in Object
    BY <1>1 DEF IInv, Types
  <2>3. tsWatch \in Seq(Object) /\ Len(tsWatch) <= 1
    <3>1. CASE tsWatch = <<>>
      BY <3>1
    <3>2. CASE tsWatch = <<ts>>
      BY <2>2, <3>2
    <3> QED  BY <2>1, <3>1, <3>2
  <2> QED  BY <1>1, <2>3 DEF IInv, Types, TypeOK, OverlapTyped
<1> QED  BY <1>1, Inductive, OverlapType, PTL

(* As long as nothing failed, Forbid never lets two Tasks run and Replace   *)
(* leaves at most one that it has not terminated.                           *)
THEOREM RespectsPolicyHolds == Spec => []RespectsPolicy
<1>1. ASSUME IInv PROVE RespectsPolicy
  <2> SUFFICES ASSUME faults = 0, NEW j \in Time, NEW k \in Time,
                      task[j] = "running", task[k] = "running", j # k
               PROVE  CASE policy = "Always"  -> TRUE
                        [] policy = "Forbid"  -> FALSE
                        [] policy = "Replace" -> {j, k} \cap terminated # {}
    BY DEF RespectsPolicy
  <2>1. \/ policy = "Always"
        \/ policy = "Replace" /\ (j \in terminated \/ k \in terminated)
    BY <1>1 DEF IInv, Careful, Kept
  <2>2. CASE policy = "Always"
    BY <2>2
  <2>3. CASE policy = "Replace" /\ (j \in terminated \/ k \in terminated)
    <3>1. {j, k} \cap terminated # {}
      BY <2>3
    <3> QED  BY <2>3, <3>1
  <2> QED  BY <2>1, <2>2, <2>3
<1> QED  BY <1>1, Inductive, PTL

\* The distance from a scheduled time to the next is always the same, as in
\* "*/10 * * * *" and unlike in "0 9,17 * * *".
Regular ==
    \E d \in Nat \ {0} :
        \A s \in Scheduled :
            /\ s <= MaxTime => s + d \in Scheduled
            /\ \A u \in Scheduled : s < u => s + d <= u

(* The multiples of that distance, from a scheduled time on, are scheduled. *)
LEMMA Multiples ==
    ASSUME NEW d \in Nat \ {0}, \A s \in Scheduled : s <= MaxTime => s + d \in Scheduled,
           NEW s \in Scheduled, NEW n \in Nat, s + n * d <= MaxTime
    PROVE  s + n * d \in Scheduled
<1> DEFINE T == {k \in Nat : s + k * d <= MaxTime /\ s + k * d \notin Scheduled}
<1>1. s \in Nat /\ MaxTime \in Nat
  BY Bounds, ScheduleAssumption
<1>2. ASSUME T # {} PROVE FALSE
  <2>1. PICK k \in T : \A j \in T : k <= j
    BY <1>2, LeastNumber
  <2>2. k \in Nat /\ s + k * d <= MaxTime /\ s + k * d \notin Scheduled
    BY <2>1
  <2>3. k # 0
    BY <1>1, <2>2
  <2> DEFINE j == k - 1
             x == s + j * d
  <2>4. j \in Nat /\ j < k
    BY <2>2, <2>3
  <2>5. x \in Nat /\ s + k * d = x + d
    <3>1. k * d = j * d + d /\ j * d \in Nat
      BY <2>2, <2>4
    <3> QED  BY <1>1, <3>1
  <2>6. j \notin T
    BY <2>1, <2>2, <2>4
  <2>7. x <= MaxTime
    BY <1>1, <2>2, <2>5
  <2>8. x \in Scheduled
    BY <2>4, <2>6, <2>7
  <2> HIDE DEF x
  <2> QED  BY <2>2, <2>5, <2>7, <2>8
<1> QED  BY <1>2

(* For such a schedule the time worked out is a scheduled one.              *)
LEMMA RegularTime ==
    ASSUME Regular, NEW last \in Time, NEW at \in Time,
           getNextScheduleTime(last, at) # 0
    PROVE  getNextScheduleTime(last, at) \in Scheduled
<1> DEFINE t1 == Next1(last)
<1> DEFINE t2 == Next1(t1)
<1> DEFINE t == getNextScheduleTime(last, at)
<1>1. PICK d \in Nat \ {0} :
         \A s \in Scheduled :
            /\ s <= MaxTime => s + d \in Scheduled
            /\ \A u \in Scheduled : s < u => s + d <= u
  BY DEF Regular
<1>2. /\ t1 \in Scheduled /\ t1 \in Nat /\ t2 \in Scheduled /\ t2 \in Nat
      /\ t2 > t1 /\ \A u \in Scheduled : u > t1 => t2 <= u
  BY NextTwo
<1>3. /\ t \in Time /\ t <= at /\ t \in Nat /\ at <= MaxTime /\ MaxTime \in Nat
      /\ at \in Nat
      /\ \/ t = 0
         \/ t = t1
         \/ /\ Missed(t1, t2, at) \in Nat
            /\ t = t1 + Missed(t1, t2, at) * (t2 - t1)
  <2>1. at \in Nat /\ at <= MaxTime /\ MaxTime \in Nat
    BY Bounds DEF Time
  <2>2. Time \subseteq Nat
    BY Bounds DEF Time
  <2> QED  BY <2>1, <2>2, NextScheduleTime
<1>4. CASE t = t1
  BY <1>2, <1>4
<1>5. CASE /\ t # t1
           /\ Missed(t1, t2, at) \in Nat
           /\ t = t1 + Missed(t1, t2, at) * (t2 - t1)
  <2> DEFINE q == Missed(t1, t2, at)
  <2>1. q \in Nat /\ t = t1 + q * (t2 - t1)
    BY <1>5
  <2> HIDE DEF t1, t2, t, q
  <2>2. t2 - t1 \in Nat /\ q * (t2 - t1) \in Nat
    BY <1>2, <2>1
  <2>3. t1 <= MaxTime
    BY <1>2, <1>3, <2>1, <2>2
  <2>4. t1 + d \in Scheduled /\ t1 + d <= t2
    BY <1>1, <1>2, <2>3
  <2>5. t2 - t1 = d
    BY <1>1, <1>2, <2>4
  <2>6. t = t1 + q * d /\ t <= MaxTime
    BY <1>3, <2>1, <2>5
  <2>7. t \in Scheduled
    BY <1>1, <1>2, <2>1, <2>6, Multiples
  <2> QED  BY <2>7 DEF t
<1> QED  BY <1>3, <1>4, <1>5

\* The time that the run makes a Task for is a scheduled one.
OnSchedule ==
    /\ OnlyScheduledTimes
    /\ pc \in {"terminate", "create"} => next \in Scheduled

(* For a regular schedule, Tasks are created for scheduled times only, and  *)
(* only once they have come, however many runs were missed and whatever     *)
(* failed.                                                                  *)
THEOREM RegularOnlyScheduledTimes ==
    ASSUME Regular
    PROVE  Spec => []OnlyScheduledTimes
<1>1. Init => OnSchedule
  BY DEF Init, OnSchedule, OnlyScheduledTimes
<1>2. ASSUME IInv, OnSchedule, [Next]_vars PROVE OnSchedule'
  <2>1. Types /\ Due
    BY <1>2 DEF IInv
  <2>2. Time \subseteq Nat /\ now \in Nat /\ next \in Time
    BY <2>1, Bounds DEF Types, Time
  <2>3. CASE Create
    <3>1. now' = now /\ pc = "create" /\ next \in Scheduled /\ next <= now
      BY <1>2, <2>1, <2>3 DEF Create, OnSchedule, Due
    <3>2. pc' \in {"update", "idle"}
      BY <2>3 DEF Create, Stop, Finish
    <3>3. \A k \in Time : task'[k] # "none" => k = next \/ task[k] # "none"
      BY <2>1, <2>3 DEF Create, Types
    <3> QED  BY <1>2, <3>1, <3>2, <3>3 DEF OnSchedule, OnlyScheduledTimes
  <2>4. CASE Begin
    <3>1. UNCHANGED <<now, task>>
      BY <2>4 DEF Begin, taskVars
    <3>2. pc' \in {"terminate", "create"} => next' \in Scheduled
      <4> DEFINE o == [tsCache EXCEPT !.active = {k \in tsCache.active : ~Finished(k)}]
      <4>1. pc' \in {"terminate", "create"} =>
               /\ next' # 0
               /\ next' = IF o.suspend THEN 0 ELSE getNextScheduleTime(o.last, now)
        BY <2>4 DEF Begin
      <4>2. o.last = tsCache.last /\ tsCache.last \in Time /\ now \in Time
        BY <2>1 DEF Types, Object
      <4> HIDE DEF o
      <4> QED  BY <4>1, <4>2, RegularTime
    <3> QED  BY <1>2, <3>1, <3>2 DEF OnSchedule, OnlyScheduledTimes
  <2>5. ASSUME NEW k \in Time, Terminate(k) PROVE OnSchedule'
    <3>1. UNCHANGED <<now, task>> /\ pc = "terminate"
          /\ (pc' \in {"terminate", "create"} => next' = next)
      BY <2>5 DEF Terminate, Stop, Finish
    <3> QED  BY <1>2, <3>1 DEF OnSchedule, OnlyScheduledTimes
  <2>6. CASE UpdateStatus \/ Panic \/ BeginFails
    <3>1. UNCHANGED <<now, task>> /\ pc' \in {"idle", "panic", "update"}
      BY <2>6 DEF UpdateStatus, Finish, Panic, BeginFails, taskVars
    <3> QED  BY <1>2, <3>1 DEF OnSchedule, OnlyScheduledTimes
  <2>7. CASE Deliver \/ Suspend \/ Delete \/ UNCHANGED vars
    <3>1. UNCHANGED <<now, task, pc, next>>
      BY <2>7 DEF Deliver, Suspend, Delete, vars, taskVars, recVars
    <3> QED  BY <1>2, <3>1 DEF OnSchedule, OnlyScheduledTimes
  <2>8. CASE Tick
    <3>1. UNCHANGED <<task, pc, next>> /\ now' = now + 1
      BY <2>8 DEF Tick, taskVars, recVars
    <3>2. \A k \in Time : k <= now => k <= now'
      BY <2>2, <3>1
    <3> QED  BY <1>2, <3>1, <3>2 DEF OnSchedule, OnlyScheduledTimes
  <2>9. ASSUME NEW k \in Time, DeliverTask(k) \/ TaskEnds(k) \/ TaskCollected(k)
        PROVE  OnSchedule'
    <3>1. UNCHANGED <<now, pc, next>>
          /\ \A j \in Time : task'[j] # "none" => task[j] # "none"
      BY <2>1, <2>9 DEF DeliverTask, TaskEnds, TaskCollected, recVars, Types
    <3> QED  BY <1>2, <3>1 DEF OnSchedule, OnlyScheduledTimes
  <2> QED
    BY <1>2, <2>3, <2>4, <2>5, <2>6, <2>7, <2>8, <2>9 DEF Next, Reconciler
<1>3. OnSchedule => OnlyScheduledTimes
  BY DEF OnSchedule
<1> QED  BY <1>1, <1>2, <1>3, Inductive, PTL DEF Spec
==============================================================================
