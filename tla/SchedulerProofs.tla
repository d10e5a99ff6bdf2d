-------------------------- MODULE SchedulerProofs --------------------------
(***************************************************************************)
(* Proofs about Scheduler, for every set of ids, expressions and pools and *)
(* every bound on changes, waiting runs and restarts.                      *)
(*                                                                         *)
(* IInv says, for what a handler has still to do, how far the three copies *)
(* of its schedule agree; that no id is used again; and what the thread of *)
(* a trigger and the run in the worker have of a schedule that may be gone *)
(* by now.                                                                 *)
(*                                                                         *)
(* The last part is about the expressions of the schedules, CronDays.      *)
(***************************************************************************)
EXTENDS Scheduler, CronDays, SequenceTheorems, TLAPS

USE SchedulerAssumption

\* What a handler has still to do: the plans of the calls, and what is left of them.
ScheduleNext == {<<"save", "schedule">>, <<"schedule">>}
Replace == {<<"save", "unschedule", "schedule">>, <<"unschedule", "schedule">>}
UnscheduleLast == {<<"save", "unschedule">>, <<"unschedule">>}
DeletePlan == <<"unschedule", "remove", "save">>
RemovePlan == <<"remove", "save">>
SavePlan == <<"save">>
Plans == {<<>>, DeletePlan, RemovePlan, SavePlan} \cup ScheduleNext \cup Replace \cup UnscheduleLast

\* The file is not yet written.
Unsaved == {<<"save", "schedule">>, <<"save", "unschedule", "schedule">>, <<"save", "unschedule">>,
            DeletePlan, RemovePlan, SavePlan}

\* The schedule of the call, in memory and in the APScheduler, when so much is left to do.
PlanInv ==
  /\ todo \in Plans
  /\ todo # <<>> => cur \in used
  /\ todo \in ScheduleNext => jobs[cur] # None /\ jobs[cur].enabled /\ timer[cur] = None
  /\ todo \in Replace => jobs[cur] # None /\ jobs[cur].enabled
  /\ todo \in UnscheduleLast => jobs[cur] # None /\ Trigger(jobs[cur]) = None
  /\ todo = DeletePlan => jobs[cur] # None
  /\ todo = RemovePlan => jobs[cur] # None /\ timer[cur] = None
  /\ todo = SavePlan => jobs[cur] = None /\ timer[cur] = None

\* No handler has something to do with the schedule.
Settled(j) == todo = <<>> \/ cur # j

TriggersInv == \A j \in Jobs : Settled(j) => timer[j] = Trigger(jobs[j])

\* Of a schedule without a trigger, one thread may still be under way, or has queued its run.
LateInv ==
  \A j \in Jobs : Settled(j) /\ timer[j] = None =>
    IF due[j] = "no" THEN late[j] <= 1 ELSE late[j] = 0

\* The ids of schedules, wherever they are, have been given out.
UsedInv ==
  /\ \A j \in Jobs : jobs[j] # None => j \in used
  /\ file # Torn => \A j \in Jobs : file[j] # None => j \in used

\* The run holds a schedule, and its backup went where that says.
RunInv ==
  \/ run = Idle
  \/ /\ run \in [job : Jobs, last : Job \cup {None}, into : Pools \cup {None}, shown : Pools, changed : BOOLEAN]
     /\ run.job \in used
     /\ Held \in Job
     /\ run.into # None /\ ~run.changed => Held.pool = run.into

\* The file has the schedules as of the last answer, or what the call under way has made of them.
FileInv ==
  /\ todo = <<>> => acked = jobs
  /\ saved /\ file # Torn => file = IF todo \in Unsaved THEN acked ELSE jobs

IInv == TypeOK /\ PlanInv /\ TriggersInv /\ LateInv /\ UsedInv /\ RunInv /\ FileInv

\* The next step of a handler, and what is left after it.
LEMMA PlanSteps ==
  ASSUME todo \in Plans, todo # <<>>
  PROVE  /\ Head(todo) = "save" =>
              \/ todo = <<"save", "schedule">> /\ Tail(todo) = <<"schedule">>
              \/ todo = <<"save", "unschedule", "schedule">> /\ Tail(todo) = <<"unschedule", "schedule">>
              \/ todo = <<"save", "unschedule">> /\ Tail(todo) = <<"unschedule">>
              \/ todo = SavePlan /\ Tail(todo) = <<>>
         /\ Head(todo) = "schedule" => todo = <<"schedule">> /\ Tail(todo) = <<>>
         /\ Head(todo) = "unschedule" =>
              \/ todo = <<"unschedule", "schedule">> /\ Tail(todo) = <<"schedule">>
              \/ todo = <<"unschedule">> /\ Tail(todo) = <<>>
              \/ todo = DeletePlan /\ Tail(todo) = RemovePlan
         /\ Head(todo) = "remove" => todo = RemovePlan /\ Tail(todo) = SavePlan
         /\ Head(todo) \in {"save", "schedule", "unschedule", "remove"}
<1> USE DEF DeletePlan, RemovePlan, SavePlan
<1>1. CASE todo = <<"save", "schedule">>
  BY <1>1
<1>2. CASE todo = <<"schedule">>
  BY <1>2
<1>3. CASE todo = <<"save", "unschedule", "schedule">>
  BY <1>3
<1>4. CASE todo = <<"unschedule", "schedule">>
  BY <1>4
<1>5. CASE todo = <<"save", "unschedule">>
  BY <1>5
<1>6. CASE todo = <<"unschedule">>
  BY <1>6
<1>7. CASE todo = DeletePlan
  BY <1>7
<1>8. CASE todo = RemovePlan
  BY <1>8
<1>9. CASE todo = SavePlan
  BY <1>9
<1> QED
  BY <1>1, <1>2, <1>3, <1>4, <1>5, <1>6, <1>7, <1>8, <1>9 DEF Plans, ScheduleNext, Replace, UnscheduleLast

\* Plans are sequences of at most three steps.
LEMMA PlanTypes == ASSUME NEW p \in Plans PROVE p \in Seq(Steps) /\ Len(p) <= 3
<1> USE DEF DeletePlan, RemovePlan, SavePlan, Steps
<1>1. CASE p = <<"save", "schedule">>
  BY <1>1
<1>2. CASE p = <<"schedule">>
  BY <1>2
<1>3. CASE p = <<"save", "unschedule", "schedule">>
  BY <1>3
<1>4. CASE p = <<"unschedule", "schedule">>
  BY <1>4
<1>5. CASE p = <<"save", "unschedule">>
  BY <1>5
<1>6. CASE p = <<"unschedule">>
  BY <1>6
<1>7. CASE p = DeletePlan
  BY <1>7
<1>8. CASE p = RemovePlan
  BY <1>8
<1>9. CASE p = SavePlan
  BY <1>9
<1>10. CASE p = <<>>
  BY <1>10
<1> QED
  BY <1>1, <1>2, <1>3, <1>4, <1>5, <1>6, <1>7, <1>8, <1>9, <1>10 DEF Plans, ScheduleNext, Replace, UnscheduleLast

\* A trigger is an expression the APScheduler accepts.
LEMMA TriggerFacts ==
  ASSUME NEW job \in Job \cup {None}
  PROVE  Trigger(job) \in Crons \cup {None}
  BY DEF Trigger, Job

\* What cannot be read counts for no schedule at all.
LEMMA LoadFacts ==
  ASSUME NEW f \in Table \cup {Torn}
  PROVE  /\ Load(f) \in Table
         /\ f # Torn => Load(f) = f
         /\ f = Torn => \A j \in Jobs : Load(f)[j] = None
  BY DEF Load, Table, Nothing

LEMMA InitIInv == Init => IInv
<1> SUFFICES ASSUME Init PROVE IInv
  OBVIOUS
<1>1. PICK f \in Table :
        Start(f) /\ used = {j \in Jobs : f[j] # None} /\ acked = f
  <2>1. ASSUME NEW j \in Jobs, NEW job \in Job PROVE [Nothing EXCEPT ![j] = job] \in Table
    BY DEF Nothing, Table
  <2>2. Nothing \in Table
    BY DEF Nothing, Table
  <2> QED
    BY <2>1, <2>2 DEF Init
<1>2. /\ due = [j \in Jobs |-> "no"] /\ todo = <<>> /\ cur = None
      /\ queue = <<>> /\ run = Idle
      /\ saved = TRUE /\ late = [j \in Jobs |-> 0]
      /\ changes = 0 /\ crashes = 0
  BY DEF Init
<1>3. f # Torn /\ jobs = f /\ file = f /\ timer = [j \in Jobs |-> Trigger(f[j])]
  BY <1>1, LoadFacts DEF Start
<1>4. TypeOK
  <2>1. timer \in [Jobs -> Crons \cup {None}]
    BY <1>1, <1>3, TriggerFacts DEF Table
  <2>2. todo \in Seq(Steps) /\ Len(todo) <= 3 /\ queue \in Seq(Runs) /\ Len(queue) <= MaxQueue
    BY <1>2
  <2>3. saved \in BOOLEAN
    BY <1>2
  <2> QED
    BY <1>1, <1>2, <1>3, <2>1, <2>2, <2>3 DEF TypeOK
<1>5. PlanInv
  BY <1>2 DEF PlanInv, Plans, ScheduleNext, Replace, UnscheduleLast, DeletePlan, RemovePlan, SavePlan
<1>6. TriggersInv /\ LateInv
  BY <1>1, <1>2, <1>3 DEF TriggersInv, LateInv
<1>7. UsedInv
  BY <1>1, <1>3 DEF UsedInv
<1>8. RunInv
  BY <1>2 DEF RunInv
<1>9. FileInv
  <2>1. todo \notin Unsaved
    BY <1>2 DEF Unsaved, DeletePlan, RemovePlan, SavePlan
  <2> QED
    BY <1>1, <1>2, <1>3, <2>1 DEF FileInv
<1> QED
  BY <1>4, <1>5, <1>6, <1>7, <1>8, <1>9 DEF IInv

-----------------------------------------------------------------------------
(* The handlers, and the two copies they keep.                               *)

\* The steps of Next that are no handler's and no restart leave the schedules alone.
Besides == \/ \E j \in Jobs : GoOff(j) \/ Lookup(j) \/ Enqueue(j) \/ TriggerNow(j)
           \/ TakeRun \/ BackUp \/ Retain \/ RunEnds \/ UNCHANGED vars

LEMMA BesidesFacts == Besides => UNCHANGED <<jobs, file, timer, handler, used, acked, saved, changes, crashes>>
  BY DEF Besides, GoOff, Lookup, Enqueue, TriggerNow, TakeRun, BackUp, Retain, RunEnds, vars, handler, ghosts

\* The first step of a handler changes its own schedule alone.
OthersStay(j) == jobs' \in Table /\ \A i \in Jobs \ {j} : jobs'[i] = jobs[i]

LEMMA CreateFacts ==
  ASSUME TypeOK, NEW j \in Jobs, Create(j)
  PROVE  /\ todo = <<>> /\ todo' = <<"save", "schedule">> /\ cur' = j
         /\ j \notin used /\ used' = used \cup {j}
         /\ OthersStay(j) /\ jobs'[j] \in Job /\ jobs'[j] # None /\ jobs'[j].enabled
         /\ UNCHANGED <<file, timer, due, queue, run, acked, saved, late, crashes>>
<1>1. PICK c \in Crons, p \in Pools : jobs' = [jobs EXCEPT ![j] = [cron |-> c, pool |-> p, enabled |-> TRUE]]
  BY DEF Create
<1>2. [cron |-> c, pool |-> p, enabled |-> TRUE] \in Job
  BY DEF Job
<1>3. jobs \in Table /\ jobs'[j] = [cron |-> c, pool |-> p, enabled |-> TRUE]
  BY <1>1 DEF TypeOK, Table
<1>4. jobs'[j].enabled = TRUE
  BY <1>3
<1>5. OthersStay(j)
  BY <1>1, <1>2, <1>3 DEF OthersStay, Table
<1>6. /\ todo = <<>> /\ todo' = <<"save", "schedule">> /\ cur' = j
      /\ j \notin used /\ used' = used \cup {j}
      /\ UNCHANGED <<file, timer, due, queue, run, acked, saved, late, crashes>>
  BY DEF Create, Call
<1> QED
  BY <1>2, <1>3, <1>4, <1>5, <1>6

LEMMA UpdateFacts ==
  ASSUME TypeOK, NEW j \in Jobs, Update(j)
  PROVE  /\ todo = <<>> /\ cur' = j
         /\ todo' = IF jobs[j].enabled THEN <<"save", "unschedule", "schedule">> ELSE <<"save", "unschedule">>
         /\ OthersStay(j) /\ jobs[j] \in Job /\ jobs'[j] \in Job /\ jobs'[j].enabled = jobs[j].enabled
         /\ run' = IF run.job = j THEN [run EXCEPT !.changed = TRUE] ELSE run
         /\ UNCHANGED <<file, timer, due, queue, used, acked, saved, late, crashes>>
<1>1. PICK c \in Crons, p \in Pools : jobs' = [jobs EXCEPT ![j].cron = c, ![j].pool = p]
  BY DEF Update
<1>2. jobs \in Table /\ jobs[j] \in Job
  BY DEF TypeOK, Table, Update
<1>3. jobs'[j] = [jobs[j] EXCEPT !.cron = c, !.pool = p]
  BY <1>1, <1>2 DEF Table
<1>4. jobs'[j] \in Job /\ jobs'[j].enabled = jobs[j].enabled
  BY <1>2, <1>3 DEF Job
<1>5. OthersStay(j)
  <2>1. \A i \in Jobs \ {j} : jobs'[i] = jobs[i]
    BY <1>1, <1>2 DEF Table
  <2>2. DOMAIN jobs' = Jobs /\ jobs' = [i \in Jobs |-> jobs'[i]]
    BY <1>1, <1>2 DEF Table
  <2> QED
    BY <1>2, <1>4, <2>1, <2>2 DEF OthersStay, Table
<1>6. /\ todo = <<>> /\ cur' = j
      /\ todo' = IF jobs[j].enabled THEN <<"save", "unschedule", "schedule">> ELSE <<"save", "unschedule">>
      /\ run' = IF run.job = j THEN [run EXCEPT !.changed = TRUE] ELSE run
      /\ UNCHANGED <<file, timer, due, queue, used, acked, saved, late, crashes>>
  BY DEF Update, Call
<1> QED
  BY <1>2, <1>4, <1>5, <1>6

LEMMA ToggleFacts ==
  ASSUME TypeOK, NEW j \in Jobs, Toggle(j)
  PROVE  /\ todo = <<>> /\ cur' = j
         /\ todo' = IF jobs[j].enabled THEN <<"save", "unschedule">> ELSE <<"save", "schedule">>
         /\ OthersStay(j) /\ jobs[j] \in Job
         /\ jobs'[j] = [jobs[j] EXCEPT !.enabled = ~jobs[j].enabled] /\ jobs'[j] \in Job
         /\ UNCHANGED <<file, timer, due, queue, run, used, acked, saved, late, crashes>>
<1>1. jobs \in Table /\ jobs[j] \in Job
  BY DEF TypeOK, Table, Toggle
<1>2. jobs' = [jobs EXCEPT ![j].enabled = ~jobs[j].enabled]
  BY <1>1 DEF Toggle, Table
<1>3. jobs'[j] = [jobs[j] EXCEPT !.enabled = ~jobs[j].enabled]
  BY <1>1, <1>2 DEF Table
<1>4. [jobs[j] EXCEPT !.enabled = ~jobs[j].enabled] \in Job
  <2> DEFINE b == ~jobs[j].enabled
  <2>1. b \in BOOLEAN
    OBVIOUS
  <2> HIDE DEF b
  <2>2. [jobs[j] EXCEPT !.enabled = b] \in Job
    BY <1>1, <2>1 DEF Job
  <2> QED
    BY <2>2 DEF b
<1>5. OthersStay(j)
  <2> DEFINE r == [jobs[j] EXCEPT !.enabled = ~jobs[j].enabled]
  <2>1. jobs' = [jobs EXCEPT ![j] = r]
    BY <1>1, <1>2 DEF Table
  <2>2. r \in Job
    BY <1>4
  <2> HIDE DEF r
  <2> QED
    BY <1>1, <2>1, <2>2 DEF OthersStay, Table
<1>6. /\ todo = <<>> /\ cur' = j
      /\ todo' = IF jobs[j].enabled THEN <<"save", "unschedule">> ELSE <<"save", "schedule">>
      /\ UNCHANGED <<file, timer, due, queue, run, used, acked, saved, late, crashes>>
  BY DEF Toggle, Call
<1> QED
  BY <1>1, <1>3, <1>4, <1>5, <1>6

LEMMA DeleteFacts ==
  ASSUME TypeOK, NEW j \in Jobs, Delete(j)
  PROVE  /\ todo = <<>> /\ todo' = DeletePlan /\ cur' = j
         /\ OthersStay(j) /\ jobs[j] # None /\ UNCHANGED jobs
         /\ UNCHANGED <<file, timer, due, queue, run, used, acked, saved, late, crashes>>
  BY DEF Delete, Call, DeletePlan, OthersStay, TypeOK

\* A call begins where no other is under way, and answers nothing yet.
LEMMA CallFacts ==
  ASSUME TypeOK, NEW j \in Jobs, Create(j) \/ Update(j) \/ Toggle(j) \/ Delete(j)
  PROVE  /\ todo = <<>> /\ todo' \in Unsaved /\ todo' # <<>> /\ cur' = j /\ OthersStay(j)
         /\ UNCHANGED <<file, timer, due, queue, acked, saved, late, crashes>>
         /\ changes' \in 0..MaxChanges
<1>1. \A p \in {<<"save", "schedule">>, <<"save", "unschedule", "schedule">>, <<"save", "unschedule">>, DeletePlan} :
        p \in Unsaved /\ p # <<>>
  BY DEF Unsaved, DeletePlan
<1>2. changes' \in 0..MaxChanges
  BY DEF Create, Update, Toggle, Delete, Call, TypeOK
<1>3. CASE Create(j)
  BY <1>1, <1>2, <1>3, CreateFacts
<1>4. CASE Update(j)
  <2>1. todo' \in {<<"save", "unschedule", "schedule">>, <<"save", "unschedule">>}
    BY <1>4, UpdateFacts
  <2> QED
    BY <1>1, <1>2, <1>4, <2>1, UpdateFacts
<1>5. CASE Toggle(j)
  <2>1. todo' \in {<<"save", "unschedule">>, <<"save", "schedule">>}
    BY <1>5, ToggleFacts
  <2> QED
    BY <1>1, <1>2, <1>5, <2>1, ToggleFacts
<1>6. CASE Delete(j)
  BY <1>1, <1>2, <1>6, DeleteFacts
<1> QED
  BY <1>3, <1>4, <1>5, <1>6

LEMMA NextPlan == ASSUME IInv, [Next]_vars PROVE PlanInv'
<1> USE DEF ScheduleNext, Replace, UnscheduleLast, DeletePlan, RemovePlan, SavePlan
<1>a. TypeOK /\ PlanInv /\ TriggersInv /\ UsedInv
  BY DEF IInv
<1>b. jobs \in Table /\ cur \in Jobs \cup {None}
  BY <1>a DEF TypeOK
<1>1. CASE Besides
  BY <1>a, <1>1, BesidesFacts DEF PlanInv, handler
<1>2. ASSUME NEW j \in Jobs, Create(j) PROVE PlanInv'
  <2>1. timer[j] = None
    BY <1>a, <1>2, CreateFacts DEF TriggersInv, Settled, UsedInv, Trigger
  <2> QED
    BY <1>a, <1>2, <2>1, CreateFacts DEF PlanInv, Plans
<1>3. ASSUME NEW j \in Jobs, Update(j) PROVE PlanInv'
  <2>1. j \in used
    BY <1>a, <1>3, UpdateFacts DEF UsedInv
  <2>2. jobs'[j] \in Job /\ jobs'[j].enabled = jobs[j].enabled /\ cur' = j /\ UNCHANGED used
    BY <1>a, <1>3, UpdateFacts
  <2>3. todo' = IF jobs[j].enabled THEN <<"save", "unschedule", "schedule">> ELSE <<"save", "unschedule">>
    BY <1>a, <1>3, UpdateFacts
  <2>4. CASE jobs[j].enabled
    BY <2>1, <2>2, <2>3, <2>4 DEF PlanInv, Plans
  <2>5. CASE ~jobs[j].enabled
    BY <2>1, <2>2, <2>3, <2>5 DEF PlanInv, Plans, Trigger
  <2> QED
    BY <2>4, <2>5
<1>4. ASSUME NEW j \in Jobs, Toggle(j) PROVE PlanInv'
  <2>1. j \in used /\ timer[j] = Trigger(jobs[j])
    BY <1>a, <1>4, ToggleFacts DEF UsedInv, TriggersInv, Settled
  <2>2. jobs[j] \in Job /\ jobs'[j] \in Job /\ jobs'[j].enabled = ~jobs[j].enabled
    BY <1>a, <1>4, ToggleFacts DEF Job
  <2>3. cur' = j /\ UNCHANGED <<used, timer>>
    BY <1>a, <1>4, ToggleFacts
  <2>4. todo' = IF jobs[j].enabled THEN <<"save", "unschedule">> ELSE <<"save", "schedule">>
    BY <1>a, <1>4, ToggleFacts
  <2>5. jobs[j].enabled \in BOOLEAN /\ jobs'[j].enabled \in BOOLEAN
    BY <2>2 DEF Job
  <2>6. CASE jobs[j].enabled
    BY <2>1, <2>2, <2>3, <2>4, <2>6 DEF PlanInv, Plans, Trigger
  <2>7. CASE ~jobs[j].enabled
    BY <2>1, <2>2, <2>3, <2>4, <2>7 DEF PlanInv, Plans, Trigger
  <2> QED
    BY <2>6, <2>7
<1>5. ASSUME NEW j \in Jobs, Delete(j) PROVE PlanInv'
  <2>1. todo' = DeletePlan /\ cur' = j /\ jobs[j] # None /\ UNCHANGED <<used, jobs>>
    BY <1>a, <1>5, DeleteFacts
  <2>2. /\ DeletePlan \in Plans /\ DeletePlan # <<>>
        /\ DeletePlan \notin ScheduleNext \cup Replace \cup UnscheduleLast
        /\ DeletePlan # RemovePlan /\ DeletePlan # SavePlan
    BY DEF Plans
  <2>3. j \in used
    BY <1>a, <2>1 DEF UsedInv
  <2> HIDE DEF DeletePlan, RemovePlan, SavePlan, ScheduleNext, Replace, UnscheduleLast
  <2> QED
    BY <2>1, <2>2, <2>3 DEF PlanInv
<1>6. CASE Save
  <2>1. /\ todo # <<>> /\ Head(todo) = "save" /\ todo' = Tail(todo) /\ UNCHANGED <<cur, jobs, timer, used>>
    BY <1>6 DEF Save, Continue
  <2>2. \/ todo = <<"save", "schedule">> /\ todo' = <<"schedule">>
        \/ todo = <<"save", "unschedule", "schedule">> /\ todo' = <<"unschedule", "schedule">>
        \/ todo = <<"save", "unschedule">> /\ todo' = <<"unschedule">>
        \/ todo = SavePlan /\ todo' = <<>>
    BY <1>a, <2>1, PlanSteps DEF PlanInv
  <2>3. CASE todo = <<"save", "schedule">> /\ todo' = <<"schedule">>
    BY <1>a, <2>1, <2>3 DEF PlanInv, Plans
  <2>4. CASE todo = <<"save", "unschedule", "schedule">> /\ todo' = <<"unschedule", "schedule">>
    BY <1>a, <2>1, <2>4 DEF PlanInv, Plans
  <2>5. CASE todo = <<"save", "unschedule">> /\ todo' = <<"unschedule">>
    BY <1>a, <2>1, <2>5 DEF PlanInv, Plans
  <2>6. CASE todo = SavePlan /\ todo' = <<>>
    BY <2>6 DEF PlanInv, Plans
  <2> QED
    BY <2>2, <2>3, <2>4, <2>5, <2>6
<1>7. CASE Schedule
  <2>1. todo # <<>> /\ Head(todo) = "schedule" /\ todo' = Tail(todo)
    BY <1>7 DEF Schedule, Continue
  <2>2. todo' = <<>>
    BY <1>a, <2>1, PlanSteps DEF PlanInv
  <2> QED
    BY <2>2 DEF PlanInv, Plans
<1>8. CASE Unschedule
  <2>1. /\ todo # <<>> /\ Head(todo) = "unschedule" /\ todo' = Tail(todo) /\ UNCHANGED <<cur, jobs, used>>
        /\ timer' = [timer EXCEPT ![cur] = None]
    BY <1>8 DEF Unschedule, Continue
  <2>2. \/ todo = <<"unschedule", "schedule">> /\ todo' = <<"schedule">>
        \/ todo = <<"unschedule">> /\ todo' = <<>>
        \/ todo = DeletePlan /\ todo' = RemovePlan
    BY <1>a, <2>1, PlanSteps DEF PlanInv
  <2>3. timer'[cur] = None
    BY <1>a, <2>1 DEF PlanInv, TypeOK
  <2>4. CASE todo = <<"unschedule", "schedule">> /\ todo' = <<"schedule">>
    BY <1>a, <2>1, <2>3, <2>4 DEF PlanInv, Plans
  <2>5. CASE todo = <<"unschedule">> /\ todo' = <<>>
    BY <2>5 DEF PlanInv, Plans
  <2>6. CASE todo = DeletePlan /\ todo' = RemovePlan
    BY <1>a, <2>1, <2>3, <2>6 DEF PlanInv, Plans
  <2> QED
    BY <2>2, <2>4, <2>5, <2>6
<1>9. CASE RemoveJob
  <2>1. /\ todo # <<>> /\ Head(todo) = "remove" /\ todo' = Tail(todo) /\ UNCHANGED <<cur, timer, used>>
        /\ jobs' = [jobs EXCEPT ![cur] = None]
    BY <1>9 DEF RemoveJob, Continue
  <2>2. todo = RemovePlan /\ todo' = SavePlan
    BY <1>a, <2>1, PlanSteps DEF PlanInv
  <2>3. jobs'[cur] = None
    BY <1>a, <2>1 DEF PlanInv, TypeOK, Table
  <2> QED
    BY <1>a, <2>1, <2>2, <2>3 DEF PlanInv, Plans
<1>10. CASE Restart
  <2>1. todo' = <<>>
    BY <1>10 DEF Restart
  <2> QED
    BY <2>1 DEF PlanInv, Plans
<1> QED
  BY <1>1, <1>2, <1>3, <1>4, <1>5, <1>6, <1>7, <1>8, <1>9, <1>10 DEF Next, Besides

\* A later step of a handler: which it is, what is left after it, and that it
\* changes the schedule of the call alone.
LEMMA ContinueFacts ==
  ASSUME TypeOK, PlanInv, Save \/ Schedule \/ Unschedule \/ RemoveJob
  PROVE  /\ todo # <<>> /\ cur \in Jobs /\ OthersStay(cur)
         /\ \A i \in Jobs \ {cur} : timer'[i] = timer[i]
         /\ timer' \in [Jobs -> Crons \cup {None}]
         /\ acked' = IF todo' = <<>> THEN jobs ELSE acked
         /\ late' = IF todo' = <<>> THEN [late EXCEPT ![cur] = 0] ELSE late
         /\ UNCHANGED <<due, cur, queue, used, changes, crashes>>
<1>1. /\ todo # <<>>
      /\ acked' = IF todo' = <<>> THEN jobs ELSE acked
      /\ late' = IF todo' = <<>> THEN [late EXCEPT ![cur] = 0] ELSE late
      /\ UNCHANGED <<due, cur, queue, used, changes, crashes>>
  BY DEF Save, Schedule, Unschedule, RemoveJob, Continue
<1>2. cur \in Jobs
  BY <1>1 DEF PlanInv, TypeOK
<1>3. jobs \in Table /\ timer \in [Jobs -> Crons \cup {None}]
  BY DEF TypeOK
<1>4. OthersStay(cur)
  BY <1>2, <1>3 DEF OthersStay, Save, Schedule, Unschedule, RemoveJob, Table
<1>5. /\ \A i \in Jobs \ {cur} : timer'[i] = timer[i]
      /\ timer' \in [Jobs -> Crons \cup {None}]
  <2>1. CASE Schedule
    <3>1. Trigger(jobs[cur]) \in Crons \cup {None}
      BY <1>2, <1>3, TriggerFacts DEF Table
    <3>2. PICK t \in Crons \cup {None} : timer' = [timer EXCEPT ![cur] = t]
      BY <1>2, <1>3, <2>1, <3>1 DEF Schedule
    <3> QED
      BY <1>2, <1>3, <3>2
  <2>2. CASE Save \/ Unschedule \/ RemoveJob
    BY <1>2, <1>3, <2>2 DEF Save, Unschedule, RemoveJob
  <2> QED
    BY <2>1, <2>2
<1> QED
  BY <1>1, <1>2, <1>4, <1>5

\* Between two calls the triggers are those of the schedules: when a handler
\* answers, its plan has seen to that.
LEMMA NextTriggers == ASSUME IInv, [Next]_vars PROVE TriggersInv'
<1>a. TypeOK /\ PlanInv /\ TriggersInv
  BY DEF IInv
<1>1. CASE Besides
  BY <1>a, <1>1, BesidesFacts DEF TriggersInv, Settled, handler
<1>2. ASSUME NEW j \in Jobs, Create(j) \/ Update(j) \/ Toggle(j) \/ Delete(j) PROVE TriggersInv'
  BY <1>a, <1>2, CallFacts DEF TriggersInv, Settled, OthersStay
<1>3. CASE Save \/ Schedule \/ Unschedule \/ RemoveJob
  <2>1. ASSUME NEW i \in Jobs, i # cur PROVE timer'[i] = Trigger(jobs'[i])
    BY <1>a, <1>3, <2>1, ContinueFacts DEF TriggersInv, Settled, OthersStay
  <2>2. cur \in Jobs /\ cur' = cur
    BY <1>a, <1>3, ContinueFacts
  <2>3. ASSUME todo' = <<>> PROVE timer'[cur] = Trigger(jobs'[cur])
    <3>1. CASE Save
      <4>1. todo # <<>> /\ Head(todo) = "save" /\ todo' = Tail(todo) /\ UNCHANGED <<jobs, timer>>
        BY <3>1 DEF Save, Continue
      <4>2. todo = SavePlan
        BY <1>a, <2>3, <4>1, PlanSteps DEF PlanInv
      <4> QED
        BY <1>a, <4>1, <4>2 DEF PlanInv, Trigger
    <3>2. CASE Schedule
      <4>1. todo # <<>> /\ Head(todo) = "schedule" /\ UNCHANGED jobs
        BY <3>2 DEF Schedule, Continue
      <4>2. todo = <<"schedule">>
        BY <1>a, <4>1, PlanSteps DEF PlanInv
      <4>3. timer[cur] = None
        BY <1>a, <4>2 DEF PlanInv, ScheduleNext
      <4>4. timer'[cur] = IF Trigger(jobs[cur]) = None THEN timer[cur] ELSE Trigger(jobs[cur])
        BY <1>a, <2>2, <3>2 DEF Schedule, TypeOK
      <4> QED
        BY <4>1, <4>3, <4>4
    <3>3. CASE Unschedule
      <4>1. todo # <<>> /\ Head(todo) = "unschedule" /\ todo' = Tail(todo) /\ UNCHANGED jobs
        BY <3>3 DEF Unschedule, Continue
      <4>2. todo = <<"unschedule">>
        BY <1>a, <2>3, <4>1, PlanSteps DEF PlanInv, RemovePlan
      <4>3. Trigger(jobs[cur]) = None
        BY <1>a, <4>2 DEF PlanInv, UnscheduleLast
      <4>4. timer'[cur] = None
        BY <1>a, <2>2, <3>3 DEF Unschedule, TypeOK
      <4> QED
        BY <4>1, <4>3, <4>4
    <3>4. CASE RemoveJob
      <4>1. todo # <<>> /\ Head(todo) = "remove" /\ todo' = Tail(todo)
        BY <3>4 DEF RemoveJob, Continue
      <4> QED
        BY <1>a, <2>3, <4>1, PlanSteps DEF PlanInv, SavePlan
    <3> QED
      BY <1>3, <3>1, <3>2, <3>3, <3>4
  <2> QED
    BY <2>1, <2>2, <2>3 DEF TriggersInv, Settled
<1>4. CASE Restart
  BY <1>4 DEF Restart, TriggersInv
<1> QED
  BY <1>1, <1>2, <1>3, <1>4 DEF Next, Besides

\* A thread that looked its schedule up may queue one run after the schedule has
\* lost its trigger; without a trigger, no second one sets out.
LEMMA NextLate == ASSUME IInv, [Next]_vars PROVE LateInv'
<1>a. TypeOK /\ PlanInv /\ LateInv
  BY DEF IInv
<1>b. late \in [Jobs -> 0..2] /\ due \in [Jobs -> {"no", "due", "found"}]
  BY <1>a DEF TypeOK
<1>1. CASE UNCHANGED <<timer, handler, due, late>>
  BY <1>a, <1>1 DEF LateInv, Settled, handler
<1>2. ASSUME NEW j \in Jobs, GoOff(j) PROVE LateInv'
  BY <1>a, <1>b, <1>2 DEF GoOff, LateInv, Settled, handler, ghosts
<1>3. ASSUME NEW j \in Jobs, Lookup(j) PROVE LateInv'
  BY <1>a, <1>b, <1>3 DEF Lookup, LateInv, Settled, handler, ghosts
<1>4. ASSUME NEW j \in Jobs, Enqueue(j) PROVE LateInv'
  <2>1. /\ due[j] = "found" /\ due' = [due EXCEPT ![j] = "no"]
        /\ late' = [late EXCEPT ![j] = IF late[j] = 2 THEN 2 ELSE late[j] + 1]
        /\ UNCHANGED <<timer, todo, cur>>
    BY <1>b, <1>4 DEF Enqueue, handler
  <2>2. ASSUME NEW i \in Jobs, i # j PROVE late'[i] = late[i] /\ due'[i] = due[i]
    BY <1>b, <2>1, <2>2
  <2>3. ASSUME late[j] = 0 PROVE late'[j] = 1 /\ due'[j] = "no"
    BY <1>b, <2>1, <2>3
  <2> QED
    BY <1>a, <2>1, <2>2, <2>3 DEF LateInv, Settled
<1>5. ASSUME NEW j \in Jobs, Create(j) \/ Update(j) \/ Toggle(j) \/ Delete(j) PROVE LateInv'
  BY <1>a, <1>5, CallFacts DEF LateInv, Settled
<1>6. CASE Save \/ Schedule \/ Unschedule \/ RemoveJob
  <2>1. ASSUME NEW i \in Jobs, i # cur
        PROVE  /\ todo # <<>> /\ cur' = cur
               /\ timer'[i] = timer[i] /\ late'[i] = late[i] /\ due'[i] = due[i]
    BY <1>a, <1>b, <1>6, <2>1, ContinueFacts
  <2>2. cur \in Jobs /\ cur' = cur /\ (todo' = <<>> => late'[cur] = 0)
    BY <1>a, <1>b, <1>6, ContinueFacts
  <2>3. ASSUME NEW i \in Jobs, i # cur, timer'[i] = None
        PROVE  IF due'[i] = "no" THEN late'[i] <= 1 ELSE late'[i] = 0
    <3>1. Settled(i) /\ timer[i] = None
      BY <2>1, <2>3 DEF Settled
    <3> QED
      BY <1>a, <2>1, <2>3, <3>1 DEF LateInv
  <2>4. ASSUME NEW i \in Jobs, Settled(i)', timer'[i] = None
        PROVE  IF due'[i] = "no" THEN late'[i] <= 1 ELSE late'[i] = 0
    <3>1. CASE i = cur
      <4>1. late'[cur] = 0
        BY <2>2, <2>4, <3>1 DEF Settled
      <4> QED
        BY <3>1, <4>1
    <3>2. CASE i # cur
      BY <2>3, <2>4, <3>2
    <3> QED
      BY <3>1, <3>2
  <2> QED
    BY <2>4 DEF LateInv
<1>7. CASE Restart
  BY <1>7 DEF Restart, LateInv
<1>8. CASE UNCHANGED vars \/ (\E j \in Jobs : TriggerNow(j)) \/ TakeRun \/ BackUp \/ Retain \/ RunEnds
  BY <1>1, <1>8 DEF vars, TriggerNow, TakeRun, BackUp, Retain, RunEnds, ghosts
<1> QED
  BY <1>2, <1>3, <1>4, <1>5, <1>6, <1>7, <1>8 DEF Next

\* A schedule that is kept anywhere has been created: its id is not given out again.
LEMMA NextUsed == ASSUME IInv, [Next]_vars PROVE UsedInv'
<1>a. TypeOK /\ PlanInv /\ UsedInv
  BY DEF IInv
<1>1. CASE Besides
  BY <1>a, <1>1, BesidesFacts DEF UsedInv
<1>2. ASSUME NEW j \in Jobs, Create(j) \/ Update(j) \/ Toggle(j) \/ Delete(j) PROVE UsedInv'
  <2>1. \A i \in Jobs : jobs'[i] # None => jobs[i] # None \/ i = j
    BY <1>a, <1>2, CallFacts DEF OthersStay
  <2>2. used \subseteq used' /\ j \in used' /\ UNCHANGED file
    BY <1>a, <1>2, CreateFacts, UpdateFacts, ToggleFacts, DeleteFacts DEF UsedInv, Update, Toggle, Delete
  <2> QED
    BY <1>a, <2>1, <2>2 DEF UsedInv
<1>3. CASE Save \/ Schedule \/ Unschedule \/ RemoveJob
  <2>1. file' \in {file, jobs, Torn} /\ UNCHANGED used
    BY <1>3 DEF Save, Schedule, Unschedule, RemoveJob, Continue
  <2>2. \A i \in Jobs : jobs'[i] # None => jobs[i] # None
    <3>1. jobs' = jobs \/ jobs' = [jobs EXCEPT ![cur] = None]
      BY <1>3 DEF Save, Schedule, Unschedule, RemoveJob
    <3> QED
      BY <1>a, <3>1 DEF TypeOK, Table
  <2>3. file' # Torn => \A i \in Jobs : file'[i] # None => i \in used
    BY <1>a, <2>1 DEF UsedInv
  <2> QED
    BY <1>a, <2>1, <2>2, <2>3 DEF UsedInv
<1>4. CASE Restart
  <2>1. file' \in {file, Torn} /\ jobs' = Load(file') /\ UNCHANGED used
    BY <1>4 DEF Restart
  <2>2. file' \in Table \cup {Torn}
    BY <1>a, <2>1 DEF TypeOK
  <2> QED
    BY <1>a, <2>1, <2>2, LoadFacts DEF UsedInv
<1> QED
  BY <1>1, <1>2, <1>3, <1>4 DEF Next, Besides

\* The run in the worker holds its schedule through every change of it, and has it
\* still when it is deleted.
LEMMA NextRun == ASSUME IInv, [Next]_vars PROVE RunInv'
<1> DEFINE RunRec == [job : Jobs, last : Job \cup {None}, into : Pools \cup {None}, shown : Pools, changed : BOOLEAN]
<1>a. TypeOK /\ PlanInv /\ UsedInv /\ RunInv
  BY DEF IInv
<1>b. jobs \in Table /\ used \subseteq Jobs /\ queue \in Seq(Runs)
  BY <1>a DEF TypeOK
<1>c. ASSUME run # Idle
      PROVE  /\ run \in RunRec /\ run.job \in Jobs /\ run.job \in used /\ Held \in Job
             /\ run.into # None /\ ~run.changed => Held.pool = run.into
  BY <1>a, <1>c DEF RunInv
<1>0. ASSUME UNCHANGED run, used \subseteq used', run # Idle => Held' \in Job /\ Held'.pool = Held.pool
      PROVE  RunInv'
  BY <1>0, <1>c DEF RunInv
<1>1. CASE UNCHANGED <<run, jobs, used>>
  <2>1. Held' = Held
    BY <1>1 DEF Held
  <2> QED
    BY <1>0, <1>1, <1>c, <2>1
<1>2. ASSUME NEW j \in Jobs, Create(j) PROVE RunInv'
  <2>1. /\ UNCHANGED run /\ used' = used \cup {j} /\ j \notin used
        /\ \A i \in Jobs \ {j} : jobs'[i] = jobs[i]
    BY <1>a, <1>2, CreateFacts DEF OthersStay
  <2>2. run # Idle => Held' = Held
    BY <1>c, <2>1 DEF Held
  <2> QED
    BY <1>0, <1>c, <2>1, <2>2
<1>3. ASSUME NEW j \in Jobs, Update(j) PROVE RunInv'
  <2>1. /\ run' = IF run.job = j THEN [run EXCEPT !.changed = TRUE] ELSE run
        /\ UNCHANGED used /\ jobs'[j] \in Job /\ jobs[j] \in Job
        /\ \A i \in Jobs \ {j} : jobs'[i] = jobs[i]
    BY <1>a, <1>3, UpdateFacts DEF OthersStay
  <2>2. CASE run.job = j
    <3>1. run # Idle
      BY <2>2 DEF Idle
    <3>2. run' = [run EXCEPT !.changed = TRUE] /\ run' \in RunRec /\ run'.job = j /\ run'.changed = TRUE
      BY <1>c, <2>1, <2>2, <3>1
    <3>3. Held' = jobs'[j]
      BY <2>1, <3>2 DEF Held
    <3> QED
      BY <1>c, <2>1, <2>2, <3>1, <3>2, <3>3 DEF RunInv
  <2>3. CASE run.job # j
    <3>1. run # Idle => Held' = Held
      BY <1>c, <2>1, <2>3 DEF Held
    <3> QED
      BY <1>0, <1>c, <2>1, <2>3, <3>1
  <2> QED
    BY <2>2, <2>3
<1>4. ASSUME NEW j \in Jobs, Toggle(j) PROVE RunInv'
  <2>1. /\ UNCHANGED <<run, used>> /\ jobs'[j] \in Job /\ jobs[j] \in Job
        /\ jobs'[j] = [jobs[j] EXCEPT !.enabled = ~jobs[j].enabled]
        /\ \A i \in Jobs \ {j} : jobs'[i] = jobs[i]
    BY <1>a, <1>4, ToggleFacts DEF OthersStay
  <2>2. jobs'[j].pool = jobs[j].pool
    BY <2>1 DEF Job
  <2>3. run # Idle => Held' \in Job /\ Held'.pool = Held.pool
    BY <1>c, <2>1, <2>2 DEF Held
  <2> QED
    BY <1>0, <2>1, <2>3
<1>5. CASE RemoveJob
  <2>1. /\ jobs' = [jobs EXCEPT ![cur] = None] /\ UNCHANGED used
        /\ run' = IF run.job = cur THEN [run EXCEPT !.last = jobs[cur]] ELSE run
        /\ todo # <<>> /\ Head(todo) = "remove"
    BY <1>5 DEF RemoveJob, Continue
  <2>2. todo = RemovePlan /\ cur \in Jobs
    BY <1>a, <1>5, <2>1, PlanSteps, ContinueFacts DEF PlanInv
  <2>3. jobs[cur] # None /\ jobs[cur] \in Job /\ jobs'[cur] = None
    BY <1>a, <1>b, <2>1, <2>2 DEF PlanInv, Table
  <2>4. CASE run.job = cur
    <3>1. run # Idle
      BY <2>2, <2>4 DEF Idle
    <3>2. /\ run' = [run EXCEPT !.last = jobs[cur]] /\ run' \in RunRec
          /\ run'.job = cur /\ run'.last = jobs[cur] /\ run'.into = run.into /\ run'.changed = run.changed
      BY <1>c, <2>1, <2>3, <2>4, <3>1
    <3>3. Held = jobs[cur] /\ Held' = jobs[cur]
      BY <2>3, <2>4, <3>2 DEF Held
    <3> QED
      BY <1>c, <2>1, <2>3, <3>1, <3>2, <3>3 DEF RunInv
  <2>5. CASE run.job # cur
    <3>1. run # Idle => Held' = Held
      BY <1>b, <1>c, <2>1, <2>5 DEF Held, Table
    <3> QED
      BY <1>0, <1>c, <2>1, <2>5, <3>1
  <2> QED
    BY <2>4, <2>5
<1>6. CASE TakeRun
  <2>1. /\ queue # <<>> /\ UNCHANGED <<jobs, used>>
        /\ run' = IF jobs[Head(queue).job] = None THEN Idle
                  ELSE [job |-> Head(queue).job, last |-> None, into |-> None,
                        shown |-> Head(queue).pool, changed |-> FALSE]
    BY <1>6 DEF TakeRun, ghosts
  <2>2. Head(queue).job \in Jobs /\ Head(queue).pool \in Pools
    <3>1. Head(queue) \in Runs
      BY <1>b, <2>1
    <3> QED
      BY <3>1 DEF Runs
  <2>3. CASE jobs[Head(queue).job] # None
    <3> DEFINE j == Head(queue).job
    <3>1. run' \in RunRec /\ run'.job = j /\ run'.into = None
      BY <2>1, <2>2, <2>3
    <3>2. j \in used /\ jobs[j] \in Job
      BY <1>a, <1>b, <2>2, <2>3 DEF UsedInv, Table
    <3>3. Held' = jobs[j]
      BY <2>1, <2>3, <3>1 DEF Held
    <3> QED
      BY <2>1, <3>1, <3>2, <3>3 DEF RunInv
  <2>4. CASE jobs[Head(queue).job] = None
    BY <2>1, <2>4 DEF RunInv, Idle
  <2> QED
    BY <2>3, <2>4
<1>7. CASE BackUp
  <2>1. run # Idle /\ run' = [run EXCEPT !.into = Held.pool] /\ UNCHANGED <<jobs, used>>
    BY <1>7 DEF BackUp, ghosts
  <2>2. Held.pool \in Pools
    BY <1>c, <2>1 DEF Job
  <2>3. /\ run' \in RunRec /\ run'.job = run.job /\ run'.last = run.last /\ run'.into = Held.pool
    BY <1>c, <2>1, <2>2
  <2>4. Held' = Held
    BY <2>1, <2>3 DEF Held
  <2> QED
    BY <1>c, <2>1, <2>3, <2>4 DEF RunInv
<1>8. CASE Retain
  <2>1. run # Idle /\ run' = [run EXCEPT !.into = None] /\ UNCHANGED <<jobs, used>>
    BY <1>8 DEF Retain, ghosts
  <2>2. /\ run' \in RunRec /\ run'.job = run.job /\ run'.last = run.last /\ run'.into = None
    BY <1>c, <2>1
  <2>3. Held' = Held
    BY <2>1, <2>2 DEF Held
  <2> QED
    BY <1>c, <2>1, <2>2, <2>3 DEF RunInv
<1>9. CASE RunEnds \/ Restart
  BY <1>9 DEF RunEnds, Restart, RunInv, Idle
<1>10. CASE UNCHANGED vars \/ Save \/ Schedule \/ Unschedule
  BY <1>1, <1>10 DEF vars, ghosts, Save, Schedule, Unschedule, Continue
<1>11. ASSUME NEW j \in Jobs, Delete(j) \/ GoOff(j) \/ Lookup(j) \/ Enqueue(j) \/ TriggerNow(j) PROVE RunInv'
  BY <1>1, <1>11 DEF Delete, GoOff, Lookup, Enqueue, TriggerNow, ghosts
<1> QED
  BY <1>2, <1>3, <1>4, <1>5, <1>6, <1>7, <1>8, <1>9, <1>10, <1>11 DEF Next

\* The file has the schedules as of the last answer until a _save has worked, and
\* those in memory from then on.
LEMMA NextFile == ASSUME IInv, [Next]_vars PROVE FileInv'
<1> USE DEF DeletePlan, RemovePlan, SavePlan
<1>a. TypeOK /\ PlanInv /\ FileInv
  BY DEF IInv
<1>b. ~(<<>> \in Unsaved) /\ ~(<<"schedule">> \in Unsaved) /\ ~(<<"unschedule">> \in Unsaved)
      /\ ~(<<"unschedule", "schedule">> \in Unsaved)
  BY DEF Unsaved
<1>c. RemovePlan \in Unsaved /\ SavePlan \in Unsaved /\ DeletePlan \in Unsaved
  BY DEF Unsaved
<1>1. CASE Besides
  BY <1>a, <1>1, BesidesFacts DEF FileInv, handler
<1>2. ASSUME NEW j \in Jobs, Create(j) \/ Update(j) \/ Toggle(j) \/ Delete(j) PROVE FileInv'
  <2>1. todo = <<>> /\ todo' \in Unsaved /\ todo' # <<>> /\ UNCHANGED <<file, acked, saved>>
    BY <1>a, <1>2, CallFacts
  <2> QED
    BY <1>a, <1>b, <2>1 DEF FileInv
<1>3. CASE Save
  <2>1. /\ todo # <<>> /\ Head(todo) = "save" /\ todo' = Tail(todo) /\ UNCHANGED jobs
        /\ saved' => file' = jobs
    BY <1>3 DEF Save, Continue
  <2>2. ~(todo' \in Unsaved)
    BY <1>a, <1>b, <2>1, PlanSteps DEF PlanInv
  <2>3. todo' = <<>> => acked' = jobs
    BY <1>a, <1>3, ContinueFacts
  <2> QED
    BY <2>1, <2>2, <2>3 DEF FileInv
<1>4. CASE Schedule
  <2>1. todo # <<>> /\ Head(todo) = "schedule" /\ todo' = Tail(todo) /\ UNCHANGED <<jobs, file, saved>>
    BY <1>4 DEF Schedule, Continue
  <2>2. todo = <<"schedule">> /\ todo' = <<>>
    BY <1>a, <2>1, PlanSteps DEF PlanInv
  <2>3. acked' = jobs
    BY <1>a, <1>4, <2>2, ContinueFacts
  <2> QED
    BY <1>a, <1>b, <2>1, <2>2, <2>3 DEF FileInv
<1>5. CASE Unschedule
  <2>1. todo # <<>> /\ Head(todo) = "unschedule" /\ todo' = Tail(todo) /\ UNCHANGED <<jobs, file, saved>>
    BY <1>5 DEF Unschedule, Continue
  <2>2. \/ todo \notin Unsaved /\ todo' \notin Unsaved
        \/ todo \in Unsaved /\ todo' \in Unsaved /\ todo' # <<>>
    <3>1. \/ todo = <<"unschedule", "schedule">> /\ todo' = <<"schedule">>
          \/ todo = <<"unschedule">> /\ todo' = <<>>
          \/ todo = DeletePlan /\ todo' = RemovePlan
      BY <1>a, <2>1, PlanSteps DEF PlanInv
    <3>2. RemovePlan # <<>>
      OBVIOUS
    <3> HIDE DEF DeletePlan, RemovePlan, SavePlan
    <3> QED
      BY <1>b, <1>c, <3>1, <3>2
  <2>3. acked' = IF todo' = <<>> THEN jobs ELSE acked
    BY <1>a, <1>5, ContinueFacts
  <2> QED
    BY <1>a, <2>1, <2>2, <2>3 DEF FileInv
<1>6. CASE RemoveJob
  <2>1. todo # <<>> /\ Head(todo) = "remove" /\ todo' = Tail(todo) /\ UNCHANGED <<file, saved>>
    BY <1>6 DEF RemoveJob, Continue
  <2>2. todo = RemovePlan /\ todo' = SavePlan
    BY <1>a, <2>1, PlanSteps DEF PlanInv
  <2>3. todo' # <<>>
    BY <2>2
  <2>4. acked' = acked
    BY <1>a, <1>6, <2>3, ContinueFacts
  <2> HIDE DEF DeletePlan, RemovePlan, SavePlan
  <2> QED
    BY <1>a, <1>c, <2>1, <2>2, <2>3, <2>4 DEF FileInv
<1>7. CASE Restart
  <2>1. file' \in {file, Torn} /\ jobs' = Load(file') /\ acked' = jobs' /\ todo' = <<>>
    BY <1>7 DEF Restart
  <2>2. file' # Torn => jobs' = file'
    BY <1>a, <2>1, LoadFacts DEF TypeOK
  <2> QED
    BY <1>b, <2>1, <2>2 DEF FileInv
<1> QED
  BY <1>1, <1>2, <1>3, <1>4, <1>5, <1>6, <1>7 DEF Next, Besides

\* The counters of runs, the threads of the triggers and the queue keep their types.
LEMMA NextQueues ==
  ASSUME IInv, [Next]_vars
  PROVE  /\ due' \in [Jobs -> {"no", "due", "found"}]
         /\ queue' \in Seq(Runs) /\ Len(queue') <= MaxQueue
         /\ late' \in [Jobs -> 0..2]
<1>a. /\ jobs \in Table /\ due \in [Jobs -> {"no", "due", "found"}]
      /\ queue \in Seq(Runs) /\ Len(queue) <= MaxQueue /\ late \in [Jobs -> 0..2]
  BY DEF IInv, TypeOK
<1>b. TypeOK /\ PlanInv
  BY DEF IInv
<1>1. CASE UNCHANGED <<due, queue, late>>
  BY <1>a, <1>1
<1>2. ASSUME NEW j \in Jobs, Create(j) \/ Update(j) \/ Toggle(j) \/ Delete(j) PROVE UNCHANGED <<due, queue, late>>
  BY <1>b, <1>2, CallFacts
<1>3. CASE Save \/ Schedule \/ Unschedule \/ RemoveJob
  <2>1. /\ cur \in Jobs /\ UNCHANGED <<due, queue>>
        /\ late' = IF todo' = <<>> THEN [late EXCEPT ![cur] = 0] ELSE late
    BY <1>b, <1>3, ContinueFacts
  <2> QED
    BY <1>a, <2>1
<1>4. ASSUME NEW j \in Jobs, GoOff(j) \/ Lookup(j) PROVE due' \in [Jobs -> {"no", "due", "found"}] /\ UNCHANGED <<queue, late>>
  BY <1>a, <1>4 DEF GoOff, Lookup, ghosts
<1>5. ASSUME NEW j \in Jobs, Enqueue(j)
      PROVE  /\ due' \in [Jobs -> {"no", "due", "found"}]
             /\ queue' \in Seq(Runs) /\ Len(queue') <= MaxQueue
             /\ late' \in [Jobs -> 0..2]
  <2>1. /\ Len(queue) < MaxQueue /\ due' = [due EXCEPT ![j] = "no"]
        /\ late' = [late EXCEPT ![j] = IF late[j] = 2 THEN 2 ELSE late[j] + 1]
    BY <1>a, <1>5 DEF Enqueue
  <2>2. PICK p \in Pools : queue' = Append(queue, [job |-> j, pool |-> p])
    <3>1. jobs[j] # None => jobs[j].pool \in Pools
      BY <1>a DEF Table, Job
    <3> QED
      BY <1>5, <3>1 DEF Enqueue
  <2>3. [job |-> j, pool |-> p] \in Runs
    BY DEF Runs
  <2>4. queue' \in Seq(Runs) /\ Len(queue') = Len(queue) + 1
    BY <1>a, <2>2, <2>3
  <2>5. late[j] \in 0..2
    BY <1>a
  <2>6. (IF late[j] = 2 THEN 2 ELSE late[j] + 1) \in 0..2
    BY <2>5
  <2>7. Len(queue) \in Nat
    BY <1>a
  <2> QED
    BY <1>a, <2>1, <2>4, <2>6, <2>7
<1>6. ASSUME NEW j \in Jobs, TriggerNow(j)
      PROVE  UNCHANGED <<due, late>> /\ queue' \in Seq(Runs) /\ Len(queue') <= MaxQueue
  <2>1. /\ Len(queue) < MaxQueue /\ jobs[j] # None /\ UNCHANGED <<due, late>>
        /\ queue' = Append(queue, [job |-> j, pool |-> jobs[j].pool])
    BY <1>6 DEF TriggerNow, ghosts
  <2>2. [job |-> j, pool |-> jobs[j].pool] \in Runs
    BY <1>a, <2>1 DEF Runs, Table, Job
  <2>3. queue' \in Seq(Runs) /\ Len(queue') = Len(queue) + 1
    BY <1>a, <2>1, <2>2
  <2>4. Len(queue) \in Nat
    BY <1>a
  <2> QED
    BY <2>1, <2>3, <2>4
<1>7. CASE TakeRun
  <2>1. queue # <<>> /\ queue' = Tail(queue) /\ UNCHANGED <<due, late>>
    BY <1>7 DEF TakeRun, ghosts
  <2>2. queue' \in Seq(Runs) /\ Len(queue') = Len(queue) - 1
    BY <1>a, <2>1
  <2>3. Len(queue) \in Nat
    BY <1>a
  <2> QED
    BY <1>a, <2>1, <2>2, <2>3
<1>8. CASE Restart
  BY <1>8 DEF Restart
<1>9. CASE UNCHANGED vars \/ BackUp \/ Retain \/ RunEnds
  BY <1>1, <1>9 DEF vars, BackUp, Retain, RunEnds, ghosts
<1> QED
  BY <1>a, <1>1, <1>2, <1>3, <1>4, <1>5, <1>6, <1>7, <1>8, <1>9 DEF Next

\* So do the schedules, the file and the bounds.
LEMMA NextTables ==
  ASSUME IInv, [Next]_vars
  PROVE  /\ jobs' \in Table /\ file' \in Table \cup {Torn} /\ acked' \in Table
         /\ timer' \in [Jobs -> Crons \cup {None}]
         /\ cur' \in Jobs \cup {None}
         /\ used' \subseteq Jobs /\ saved' \in BOOLEAN
         /\ changes' \in 0..MaxChanges /\ crashes' \in 0..MaxCrashes
<1>a. TypeOK /\ PlanInv
  BY DEF IInv
<1>b. /\ jobs \in Table /\ file \in Table \cup {Torn} /\ acked \in Table
      /\ timer \in [Jobs -> Crons \cup {None}]
      /\ cur \in Jobs \cup {None}
      /\ used \subseteq Jobs /\ saved \in BOOLEAN
      /\ changes \in 0..MaxChanges /\ crashes \in 0..MaxCrashes
  BY <1>a DEF TypeOK
<1>1. CASE Besides
  BY <1>b, <1>1, BesidesFacts DEF handler
<1>2. ASSUME NEW j \in Jobs, Create(j) \/ Update(j) \/ Toggle(j) \/ Delete(j)
      PROVE  /\ jobs' \in Table /\ used' \subseteq Jobs /\ cur' = j /\ changes' \in 0..MaxChanges
             /\ UNCHANGED <<file, timer, acked, saved, crashes>>
  BY <1>a, <1>b, <1>2, CallFacts DEF OthersStay, Create, Update, Toggle, Delete
<1>3. CASE Save \/ Schedule \/ Unschedule \/ RemoveJob
  <2>1. /\ jobs' \in Table /\ timer' \in [Jobs -> Crons \cup {None}] /\ acked' \in {jobs, acked}
        /\ UNCHANGED <<cur, used, changes, crashes>>
    BY <1>a, <1>3, ContinueFacts DEF OthersStay
  <2>2. file' \in {file, jobs, Torn}
    BY <1>3 DEF Save, Schedule, Unschedule, RemoveJob
  <2>3. saved' \in BOOLEAN
    BY <1>b, <1>3 DEF Save, Schedule, Unschedule, RemoveJob
  <2> QED
    BY <1>b, <2>1, <2>2, <2>3
<1>4. CASE Restart
  <2>1. /\ crashes < MaxCrashes /\ crashes' = crashes + 1 /\ file' \in {file, Torn} /\ jobs' = Load(file')
        /\ timer' = [j \in Jobs |-> Trigger(jobs'[j])] /\ acked' = jobs' /\ saved' = TRUE
        /\ UNCHANGED <<cur, used, changes>>
    BY <1>4 DEF Restart
  <2>2. file' \in Table \cup {Torn}
    BY <1>b, <2>1
  <2>3. jobs' \in Table
    BY <2>1, <2>2, LoadFacts
  <2>4. timer' \in [Jobs -> Crons \cup {None}]
    BY <2>1, <2>3, TriggerFacts DEF Table
  <2>5. crashes' \in 0..MaxCrashes
    BY <1>b, <2>1
  <2>6. saved' \in BOOLEAN
    BY <2>1
  <2> QED
    BY <1>b, <2>1, <2>2, <2>3, <2>4, <2>5, <2>6
<1> QED
  BY <1>b, <1>1, <1>2, <1>3, <1>4 DEF Next, Besides

LEMMA NextType == ASSUME IInv, [Next]_vars PROVE TypeOK'
<1>1. todo' \in Seq(Steps) /\ Len(todo') <= 3
  BY NextPlan, PlanTypes DEF PlanInv
<1>2. \/ run' = Idle
      \/ /\ run'.job \in Jobs /\ run'.last \in Job \cup {None} /\ run'.into \in Pools \cup {None}
         /\ run'.shown \in Pools /\ run'.changed \in BOOLEAN
  BY NextRun DEF RunInv
<1> QED
  BY <1>1, <1>2, NextTables, NextQueues DEF TypeOK

LEMMA IInvHolds == Spec => []IInv
<1>1. IInv /\ [Next]_vars => IInv'
  BY NextType, NextPlan, NextTriggers, NextLate, NextUsed, NextRun, NextFile DEF IInv
<1> QED
  BY <1>1, InitIInv, PTL DEF Spec

-----------------------------------------------------------------------------
(* The theorems.                                                             *)

\* Type correctness, and that the APScheduler has the triggers of the enabled
\* schedules and no other whenever no call is under way: create_job, update_job,
\* toggle_job and delete_job leave no trigger behind and miss none, whatever the
\* timer, the worker and a restart do in between.
THEOREM TriggersFollowSchedules == Spec => []TimerInv
<1>1. IInv => TimerInv
  <2> SUFFICES ASSUME IInv, todo = <<>> PROVE timer = [j \in Jobs |-> Trigger(jobs[j])]
    BY DEF TimerInv, TimerFollowsJobs, IInv
  <2>1. timer \in [Jobs -> Crons \cup {None}] /\ \A j \in Jobs : timer[j] = Trigger(jobs[j])
    BY DEF IInv, TypeOK, TriggersInv, Settled
  <2> QED
    BY <2>1
<1> QED
  BY <1>1, IInvHolds, PTL

\* After toggle_job, update_job or delete_job has taken a schedule's trigger away,
\* at most one run of it reaches the task queue, by the thread of the APScheduler
\* that _enqueue_backup_job had already started.
THEOREM OneRunAfterDisable == Spec => []QuietOnceDisabled
<1>1. IInv => QuietOnceDisabled
  <2> SUFFICES ASSUME IInv, todo = <<>>, NEW j \in Jobs, Trigger(jobs[j]) = None PROVE late[j] <= 1
    BY DEF QuietOnceDisabled
  <2>1. IF due[j] = "no" THEN late[j] <= 1 ELSE late[j] = 0
    BY DEF IInv, TriggersInv, LateInv, Settled
  <2> QED
    BY <2>1
<1> QED
  BY <1>1, IInvHolds, PTL

\* _apply_retention looks at the pool that the backup of the same run went to, as
\* long as update_job does not change the schedule in between; disabling, deleting
\* and a change of any other schedule do not matter.
THEOREM RetentionLooksThere == Spec => []RetentionFollowsBackup
<1>1. IInv => RetentionFollowsBackup
  BY DEF IInv, RunInv, RetentionFollowsBackup, RetentionPool
<1> QED
  BY <1>1, IInvHolds, PTL

\* A restart finds the schedules as of the last answer, or with the change of the
\* call under way, if no _save has failed or been cut off since.
THEOREM RestartFindsSchedules == Spec => RestartKeepsJobs
<1>1. IInv /\ [Next]_vars => [crashes' > crashes /\ saved /\ file' # Torn => jobs' \in {acked, jobs}]_vars
  <2> SUFFICES ASSUME IInv, Next, crashes' > crashes, saved, file' # Torn PROVE jobs' \in {acked, jobs}
    OBVIOUS
  <2>1. TypeOK /\ PlanInv /\ FileInv
    BY DEF IInv
  <2>2. crashes \in Nat
    BY <2>1 DEF TypeOK
  <2>3. CASE Besides
    BY <2>2, <2>3, BesidesFacts
  <2>4. ASSUME NEW j \in Jobs, Create(j) \/ Update(j) \/ Toggle(j) \/ Delete(j) PROVE FALSE
    <3>1. crashes' = crashes
      BY <2>1, <2>4, CallFacts
    <3> QED
      BY <2>2, <3>1
  <2>5. CASE Save \/ Schedule \/ Unschedule \/ RemoveJob
    BY <2>1, <2>2, <2>5, ContinueFacts
  <2>6. CASE Restart
    <3>1. file' = file /\ jobs' = Load(file')
      BY <2>6 DEF Restart
    <3>2. jobs' = file
      BY <2>1, <3>1, LoadFacts DEF TypeOK
    <3> QED
      BY <2>1, <3>1, <3>2 DEF FileInv
  <2> QED
    BY <2>3, <2>4, <2>5, <2>6 DEF Next, Besides
<1> QED
  BY <1>1, IInvHolds, PTL DEF Spec, RestartKeepsJobs

-----------------------------------------------------------------------------
(* The expressions of the schedules.                                         *)

\* The days by their numbers in crontab, and their places in the APScheduler's week.
LEMMA DayFacts ==
  /\ \A n \in 0..7 : Position(Name(n)) = IF n = 0 THEN 7 ELSE n
  /\ \A n \in 1..7 : Weekdays[n] = CronDowNames[(n % 7) + 1]
  /\ Weekdays[7] = CronDowNames[(0 % 7) + 1]
<1>1. /\ Name(0) = "sun" /\ Name(1) = "mon" /\ Name(2) = "tue" /\ Name(3) = "wed"
      /\ Name(4) = "thu" /\ Name(5) = "fri" /\ Name(6) = "sat" /\ Name(7) = "sun"
  BY DEF Name, CronDowNames
<1>2. ASSUME NEW i \in 1..7 PROVE Position(Weekdays[i]) = i
  <2>1. \A j \in 1..7 : Weekdays[j] = Weekdays[i] => j = i
    BY DEF Weekdays
  <2> QED
    BY <2>1 DEF Position
<1>3. /\ Weekdays[1] = "mon" /\ Weekdays[2] = "tue" /\ Weekdays[3] = "wed" /\ Weekdays[4] = "thu"
      /\ Weekdays[5] = "fri" /\ Weekdays[6] = "sat" /\ Weekdays[7] = "sun"
  BY DEF Weekdays
<1>4. \A n \in 0..7 : Name(n) = Weekdays[IF n = 0 THEN 7 ELSE n]
  BY <1>1, <1>3
<1>5. \A n \in 1..7 : Weekdays[n] = CronDowNames[(n % 7) + 1]
  BY <1>4 DEF Name
<1>6. Weekdays[7] = CronDowNames[(0 % 7) + 1]
  BY <1>1, <1>3 DEF Name
<1>7. \A n \in 0..7 : Position(Name(n)) = IF n = 0 THEN 7 ELSE n
  BY <1>2, <1>4
<1> QED
  BY <1>5, <1>6, <1>7

\* A part that means the same to both fires on the same days.
LEMMA PartFires ==
  ASSUME NEW p \in Parts, Common(p), Readable(p)
  PROVE  Fires(p) = Crontab(p)
<1>1. CASE p.star
  <2>1. p.step = 1
    BY <1>1 DEF Common
  <2>2. {j \in 0..6 : j % p.step = 0} = 0..6
    BY <2>1
  <2>3. Fires(p) = {Weekdays[i + 1] : i \in 0..6} /\ Crontab(p) = {CronDowNames[i + 1] : i \in 0..6}
    BY <1>1, <2>2, Zenon DEF Fires, Crontab
  <2>4. {Weekdays[i + 1] : i \in 0..6} = {Weekdays[1], Weekdays[2], Weekdays[3], Weekdays[4], Weekdays[5], Weekdays[6], Weekdays[7]}
    OBVIOUS
  <2>5. {CronDowNames[i + 1] : i \in 0..6} = {CronDowNames[1], CronDowNames[2], CronDowNames[3], CronDowNames[4], CronDowNames[5], CronDowNames[6], CronDowNames[7]}
    OBVIOUS
  <2> QED
    BY <2>3, <2>4, <2>5 DEF Weekdays, CronDowNames
<1>2. CASE ~p.star
  <2>1. p.lo \in Nat /\ p.hi \in Nat /\ p.lo <= p.hi /\ p.hi <= 7 /\ ~(p.lo = 0 /\ p.hi = 7)
    <3>1. p.lo \in 0..MaxNumber /\ p.hi \in 0..MaxNumber
      BY <1>2 DEF Parts, Numbers
    <3>2. p.lo <= p.hi /\ p.hi <= 7 /\ ~(p.lo = 0 /\ p.hi = 7)
      BY <1>2 DEF Common, Valid
    <3> QED
      BY <3>1, <3>2, CronAssumption
  <2>2. Position(Name(p.lo)) <= Position(Name(p.hi))
    BY <1>2 DEF Readable
  <2>3. Fires(p) = {Weekdays[i] : i \in Position(Name(p.lo))..Position(Name(p.hi))}
        /\ Crontab(p) = {CronDowNames[(n % 7) + 1] : n \in p.lo..p.hi}
    BY <1>2, Zenon DEF Fires, Crontab
  <2>4. CASE p.lo = 0
    <3>1. p.hi = 0
      BY <2>1, <2>2, <2>4, DayFacts
    <3>2. Position(Name(p.lo)) = 7 /\ Position(Name(p.hi)) = 7
      BY <2>4, <3>1, DayFacts
    <3>3. Fires(p) = {Weekdays[7]} /\ Crontab(p) = {CronDowNames[(0 % 7) + 1]}
      BY <2>3, <2>4, <3>1, <3>2
    <3> QED
      BY <3>3, DayFacts
  <2>5. CASE p.lo > 0
    <3>1. Position(Name(p.lo)) = p.lo /\ Position(Name(p.hi)) = p.hi
      BY <2>1, <2>5, DayFacts
    <3>2. \A n \in p.lo..p.hi : Weekdays[n] = CronDowNames[(n % 7) + 1]
      BY <2>1, <2>5, DayFacts
    <3> QED
      BY <2>3, <3>1, <3>2
  <2> QED
    BY <2>1, <2>4, <2>5
<1> QED
  BY <1>1, <1>2

\* Of crontab's parts, only ranges from Sunday on are refused.
LEMMA PartRefused ==
  ASSUME NEW p \in Parts, Valid(p), ~Readable(p)
  PROVE  ~p.star /\ p.lo = 0 /\ p.hi \in 1..6
<1>1. ~p.star /\ ~(Position(Name(p.lo)) <= Position(Name(p.hi)))
  BY DEF Readable
<1>2. p.lo \in Nat /\ p.hi \in Nat /\ p.lo <= p.hi /\ p.hi <= 7
  <2>1. p.lo \in 0..MaxNumber /\ p.hi \in 0..MaxNumber
    BY <1>1 DEF Parts, Numbers
  <2>2. p.lo <= p.hi /\ p.hi <= 7
    BY <1>1 DEF Valid
  <2> QED
    BY <2>1, <2>2, CronAssumption
<1>3. /\ Position(Name(p.lo)) = IF p.lo = 0 THEN 7 ELSE p.lo
      /\ Position(Name(p.hi)) = IF p.hi = 0 THEN 7 ELSE p.hi
  BY <1>2, DayFacts
<1> QED
  BY <1>1, <1>2, <1>3

\* What make_cron_trigger has answered is what the parts of the field call for.
AnswerInv ==
  /\ field \in Fields
  /\ trigger.state = "set" =>
       (\A i \in 1..Len(field) : Readable(field[i])) /\ trigger.days = All(Fires, field)
  /\ trigger.state = "refused" => \E i \in 1..Len(field) : ~Readable(field[i])

\* Fields of every length are read part by part.
LEMMA AnswerIsCrontab == AnswerInv => AsCrontab
<1> SUFFICES ASSUME AnswerInv PROVE AsCrontab
  OBVIOUS
<1>1. \A i \in 1..Len(field) : field[i] \in Parts
  BY DEF AnswerInv, Fields, BoundedSeq, SeqOf
<1>2. ASSUME trigger.state = "set", \A i \in 1..Len(field) : Common(field[i])
      PROVE  trigger.days = All(Crontab, field)
  <2>1. \A i \in 1..Len(field) : Fires(field[i]) = Crontab(field[i])
    BY <1>1, <1>2, PartFires DEF AnswerInv
  <2>2. trigger.days = UNION {Fires(field[i]) : i \in 1..Len(field)}
    BY <1>2 DEF AnswerInv, All
  <2> HIDE DEF Fires, Crontab
  <2>3. {Fires(field[i]) : i \in 1..Len(field)} = {Crontab(field[i]) : i \in 1..Len(field)}
    BY <2>1
  <2> QED
    BY <2>2, <2>3 DEF All
<1>3. ASSUME trigger.state = "refused", \A i \in 1..Len(field) : Valid(field[i])
      PROVE  \E i \in 1..Len(field) : ~field[i].star /\ field[i].lo = 0 /\ field[i].hi \in 1..6
  <2>1. PICK i \in 1..Len(field) : ~Readable(field[i])
    BY <1>3 DEF AnswerInv
  <2>2. ~field[i].star /\ field[i].lo = 0 /\ field[i].hi \in 1..6
    BY <1>1, <1>3, <2>1, PartRefused
  <2> QED
    BY <2>2
<1> QED
  BY <1>2, <1>3 DEF AsCrontab

\* make_cron_trigger: a schedule that is accepted runs on the days that crontab gives its
\* field, however many parts that has and whatever numbers, but for the two that are known
\* to differ; and a field of crontab's is refused only for a range that begins on Sunday.
THEOREM SchedulesRunOnTheirDays == CronSpec => []AsCrontab
<1>1. CronInit => AnswerInv
  BY DEF CronInit, AnswerInv
<1>2. AnswerInv /\ [CronNext]_cronVars => AnswerInv'
  <2> SUFFICES ASSUME AnswerInv, [CronNext]_cronVars PROVE AnswerInv'
    OBVIOUS
  <2>1. CASE MakeCronTrigger
    <3>1. field' = field
      BY <2>1 DEF MakeCronTrigger
    <3>2. CASE \A i \in 1..Len(field) : Readable(field[i])
      <4>1. trigger' = [state |-> "set", days |-> All(Fires, field)]
        BY <2>1, <3>2, Zenon DEF MakeCronTrigger
      <4>2. All(Fires, field)' = All(Fires, field)
        BY <3>1 DEF All, Fires
      <4> QED
        BY <3>1, <3>2, <4>1, <4>2 DEF AnswerInv
    <3>3. CASE ~(\A i \in 1..Len(field) : Readable(field[i]))
      <4>1. trigger' = [state |-> "refused", days |-> {}]
        BY <2>1, <3>3, Zenon DEF MakeCronTrigger
      <4> QED
        BY <3>1, <3>3, <4>1 DEF AnswerInv
    <3> QED
      BY <3>2, <3>3
  <2>2. CASE UNCHANGED cronVars
    BY <2>2 DEF AnswerInv, cronVars
  <2> QED
    BY <2>1, <2>2 DEF CronNext
<1> QED
  BY <1>1, <1>2, AnswerIsCrontab, PTL DEF CronSpec

=============================================================================
