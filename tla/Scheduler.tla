------------------------------ MODULE Scheduler ------------------------------
(***************************************************************************)
(* The schedules of services/scheduler_service.py.  A schedule ("job") is  *)
(* kept three times: in memory (jobs), in vshipper_schedules.json (file)   *)
(* and as a trigger in the APScheduler (timer).  The handlers that change  *)
(* it run one at a time in the event loop; meanwhile threads of the        *)
(* APScheduler queue the runs whose time has come, the worker thread of    *)
(* the task queue runs them with what the schedule says at that moment,    *)
(* and the program may die between any two steps.                          *)
(*                                                                         *)
(* Of a schedule's fields, the model has the cron expression, whether it   *)
(* is enabled, and the backup pool, which stands for all that a run reads  *)
(* from the schedule while it goes on (the retention, the containers).     *)
(***************************************************************************)
EXTENDS Integers, FiniteSets, SequencesExt

CONSTANTS
  Jobs,        \* ids; uuid4 never gives one twice
  Crons,       \* expressions that validate_cron accepts
  BadCron,     \* one that it refuses, in a file that was written by hand
  Pools,       \* backup pools
  None, Torn,  \* no such schedule; a file that is no JSON
  MaxChanges,  \* bound on calls that change a schedule
  MaxQueue,    \* bound on runs that wait
  MaxCrashes   \* bound on restarts

Job == [cron : Crons \cup {BadCron}, pool : Pools, enabled : BOOLEAN]
Table == [Jobs -> Job \cup {None}]
Nothing == [j \in Jobs |-> None]

ASSUME SchedulerAssumption ==
  /\ BadCron \notin Crons
  /\ None \notin Crons /\ None \notin Jobs /\ None \notin Job
  /\ Torn \notin Table
  /\ MaxChanges \in Nat /\ MaxQueue \in Nat /\ MaxCrashes \in Nat

VARIABLES
  jobs,     \* self.jobs
  file,     \* what _jobs_file holds
  timer,    \* the cron expression of the APScheduler's trigger
  due,      \* a thread is about to call _enqueue_backup_job, or has looked the job up
  todo,     \* what the handler that is running has still to do
  cur,      \* the schedule it does it to
  queue,    \* runs that wait in the task queue: the job, and the pool its task shows
  run,      \* the run in the worker thread
  used,     \* ids that create_job has given out
  acked,    \* jobs, as of the last answer to a call
  saved,    \* the last _save worked
  late,     \* late[j]: runs queued by the timer since the last answer about j (0, 1, many)
  changes, crashes

ghosts == <<used, acked, saved, late>>
handler == <<todo, cur>>
vars == <<jobs, file, timer, due, handler, queue, run, ghosts, changes, crashes>>

Steps == {"save", "schedule", "unschedule", "remove"}
Runs == [job : Jobs, pool : Pools]
Idle == [job |-> None]

TypeOK ==
  /\ jobs \in Table /\ file \in Table \cup {Torn} /\ acked \in Table
  /\ timer \in [Jobs -> Crons \cup {None}]
  /\ due \in [Jobs -> {"no", "due", "found"}]
  /\ todo \in Seq(Steps) /\ Len(todo) <= 3
  /\ cur \in Jobs \cup {None}
  /\ queue \in Seq(Runs) /\ Len(queue) <= MaxQueue
  /\ \/ run = Idle
     \/ /\ run.job \in Jobs /\ run.last \in Job \cup {None} /\ run.into \in Pools \cup {None}
        /\ run.shown \in Pools /\ run.changed \in BOOLEAN
  /\ used \subseteq Jobs /\ saved \in BOOLEAN
  /\ late \in [Jobs -> 0..2]
  /\ changes \in 0..MaxChanges /\ crashes \in 0..MaxCrashes

\* make_cron_trigger raises for the bad expression, and add_job is not reached.
Trigger(job) ==
  IF job # None /\ job.enabled /\ job.cron # BadCron THEN job.cron ELSE None

\* _load: what cannot be read counts for no schedule at all.
Load(f) == IF f = Torn THEN Nothing ELSE f

\* _load, start and _reschedule_all, of a program that finds the file f.
Start(f) ==
  /\ jobs = Load(f) /\ file = f
  /\ timer = [j \in Jobs |-> Trigger(Load(f)[j])]

\* The file is new, or it is of an earlier life of the program.
Init ==
  /\ \E f \in {Nothing} \cup {[Nothing EXCEPT ![j] = job] : j \in Jobs, job \in Job} :
       /\ Start(f)
       /\ used = {j \in Jobs : f[j] # None}
       /\ acked = f
  /\ due = [j \in Jobs |-> "no"] /\ todo = <<>> /\ cur = None
  /\ queue = <<>> /\ run = Idle
  /\ saved = TRUE /\ late = [j \in Jobs |-> 0]
  /\ changes = 0 /\ crashes = 0

----------------------------------------------------------------------------
(* The handlers: the first step of each, and those that follow.            *)

\* The call comes in: the event loop does nothing else until it has answered.
Call(j, steps) ==
  /\ todo = <<>> /\ changes < MaxChanges
  /\ changes' = changes + 1
  /\ cur' = j /\ todo' = steps
  /\ UNCHANGED <<file, timer, due, queue, acked, saved, late, crashes>>

\* create_job
Create(j) ==
  /\ j \notin used
  /\ used' = used \cup {j}
  /\ \E c \in Crons, p \in Pools :
       jobs' = [jobs EXCEPT ![j] = [cron |-> c, pool |-> p, enabled |-> TRUE]]
  /\ Call(j, <<"save", "schedule">>)
  /\ UNCHANGED run

\* update_job changes the dict that a run may hold, too.
Update(j) ==
  /\ jobs[j] # None
  /\ \E c \in Crons, p \in Pools : jobs' = [jobs EXCEPT ![j].cron = c, ![j].pool = p]
  /\ Call(j, IF jobs[j].enabled THEN <<"save", "unschedule", "schedule">>
                                ELSE <<"save", "unschedule">>)
  /\ run' = IF run.job = j THEN [run EXCEPT !.changed = TRUE] ELSE run
  /\ UNCHANGED used

\* Variant with a bug: a schedule that is disabled keeps its trigger.
ToggleKeepingTrigger(j) ==
  /\ jobs[j] # None
  /\ jobs' = [jobs EXCEPT ![j].enabled = ~@]
  /\ Call(j, IF jobs[j].enabled THEN <<"save">> ELSE <<"save", "schedule">>)
  /\ UNCHANGED <<run, used>>

\* Variant with a bug: the new state is not saved.
ToggleUnsaved(j) ==
  /\ jobs[j] # None
  /\ jobs' = [jobs EXCEPT ![j].enabled = ~@]
  /\ Call(j, <<IF jobs[j].enabled THEN "unschedule" ELSE "schedule">>)
  /\ UNCHANGED <<run, used>>

\* toggle_job
Toggle(j) ==
  /\ jobs[j] # None
  /\ jobs' = [jobs EXCEPT ![j].enabled = ~@]
  /\ Call(j, <<"save", IF jobs[j].enabled THEN "unschedule" ELSE "schedule">>)
  /\ UNCHANGED <<run, used>>

\* delete_job
Delete(j) ==
  /\ jobs[j] # None
  /\ Call(j, <<"unschedule", "remove", "save">>)
  /\ UNCHANGED <<jobs, run, used>>

\* The handler goes on; when it has nothing left to do, it answers.
Continue(step) ==
  /\ todo # <<>> /\ Head(todo) = step
  /\ todo' = Tail(todo)
  /\ acked' = IF Tail(todo) = <<>> THEN jobs ELSE acked
  /\ late' = IF Tail(todo) = <<>> THEN [late EXCEPT ![cur] = 0] ELSE late
  /\ UNCHANGED <<due, cur, queue, used, changes, crashes>>

\* _save.  An error, swallowed, leaves the file as it was or truncated.
Save ==
  /\ Continue("save")
  /\ \/ file' = jobs /\ saved' = TRUE
     \/ file' \in {file, Torn} /\ saved' = FALSE
  /\ UNCHANGED <<jobs, timer, run>>

\* _schedule_job, with replace_existing
Schedule ==
  /\ Continue("schedule")
  /\ timer' = [timer EXCEPT ![cur] = IF Trigger(jobs[cur]) = None THEN @ ELSE Trigger(jobs[cur])]
  /\ UNCHANGED <<jobs, file, run, saved>>

\* _unschedule_job
Unschedule ==
  /\ Continue("unschedule")
  /\ timer' = [timer EXCEPT ![cur] = None]
  /\ UNCHANGED <<jobs, file, run, saved>>

\* del self.jobs[job_id]; a run keeps its reference to the dict.
RemoveJob ==
  /\ Continue("remove")
  /\ jobs' = [jobs EXCEPT ![cur] = None]
  /\ run' = IF run.job = cur THEN [run EXCEPT !.last = jobs[cur]] ELSE run
  /\ UNCHANGED <<file, timer, saved>>

----------------------------------------------------------------------------
(* The timer, "run now" and the worker thread.                             *)

\* The time has come.  The APScheduler starts no second call of a job while the
\* first is under way (max_instances).
GoOff(j) ==
  /\ timer[j] # None /\ due[j] = "no"
  /\ due' = [due EXCEPT ![j] = "due"]
  /\ UNCHANGED <<jobs, file, timer, handler, queue, run, ghosts, changes, crashes>>

\* _enqueue_backup_job in a thread of the APScheduler: first self.jobs.get ...
Lookup(j) ==
  /\ due[j] = "due"
  /\ due' = [due EXCEPT ![j] = IF jobs[j] = None THEN "no" ELSE "found"]
  /\ UNCHANGED <<jobs, file, timer, handler, queue, run, ghosts, changes, crashes>>

\* Variant with a bug: the thread tries again after it has submitted the run.
EnqueueRetried(j) ==
  /\ due[j] = "found" /\ Len(queue) < MaxQueue
  /\ due' \in {due, [due EXCEPT ![j] = "no"]}
  /\ \E p \in IF jobs[j] = None THEN Pools ELSE {jobs[j].pool} :
       queue' = Append(queue, [job |-> j, pool |-> p])
  /\ late' = [late EXCEPT ![j] = IF @ = 2 THEN 2 ELSE @ + 1]
  /\ UNCHANGED <<jobs, file, timer, handler, run, used, acked, saved, changes, crashes>>

\* ... then add_task and submit, whatever has become of the job.
Enqueue(j) ==
  /\ due[j] = "found" /\ Len(queue) < MaxQueue
  /\ due' = [due EXCEPT ![j] = "no"]
  /\ \E p \in IF jobs[j] = None THEN Pools ELSE {jobs[j].pool} :
       queue' = Append(queue, [job |-> j, pool |-> p])
  /\ late' = [late EXCEPT ![j] = IF @ = 2 THEN 2 ELSE @ + 1]
  /\ UNCHANGED <<jobs, file, timer, handler, run, used, acked, saved, changes, crashes>>

\* trigger_now, which does not ask whether the job is enabled.
TriggerNow(j) ==
  /\ todo = <<>> /\ jobs[j] # None /\ Len(queue) < MaxQueue
  /\ queue' = Append(queue, [job |-> j, pool |-> jobs[j].pool])
  /\ UNCHANGED <<jobs, file, timer, due, handler, run, ghosts, changes, crashes>>

\* The dict that _run_backup_job holds.
Held == IF jobs[run.job] = None THEN run.last ELSE jobs[run.job]

\* _run_backup_job.  Without a job, it returns at once.
TakeRun ==
  /\ run = Idle /\ queue # <<>>
  /\ queue' = Tail(queue)
  /\ run' = LET j == Head(queue).job IN
              IF jobs[j] = None THEN Idle
              ELSE [job |-> j, last |-> None, into |-> None,
                    shown |-> Head(queue).pool, changed |-> FALSE]
  /\ UNCHANGED <<jobs, file, timer, due, handler, ghosts, changes, crashes>>

\* backup_volume for one volume; it succeeds, or there is no retention.
BackUp ==
  /\ run # Idle /\ run.into = None
  /\ run' = [run EXCEPT !.into = Held.pool]
  /\ UNCHANGED <<jobs, file, timer, due, handler, queue, ghosts, changes, crashes>>

\* Variant with a bug: the pool that the summary task shows.
RetentionPoolShown == run.shown

\* _apply_retention looks at job['backup_pool'] again.
RetentionPool == Held.pool

Retain ==
  /\ run # Idle /\ run.into # None
  /\ run' = [run EXCEPT !.into = None]
  /\ UNCHANGED <<jobs, file, timer, due, handler, queue, ghosts, changes, crashes>>

RunEnds ==
  /\ run # Idle
  /\ run' = Idle
  /\ UNCHANGED <<jobs, file, timer, due, handler, queue, ghosts, changes, crashes>>

----------------------------------------------------------------------------
\* The program dies, in the middle of write_text perhaps, and starts again.
Restart ==
  /\ crashes < MaxCrashes
  /\ crashes' = crashes + 1
  /\ file' \in {file} \cup (IF todo # <<>> /\ Head(todo) = "save" THEN {Torn} ELSE {})
  /\ jobs' = Load(file')
  /\ timer' = [j \in Jobs |-> Trigger(jobs'[j])]
  /\ acked' = jobs' /\ saved' = TRUE /\ late' = [j \in Jobs |-> 0]
  /\ due' = [j \in Jobs |-> "no"] /\ todo' = <<>> /\ queue' = <<>> /\ run' = Idle
  /\ UNCHANGED <<cur, used, changes>>

Next ==
  \/ \E j \in Jobs : \/ Create(j) \/ Update(j) \/ Toggle(j) \/ Delete(j)
                     \/ GoOff(j) \/ Lookup(j) \/ Enqueue(j) \/ TriggerNow(j)
  \/ Save \/ Schedule \/ Unschedule \/ RemoveJob
  \/ TakeRun \/ BackUp \/ Retain \/ RunEnds
  \/ Restart

Spec == Init /\ [][Next]_vars

----------------------------------------------------------------------------
(* Properties.                                                             *)

\* Between two calls, the APScheduler has the triggers of the enabled schedules,
\* with their latest expressions, and no other: none that was missed by an
\* update, left behind by a deletion or lost at a restart.
TimerFollowsJobs == todo = <<>> => timer = [j \in Jobs |-> Trigger(jobs[j])]

\* State invariant: the types, and that the triggers are those of the schedules.
TimerInv == TypeOK /\ TimerFollowsJobs

\* A schedule that has been disabled or deleted is queued at most once more, by a
\* thread that was already on its way.
QuietOnceDisabled ==
  \A j \in Jobs : todo = <<>> /\ Trigger(jobs[j]) = None => late[j] <= 1

\* A restart brings back the schedules as of the last answer; a call that was
\* under way is done or not done.  It may not, when the last _save had failed or
\* the program died within it.
RestartKeepsJobs ==
  [][crashes' > crashes /\ saved /\ file' # Torn => jobs' \in {acked, jobs}]_vars

\* The retention looks where the backup has just gone, as long as the schedule is
\* not changed under the run.
RetentionFollowsBackup ==
  run # Idle /\ run.into # None /\ ~run.changed => RetentionPool = run.into
=============================================================================
