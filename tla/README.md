# v-shipper: specification and verification

v-shipper moves, backs up and restores Docker volumes from a web page. A FastAPI process
accepts requests, puts the work into a sequential task queue, and a single worker thread
runs `rsync` and `tar` for it. What the program must not do is lose data: delete a source
that was not copied, call an archive complete that is not, leave half a volume where a
whole one is expected, or lose track of a task, a cancel or a lock on the way.

The TLA+ modules here are written from the source in `src/app`. TLC checks them on small
instances; TLAPS proves all the safety properties that hold for every size, and the safety half
of the liveness properties that have one worth stating.

1. [The system](#1-the-system)
2. [The modules and the code they model](#2-the-modules-and-the-code-they-model)
3. [What the runs check](#3-what-the-runs-check)
4. [Fairness and deadlock](#4-fairness-and-deadlock)
5. [What is proved](#5-what-is-proved)
6. [Where the code departs from its documentation](#6-where-the-code-departs-from-its-documentation)
7. [What is not modelled](#7-what-is-not-modelled)
8. [Plan](#8-plan)

## 1. The system

| Component | State it keeps | Operations | What makes it correct |
|---|---|---|---|
| Task table (`task_queue.py`) | `tasks`, `running_task_id`, `_cancelled`, the task file | add, start, progress, complete, finalize as cancelled, reload | an outcome is final; at most one task runs; a restart leaves none open |
| Queue and worker (`task_queue.py`) | `_work_queue`, `_procs`, lock files | submit, the worker loop, register/unregister a process, request_cancel, locks, debug cleanup | first-in first-out, one at a time; a cancel reaches the child process; locks are released |
| Bulk actions (`bulk_service.py`) | results by label, the current item | enqueue, run items one by one, sum up | every item's task is finalized; the summary tells the truth; a cancel stops the rest |
| Scheduled backup run (`scheduler_service.py`) | the same, and the schedule it reads | run volumes one by one, retention | as above |
| Schedules (`scheduler_service.py`) | `jobs`, `vshipper_schedules.json`, APScheduler's triggers | create, update, toggle, delete, run now, load | the three agree; a restart brings back what was answered |
| Retention (`scheduler_service.py`) | the archives of a pool | remove the oldest | the last backups stay |
| Migration (`migration_service.py`) | source, destination, stopped containers | stop, copy, verify, clean up, delete the source, start | no data is lost, no partial copy stays, containers come back |
| Backup (`backup_service.py`) | the archive, the staging area | pull, tar, upload, verify | completed means a whole archive; no partial one stays |
| Restore (`backup_service.py`, `app.py`) | the extraction directory, the destination | download, extract, rename, copy or upload, verify | nobody sees half a volume; nothing temporary stays |
| Volume operations (`volume_service.py`) | the volumes of a pool | create, rename, delete, permissions | each request takes effect once or not at all, also when its answer is lost |
| Size cache (`volume_service.py`) | `size_cache`, a refresh thread per pool | read by listings, filled by the thread, changed by rename and delete | a size is the volume's own, and is loaded in the end |
| Container control (`container_control.py`) | names of stopped containers | stop (raises), start (best effort) | what was stopped is started |
| Notifications (`notification_service.py`) | configurations and their file | create, update, toggle, delete, load, send | everyone is told once; who was switched off is not |
| Cron expressions (`validation.py`) | | translate days of the week, refuse | an accepted schedule runs on the days that crontab means |
| Configuration, sessions, log capture, API models, Docker and v-helper clients, startup, web page | see section 7 | | |

How they interact:

- **Threads.** The event loop serves the HTTP requests; no handler awaits anything between
  its reads and writes, so handlers do not interleave with each other. The worker thread
  runs one queued callable after the other. Threads of the APScheduler put scheduled runs
  into the queue. Daemon threads send notifications and compute sizes. The task table is
  guarded by a lock that is taken for each operation, never across two of them: a status
  that was read may be stale when it is used.
- **Child processes.** A transfer runs up to three `rsync` or `tar` processes one after the
  other. The worker publishes each in `_procs`; `request_cancel`, on the event loop,
  signals it: SIGTERM, a wait of ten seconds, SIGKILL.
- **Flags.** A cancel sets a flag in `_cancelled`, which services read at some points. What
  happens depends on whether the task was pending or running when it was set.
- **Files.** The task table and the schedules are written to JSON files after every change
  and read at the start. Locks are files. Volumes are directories, which containers may
  write to meanwhile, or rsync modules of another host with a "v-helper" beside it.
- **Batches.** A bulk action or a scheduled run is one queued callable that gives every item
  a task of its own, started and finalized inside it.

The hard part is what happens between those: a cancel between two steps of the worker, a
restart between any two steps, a failure after half of the steps, a name or a schedule that
has changed since it was looked at. The list is in `PROJECT.json` under `hazards`, at the
lines where each bites, with the properties that watch it.

## 2. The modules and the code they model

`PROJECT.json` maps every definition to its lines. In outline:

**`TaskTable`** has the operations of the table as fragments of actions (`AddTask`,
`StartTask`, `Finalize`, `FlagCancelled`, `LoadTasks`, `LoadTornFile`, ...), each atomic
because the code holds the lock for it. `disk` is the task file, saved where the code saves it.
A save may fail (`SaveTasks`): the code logs the error and goes on, with the file as it was or
truncated; `unsaved` remembers that the file has not what the table has. `TaskQueue` and
`BatchRun` extend it.

**`TaskQueue`** has the worker (`wpc`), the handler in progress (`hpc`: only
`request_cancel` takes more than one step that others can see), the current child process
(`proc`, `procs`), the queue and the lock files. One step is what a thread does between two
points at which another thread can see or change shared state; e.g. `Check` and `Start` are
two steps because `_worker_loop` reads the status and calls `start_task` without holding the
lock. A task is a *transfer*, which locks a volume and runs `MaxPhases` children at most, or
*plain*. `Restart` kills everything at any point and reloads from `disk`; `RestartTorn` finds
a file that the crash cut off while it was written, in a state where a save was possible.
Locks of the operation that died stay (`leftover`) until somebody locks the volume again.
`DebugCleanup` is `/api/debug/cleanup`.

**`SerialQueue`** is the abstract promise: tasks wait in the order in which they were
submitted, and begin one at a time, or are passed over. `TaskQueue` implements it under the
mapping `known <- Known, waiting <- Waiting, current <- Current`, where the task that the
worker has taken and not begun still counts as waiting.

**`BatchRun`** has both batches (`kind`): they differ in what precedes the items (a schedule
that may be gone), whether items may be plain calls, and what the summary says in the end.
The handler of a cancel may name the summary or the running item. The signals of the child
are one step here, as `TaskQueue` has them in detail. A service may raise instead of returning
(`RaiseAt`): before its `try` block, when the lock file cannot be written, which leaves the
item's task as it was (`RunRaises`), or in its `finally` block, after it has finalized the task
(`EndOk`). The batch catches it and counts the item as failed; `raised` remembers which.

**`Migration`** follows one request from the endpoint's check to the `finally` block. A
volume is the version of each of its files, so what rsync has copied, what a container has
written since, and what belongs to a volume that was there before can be told apart.
Verification compares total bytes as the code does, with two versions of the same size. The
request is a variable that never changes, so one run takes all of them. `samePlace` is a
migration onto itself, `bothRemote` one that the destination's v-helper carries out.
`ListFails` is a container listing that fails and is taken for no containers; `Crash` ends
the process anywhere, and nothing repairs what it leaves.

**`BackupPool`** has the archives of a backup pool across many backups. An archive's name is
a sequence of parts, of which the last is the local time; prefixes, patterns and the order
are those of the strings. The contents tell a whole archive from one of which
tar said that files are missing (`thin`) or with which it failed (`part`), and from those the
program takes for whole although they are not, because tar said nothing that one of
`_FATAL_TAR_STDERR_PATTERNS` matches: one that can be listed (`short`) and one that cannot
(`bad`). A request may ask for no verification (`verify`), which a scheduled backup always does
ask for. The second half is the retention, local (stops at the first error) or remote (each
deletion may fail by itself). `done` and `before` (which backups were completed, and which of
them before a given one), `left` (archives that could not be removed, or that a crash cut off)
and `regular` are history variables for the properties. Crashes and a clock that is set back may
come any number of times.

**`Restore`** follows one restore, from the request through download, extraction, placing
(rename, copy for a merge, upload to a remote pool) and verification, or through a crash to
the next start, which removes orphaned extraction directories. A removal may fail in silence and
leave some of the files (`RemoveTemp`, `stuck`).

**`Scheduler`** keeps each schedule three times, as the code does. A handler's remaining
steps are in `todo`, so that the timer, a run in the worker and a crash can come between any
two of them, and the order is the one of each handler (`delete_job` takes the trigger away
before it removes the schedule and saves; `update_job` changes memory, saves, then takes the
trigger away and sets it anew). `Save` may fail and may tear the file; the threads of the
APScheduler look a schedule up and queue its run in two steps. `run` holds a reference to
the schedule's dict, as `_run_backup_job` does: it sees updates, and survives a deletion.

**`Volumes`** has one pool (`kind`: local, remote with a v-helper, remote with rsync only) and
the queue of requests for it. A volume is the number of the request that created it, so that
two volumes that bear one name one after the other are told apart; that number is also its
size. A call to the remote side may be given up when its timeout is over and take effect
later (`late`), between any two steps of the tasks that follow. Beside the worker, a listing
finds sizes missing and starts the refresh thread of the pool in two steps (`List`,
`StartRefresh`), and the thread measures and stores in two steps (`Measure`, `Store`), so that
a rename or delete can come in between. `trace` records for which volumes' sizes an entry can
have been measured.

**`VolumePool`** is the abstract promise: a volume appears, changes its name or goes only
because one request, and each once, says so, and never takes the name of another. `Volumes`
implements it under `open <- late \cup` the requests that wait or run.

**`Notifications`** has the configurations as references to dictionaries (`heap`), because the
code does: `toggle` changes the dictionary in place, `update` puts another one in its place,
and the thread of a finalized task holds a list of dictionaries that it goes through slowly.
A save may fail, before or after it truncated the file. A job is a task, or a summary with its
items. A task has a second thread when a cancel finalized it while the worker was about to start
it (`again`, `FinalizedAgain`), as in `TaskQueue`.

**`CronDays`** is a pure algorithm, checked against what crontab says: the day-of-week field is
translated number by number into names, which the APScheduler then reads from Monday on.

`MC*` modules give the constants of the instances. The proofs about a module `M` are in
`MProofs`, those about `CronDays` in `SchedulerProofs`, with the schedules whose days they are.
Definitions under "Variant with a bug" are plausible wrong
versions of the definition that follows them: each property is known to fail for one of them
(`mutants` in `PROJECT.json`), so it does say something about the code.

## 3. What the runs check

Run one with `tlc -config X.cfg MCModule.tla`.

| Run | Instance | Question | Properties |
|---|---|---|---|
| `TaskQueueSafety` | two transfers of one volume, two children each, saves that fail, one restart, one cleanup; 2 454 444 states | Is the queue serial, are its locks those of somebody, does a restart lose everything or nothing? | `OneRunning LocksHeld NotifiedOnce ImplementsSerialQueue OutcomeStable RestartRecovers` |
| `TaskQueueCancel` | a transfer with two children, a plain task, one restart; fairness; 108 270 states | Does a cancel reach what it should, hold, and end? Does everything end? | `NoLostKill EarlyCancelHolds CancelEnds EveryTaskEnds` |
| `BatchRun` | two items, one of them plain in a bulk action; services that raise; a schedule that may be deleted; fairness; 92 936 states | Does a batch account for its items and stop when cancelled? | `BatchInv SummaryTellsTruth NoItemAfterCancel CancelledSummaryEnds` |
| `Migration` | all requests; a source file, a name only the destination has, two containers, a crash; 2 977 672 states | Is data lost, or left in pieces? | `CompletedMeansCopied NoPartialDestination ContainersBack CopiedBeforeDelete EarlyCancelKeepsSource` |
| `Restore` | all requests; an archive of two files, a name only the destination has, one crash, removals that fail; 78 151 states | Is half a volume ever seen, or something left behind? | `CompletedMeansRestored NoResolutionNoMixture NeverHalfRestored NoTempLeft LocalMergeKeepsUnique` |
| `BackupPool` | one volume, three times, retention of two; any number of crashes and clock changes; local and remote; 5 165 914 states | Is an archive worth its name, and kept? | `PoolInv NoPartialArchive RetentionKeepsLast` |
| `Scheduler` | two schedules, two calls that change one, two expressions and pools (symmetric), one crash; 2 million states | Do memory, file and triggers agree through every interleaving? | `TimerInv QuietOnceDisabled RetentionFollowsBackup RestartKeepsJobs` |
| `Volumes` | two names, a container on one of them, three requests, three kinds of pool; fairness; 422 308 states | Does each request take effect once, are sizes right and loaded in the end? | `SizeInv PermissionsRestore ImplementsVolumePool SizesSettle` |
| `Notifications` | two configurations, two forms, a batch of one item, tasks finalized twice, three changes, one restart; fairness; 282 433 states | Is everyone told who wants to be, once for each end of a job? | `MessageInv QuietAfterToggle StaysAsSet EveryoneTold` |
| `CronDays` | every field of two parts with numbers up to nine; 23 112 states | Does a schedule run on the days its expression means? | `AsCrontab` |

All of these hold. Two runs show what the code does against its own documentation
(section 6): `MigrationMerge` and `BackupPoolNames`.

`BatchInv`, `PoolInv`, `TimerInv`, `SizeInv` and `MessageInv` join the module's `TypeOK` with
`ChildrenClosed`, `CompletedMeansWhole`, `TimerFollowsJobs`, `OwnSize` and `OneMessageEach`.
The `TypeOK` of `TaskQueue`, `Migration` and `Restore` is proved (section 5), so the runs need
not repeat it.

What the properties say, where it is not plain from the comment above each:

- `OneRunning` relates three things that are set by different functions: statuses,
  `running_task_id` and the worker's position. A batch's cancel trusts `running_task_id` to
  find the child.
- `NoLostKill` is the race between `Popen`, `register_process` and `request_cancel`: as long
  as a flagged task's child runs without a signal, some thread is on its way to send one.
- `EarlyCancelHolds` says that a transfer flagged before the last reading of the flag never
  completes, whatever its children return. `CancelEnds` needs no child to end by itself.
- `ImplementsSerialQueue` is the refinement: no task overtakes another, none begins twice.
- `ChildrenClosed` is the promise of `_run` that "every sub-type ends up finalized": services
  that finalize their task, plain calls that do not, and calls that raise. It excepts what the
  code of a scheduled run leaves open (section 6).
- `CopiedBeforeDelete` compares two volumes over a step: a file may leave the source only if
  its last content is at the destination, under cancels, failures, containers that write and
  sizes that agree by chance.
- `RestartRecovers` relates every status after a restart to the one before: what was final
  stays, what was open has failed; or the file was torn and nothing is known any more. After
  saves that failed an outcome may be lost or older, but one save that succeeds brings all back,
  and no task is ever completed that was not. `OutcomeStable` names the same exceptions.
- `CompletedMeansWhole` and `NoPartialArchive` are about what tar says as the program reads it,
  by exit code and patterns; what tar left out without a word is beyond them (section 6).
- `NotifiedOnce` allows the one second notification that the code can send (section 6), and
  `OneMessageEach` the second message that comes of it.
- `OwnSize` allows a size of 0 (not measured) and excepts entries that outlived their volume
  in one of the three ways the code has: a local rename, which does not touch the cache, an
  answer that was lost, a delete or rename that overtakes a measurement. `SizesSettle` says
  that a listing which finds the refresh thread alive, and starts none, loses nothing.
- `QuietAfterToggle` is about a thread that took its list before the toggle: the dictionary it
  holds is the one that changes, unless an edit has replaced it.
- `NoPartialDestination`, `NoPartialArchive`, `NoTempLeft` are about what is left after the
  last step, through every failure; the exceptions are those the code logs or cannot reach.
- `RetentionKeepsLast` takes the order of completion from `before`, not from the names by
  which the code sorts.
- `TimerFollowsJobs` and `RestartKeepsJobs` relate the three copies of a schedule.
  `QuietOnceDisabled` bounds what a thread that was already on its way may still do.

**Bounds.** Two tasks suffice for every pair of positions of the worker and a cancel, for a
queue with order, and for a stale lock to meet another operation; two children per transfer
for a signal that is meant for the first and meets the second. A restart after a restart
starts from states that the first already reaches, a restored file apart. One source file
and one that only the destination has give all combinations that properties with one
quantified file can see; the order of several files is in the proofs, which hold for any
set. Two containers are needed for a stop that fails part way. Retention of two with three
times is the least where something is deleted and more than one archive is kept.
Three requests in `Volumes` are the least for a lost call of the first to meet the effect of
the second under the name of the third; a fourth multiplies the states by thirty and adds no
new pair of steps. Three changes in `Notifications` are two configurations of which one is
changed under a sending thread, or one that is switched off and then edited. Nine is beyond
every number that crontab allows.
`SaveErrors` is FALSE in `BatchRun`, where nothing reads the file, and in `TaskQueueCancel`, where
the file matters only after a restart that ends what the temporal properties ask for; the proofs
have saves that fail throughout. `MaxCleanups` is 0 in `TaskQueueCancel`: a cleanup makes an
absent task's id usable again in the model, which a fresh `uuid4` never is, and temporal
properties would join two tasks.
Symmetry is used in `Scheduler` only, where all properties are about safety and treat ids,
pools and valid expressions alike.

## 4. Fairness and deadlock

`FairSpec` of `TaskQueue` and `BatchRun` is weak fairness of the worker's next step and of
the handler's next step: both are threads that the operating system keeps scheduling and
that wait for nothing but what guards their steps. That child processes end is *not*
assumed for `CancelEnds`, as `SIGKILL` has to see to it. It is for `EveryTaskEnds`, as
the premise `ChildrenEnd` of the property itself: without it, an rsync that hangs without a
cancel holds the queue for ever, as it does in the program. `BatchRun` has it in `LiveSpec`,
where the signals are one step. `_terminate_process` makes the event loop wait, so the handler's
fairness includes the ten seconds of grace. No fairness is assumed of users, restarts, the timer
or other processes.

`Volumes` assumes it of listings, for the web page asks again every 2.5 seconds as long as a
size is missing (`static/main.js`, `startVolumeSizePolling`), and of the refresh thread, whose
measurements have timeouts; not of the worker. `Notifications` assumes it of the thread of each
finalized task: a send gives up when the server is silent for ten seconds (`_send`).

`CHECK_DEADLOCK FALSE` stands where the instance can come to its end: every task is
finished and the bounds on restarts, requests, changes and calls are used up, or the one
request has been dealt with. `BackupPool` never stops and is checked for deadlock.

## 5. What is proved

The eight proof modules hold for every value of the constants. What they assume of them is
named in the modules, and TLC evaluates it on every run: kinds of sets and numbers
(`TransfersAssumption`, `VolumeOfAssumption`, `BoundsAssumption`, `VolumesAssumption`,
`NotificationsAssumption`); that a source and an archive are not empty, nothing about sizes
(`MigrationAssumption`, `RestoreAssumption`); that a batch is a finite list whose items have
tasks of their own (`BatchAssumption`: ids are fresh `uuid4`s); that the parts of an archive's
name are not timestamps (`BackupAssumption`); that `None` and `Torn` are no ids, schedules or
tables (`NoneAssumption`, `SchedulerAssumption`). Bounds are arbitrary numbers: a theorem holds
for as many requests, restarts and changes as one likes. Two theorems have a hypothesis more,
named below (`NamesApart` and `DistinctLabels`).

Each module has an inductive invariant `IInv`, a conjunction of named parts, with one lemma
that `Init` establishes it and, for each action, lemmas that it keeps it. TLC checked each
`IInv` as an invariant of the module's run before it was proved.

**`TaskQueueProofs`.** `IInv` joins `TypeOK`, `OneRunning` and `NoLostKill` with three facts
none of them is inductive without: `WorkerInv` (at each position of the worker, which status
its task may have; after a late start it may be "cancelled" while it runs), `HttpInv` (at
each position of the cancel after its first, the flag is set) and `DiskInv` (whatever has
completed or failed on disk has done so in memory; after a save that succeeded, every outcome in
memory is on disk). From it: `TypeCorrect`, `OneRunningAtATime`,
`KillIsNotLost`, `OutcomesAreStable`, `LocksAreHeld` (an invariant of its own, with
one case per action that touches a lock), `RestartIsAllOrNothing` (from `DiskInv`, through a
whole and a torn file), and `QueueIsSerial`, the refinement: initial
states map to initial states and each step to a step of `SerialQueue` or a stutter.
`OutcomeToldOnce` needs `NotesInv`, which counts the notifications a task may still get: one
that is open, flagged or not, has had one at most if it was finalized by a cancel and then
started. `EarlyCancelsHold` shows that the set of states in which a flagged task can no longer
become "completed" (`Flagged`) is never left but by a restart. `NoTaskForgotten` is what
`EveryTaskEnds` needs beside fairness: `QueueInv` says that a pending task is in the queue or in
the worker's hand, that nothing is there twice, and that what is there is pending or was
cancelled while it waited; so an idle worker has left no task open.

**`MigrationProofs`.** `IInv` says, position by position, what is known of the copy:
`StopInv` (containers that had to stop do not run while rsync does), `RsyncInv` and
`OutcomeInv` (no success without rsync's), `SourceInv` (the source is complete until it is
deleted), `CopyInv` (what rsync has passed is whole and, if nobody writes, the latest) and
`EndInv`. `CleanInv`, `ContainersInv` and `Stopped` are inductive relative to it. From them:
`TypeCorrect`, `CompletedCopied`, `SourceIsSafe`, `NothingPartialLeft`, `ContainersComeBack`,
`EarlyCancelSavesSource`. That verification by size proves nothing by itself does not
matter: the argument rests on rsync's exit status alone. Two theorems draw the line around what
`MigrationMerge` shows: `MergesKeepFiles`, that a merge which completes has lost none of the
destination's own files (`StillThere` is kept by every step, for the cleanup leads to no
"completed"), and `OnlyCleanupLoses`, that no other step takes one away.

**`RestoreProofs`.** `TempInv` (what may be in the extraction directory at which position),
`PlaceInv` (what the copy or upload has passed is in place), `VolInv` (a local destination is
as it was, or less, until it becomes the restored volume in one step), `EndInv` and
`LeftInv` (where the extraction directory may exist). From it: `TypeCorrect`,
`CompletedRestored`, `LocalIsAtomic`, `LocalNoMixture`, `TempIsRemoved`, `LocalMergeKeeps`.
These are mostly about local pools. `DestInv` says of both kinds what the destination may hold at
each position, and gives what holds of remote ones too: `FilesAreWhole` (half a file is seen in a
local merge only), `EarlyCancelHolds` (a restore cancelled before the extraction is over touches
nothing), `MergeLosesOnlyInDrop` and `MergesKeepFiles` (a merge loses a file by the removal after
a cancel alone, and never when it completes).

`IInv` of `Migration` and the others hold through `ListFails` and `Crash`, too.

**`BatchRunProofs`**, for any number of items. That an item's task is closed when the worker
goes on is not inductive without what came before: `OthersInv` says that the items before
`idx` are closed or were skipped and those after it have no task, `CurrentInv` which status
the current one has at each position, and `PositionInv` that the worker is at an item only
while there is one. `ResultsInv` ties the results dictionary to the statuses, and `SummaryInv`
the summary to the count. From them: `ItemsClosed`, `CompletedTellsTruth`, `CancelStopsItems`
and `SummaryTruth`. The last assumes `DistinctLabels`, because the code keeps its results by
label (section 6); without it only the half about "completed" holds, which
`CompletedTellsTruth` states. `SummaryIsFinalized` is the safety half of `CancelledSummaryEnds`:
no batch is left behind with an open summary, but the one whose schedule was deleted.

**`BackupPoolProofs`**, for any volumes, names and retention. `ArchiveInv` follows the archive
of the current backup: at which position it is in the staging area or in the pool, and what
it holds there; `PartialInv` says which archives may be incomplete. From them:
`CompletedIsWhole` and `NoPartialLeft`. `RetentionLeavesLast` needs `RegularInv`: as long as
the clock goes forward and only complete archives are there, names sort in the order of
completion (`InOrder`, `InTime`), so that what the code takes for the oldest is. The rest is a
count: an archive that is deleted is followed by as many as are kept. It assumes `NamesApart`,
that no archive of another volume matches the pattern, which is what `BackupPoolNames` shows
that the code does not see to. `RetentionLeavesEnough` needs neither it nor a regular clock:
however many archives match, at least as many as are to be kept stay, and in a local pool the
ones with the least names go. It rests on `NameOrder` (names, as sequences of parts, are in a
strict total order; two that differ have a first place where they do, by well-founded
induction over places), `FirstFacts` and `HeldFinite` (there are finitely many archives).

**`SchedulerProofs`**, for any ids, expressions and pools. `PlanInv` lists the sequences of
steps that a handler may have left (`Plans`) and says for each how memory and trigger agree;
`TriggersInv` that those of other schedules agree; `FileInv` that the file has what was last
answered or what the call under way has made of it; `UsedInv` that no id comes back, without
which a trigger of a deleted schedule would fire for a new one; `LateInv` that at most one
thread is on its way; `RunInv` what the run in the worker still holds. From them:
`TriggersFollowSchedules`, `OneRunAfterDisable`, `RetentionLooksThere`, `RestartFindsSchedules`.

The last part is about `CronDays`. Its run has all fields of one or two parts; a field may have
any number of them, and a part any numbers. `AnswerInv` says what the answer of
`make_cron_trigger` is; `DayFacts`, `PartFires` and `PartRefused` reduce each part to its days or
its refusal, and `AnswerIsCrontab` puts the parts together. From it: `SchedulesRunOnTheirDays`.

**`VolumesProofs`**, for any names, containers and requests. `QueueInv` and `LateInv` say which
requests may still take effect: each number is in the queue once, and one that was given up
has left it or is ending, so nothing is done twice. `WorkerInv` says what has been done at each
position, `SizesInv` that every size, stored or about to be, is that of a volume that had the
name. From them: `SizesAreOwn`, `PermissionsAreRestored` and `PoolKeepsPromise`, the
refinement of `VolumePool`, step by step. `VolumesHaveOneName` shows what the refinement is good
for: it is proved of the abstract steps alone (`PoolInv`: open requests have numbers of their
own, and no volume has one of them) and holds of `Volumes` because that implements them.

**`NotificationsProofs`**, for any configurations, forms and jobs. The dictionaries a thread
has still to look at are the current ones of their configurations, but for those edited since
(`CurrentInv`); a configuration has one turn in a thread (`OnceInv`); the file holds what the
dictionaries do (`SavedInv`). From them: `OneMessage`, `ToggleSilences`, `ConfigurationsStay`.
`NobodyForgotten` is the safety half of `EveryoneTold`: a configuration that a thread has to tell
stays on its list, or its message is on its way, or was sent once, from any moment after which
nobody switches it off and the program runs on. It needs `TellInv`: a new dictionary has a number
that none of its
configuration's had, so it takes the place of none on a list, and a thread sends one message at
a time.

Model-checked only: what needs fairness (`CancelEnds`, `EveryTaskEnds`, `CancelledSummaryEnds`,
`SizesSettle`, `EveryoneTold`), which is out of the prover's reach. What can be proved of them is
that nothing is lost on the way: `KillIsNotLost`, `NoTaskForgotten`, `SummaryIsFinalized` and
`NobodyForgotten` are those halves. `SizesSettle` has none: a size that is missing is asked for
again by the next listing, whatever became of the last.

## 6. Where the code departs from its documentation

With a run that shows it:

- **A merge that deletes** (`MigrationMerge`). The cleanup after a failure removes the whole
  destination, with the files only it had. With verification, a merge into a volume that has
  files of its own always fails, as totals of bytes are compared.
- **Retention across volumes** (`BackupPoolNames`). `{pool}_{volume}_*.tar.gz`
  (`scheduler_service.py:306`) matches the archives of `db_old` when `db` is meant.

Without one; the properties make room for them, or do not reach them:

- **A second notification.** A pending task cancelled after `_worker_loop` has read its status
  is set to running by `start_task`, which refuses only a task that is already running
  (`task_queue.py:95`, `:164`). It is then finalized, and notified, a second time, where
  `task_queue.py:186` says "don't re-stamp or fire a second notification"; and it does start,
  where `routes.py:983` says that a cancelled pending task "never starts". `NotifiedOnce` and
  `OneMessageEach` bound what comes of it.
- **A summary that never ends.** A schedule deleted while its run waits leaves the summary
  "running" for good (`scheduler_service.py:213`), and a cancel changes nothing, where
  `task_queue.py:296` says that the worker will observe the flag and finalize
  (`CancelledSummaryEnds`).
- **Locks over a restart.** Nothing removes the lock files of the operation that died, so the
  volume stays locked until somebody uses the debug cleanup. `.agents.md:104`: "Container
  restart = clean slate" (`leftover` in `LocksHeld`).
- **A refresh that does not refresh.** `/api/refresh` does nothing to the cache
  (`routes.py:892`), where `README.md:189` says "Force a volume size cache refresh"; a remote
  measurement that failed is cached as 0 for good (`volume_service.py:1016`).
- **Days of the week.** `0-7` runs on Sundays only, `0-3` is refused, and `*/2` counts from
  Monday, where the docstring of `make_cron_trigger` (`validation.py:152`) promises "correct
  crontab day-of-week semantics" (`Common` in `AsCrontab`).

Seen while modelling, and carved out of a property at the place named:

- `task_queue.py:304`: a cancel of a batch between `add_task` and `start_task` of an item
  flags the summary only; the item's child runs to its end (`NoItemAfterCancel` speaks of
  later items).
- `routes.py:915`: the cleanup removes the lock of the running operation (`LocksHeld`).
- `bulk_service.py:129`: two items with one label count as one, and one as failed
  (`SummaryTellsTruth` is, of failures, for distinct labels).
- `container_control.py:55`: when the second container does not stop, the first is forgotten
  (`ContainersBack` is for containers that were all stopped).
- `routes.py:281` and `:572`: the destination is checked at the request, not when the task
  runs. A migration then writes into, and may delete, a volume that came into being
  meanwhile; a remote restore mixes with it. A local restore does not (`NoResolutionNoMixture`).
- `migration_service.py:138`: a cancel during the verification is accepted and ignored, and
  the source deleted (`EarlyCancelKeepsSource`).
- `routes.py:282`: a migration onto itself that fails removes the only copy (`samePlace`).
- `migration_service.py:271`: a pull job that is given up goes on writing after the cleanup
  (`bothRemote`).
- `task_queue.py:384`: an error of `_save_tasks` is swallowed, so a restart may tell another
  outcome than users were told: "failed" for what had completed (`unsaved` in `OutcomeStable` and
  `RestartRecovers`).
- `scheduler_service.py:256`: when a backup raises before its `try` block the item counts as
  failed, and its task stays "pending" until the next restart (`raised` in `ChildrenClosed`).
- `backup_service.py:247`: when tar ends with 1 the archive is accepted unless a line of its
  output matches a pattern; an error that none matches ("short read" of another tar) leaves an
  archive that lacks something, which verification finds if it cannot be listed and was asked for
  (`short` and `bad` in `CompletedMeansWhole` and `NoPartialArchive`).
- `backup_service.py:384` and five more: an extraction directory that cannot be removed stays
  in silence (`stuck` in `NoTempLeft`).
- `backup_service.py:186`: an archive that fails verification stays, and retention counts it;
  after the clock goes back, retention takes the newest for older (`regular`).
- `backup_service.py:425`: a remote restore that fails leaves a part; one that is cancelled
  deletes the whole destination, also of a merge (`NeverHalfRestored`, `LocalMergeKeepsUnique` are
  about local pools).
- `scheduler_service.py:66`: a crash inside `write_text` tears the file, and the next start
  takes it for no schedules at all; an error of `_save` is swallowed (`RestartKeepsJobs`).
- `scheduler_service.py:266`: an update while a run goes on can send its retention to
  another pool than its backup (`RetentionFollowsBackup`).
- `remote_api_client.py:122`: an error of the v-helper's container listing is swallowed, so a
  task that was to stop the containers runs beside them (`ListFails`).
- `volume_service.py:544`: a rename or delete stops containers and never starts them again; only
  a change of permissions keeps their names (`Stop` of `Volumes`).
- `routes.py:457`: the backup that confirms a delete is any archive with the volume's name
  somewhere in its own (`volume_service.py:966`).

## 7. What is not modelled

- **Content.** Files have versions, not bytes; names are atomic except those of archives.
  Logs, progress percentages, messages and the layout of responses are left out.
- **Empty volumes.** A volume without files and no volume at all are one value in `Migration`
  and `Restore`.
- **Several top-level entries in an archive**, staging directories that a crash leaves
  behind, and the choice of an archive or target name from ambiguous names
  (`_derive_restore_volume`, `_find_backups`).
- **Errors of the file system** in three more places: a lock file that cannot be removed
  (`remove_lockfile` logs it), a task file that cannot be read at the start although it is whole
  (taken for none, as a torn one is), and a staging area that cannot be emptied.
- **Remote pulls** through the v-helper have no registered process; `TaskQueue` has children
  that are registered only. `BatchRun` has one child per item.
- **Volume operations**: the confirmation of a delete without backups is a check on the request;
  a delete that stops half way would need volumes with files, which `Migration` has; a crash in
  a volume operation leaves what is there. Items of a bulk action are not in `Volumes`: they run
  the same functions.
- **Notifications**: the wording of messages, templates and the test message are formatting
  and I/O; what becomes of a message at Telegram is not known to the code. Building a message is
  taken to succeed: `_build_message` is evaluated outside the `try` of `_send`, and an exception
  in it would end the thread. The timeout of `urlopen` is one for each operation on the socket; a
  server that answers byte by byte for ever is left out.
- **Sessions** are a dictionary with one access per request; **log capture** a buffer that no
  decision depends on; the **configuration** is read once.
- **Validation** of names, modes and owners: the models take requests that passed it.
  **Docker and v-helper clients**: their calls are done, refused, or given up and done later
  nondeterministically. **The web page** keeps no state the server needs.

## 8. Plan

Done, in this order: `TaskTable`, `TaskQueue`, `SerialQueue` and `TaskQueueProofs`;
`BatchRun`; `Migration` and `MigrationProofs`; `BackupPool`; `Restore` and `RestoreProofs`;
`Scheduler`; torn files and left locks in `TaskQueue`, crashes in `Migration`; `Volumes` and
`VolumePool`; `Notifications`; `CronDays`; the rest of `TaskQueueProofs`; `BatchRunProofs`,
`VolumesProofs`, `NotificationsProofs`, `SchedulerProofs`, `BackupPoolProofs`; then what the runs
do not ask: merges that complete, remote restores, retention in any pool, the order of the queue,
the names of volumes, the safety halves of liveness, and the days of a schedule.

Open: which archives retention leaves of a volume whose pattern matches those of another (as many
as are kept stay, but not of which volume); that a remote migration that is neither cancelled nor
fails to clean up leaves what it found or the whole. Six hazards of `PROJECT.json` have no
property, because the code does nothing against them; the `note` of each says so.
