----------------------------- MODULE TaskQueue -----------------------------
(***************************************************************************)
(* The sequential task queue (services/task_queue.py) with the threads     *)
(* that share it: the single worker, the event loop that serves the HTTP   *)
(* requests (one at a time: no handler awaits), and the child process the  *)
(* running task waits for (rsync or tar).                                  *)
(*                                                                         *)
(* A task is either a transfer (migrate, backup, restore), which locks a   *)
(* volume and runs child processes one after the other, or a plain task    *)
(* (create, rename, delete), which does its work in the worker thread.     *)
(* One step is what a thread does between two points where another thread  *)
(* can observe or change the shared state.                                 *)
(***************************************************************************)
EXTENDS TaskTable, Sequences

CONSTANTS
  Transfers,    \* the tasks that run child processes
  LockChecked,  \* the transfers whose endpoint refuses a locked volume
  Volumes,      \* names of lock files: one for each locked pool and volume
  VolumeOf,     \* the lock file of each transfer
  MaxPhases,    \* child processes one transfer may run
  MaxCrashes,   \* bound on restarts of the program
  MaxCleanups   \* bound on uses of /api/debug/cleanup

ASSUME TransfersAssumption == Transfers \subseteq Tasks /\ LockChecked \subseteq Transfers
ASSUME VolumeOfAssumption == VolumeOf \in [Transfers -> Volumes]
ASSUME BoundsAssumption ==
  MaxPhases \in Nat \ {0} /\ MaxCrashes \in Nat /\ MaxCleanups \in Nat

VARIABLES
  fifo,        \* self._work_queue
  wpc,         \* where the worker thread is
  wtask,       \* the task it took
  phasesLeft,  \* child processes the running transfer still has to run
  proc,        \* its current child process
  procs,       \* self._procs: the tasks whose child process it holds
  hpc,         \* where the event loop is, in request_cancel
  htask,       \* the task being cancelled
  hphase,      \* which child of htask _terminate_process got from _procs
  locks,       \* lock files that exist
  leftover,    \* those of operations that the last restart cut off
  crashes,
  cleanups

workerVars == <<wpc, wtask, phasesLeft, procs>>
httpVars == <<hpc, htask, hphase>>
boundVars == <<crashes, cleanups>>
lockVars == <<locks, leftover>>
vars == <<tableVars, fifo, workerVars, proc, httpVars, lockVars, boundVars>>

Alive == {"live", "termed"}            \* "termed": SIGTERM was sent
ProcStates == {"none", "ok", "err"} \cup Alive

\* In the order the worker passes them.
LockedPcs == {"service", "spawn", "register", "kill", "grace", "stream", "verdict",
              "endOk", "endFail", "endCancelled", "release"}
BegunPcs == {"enter", "missing", "work"} \cup LockedPcs
WorkerPcs == {"idle", "check", "start"} \cup BegunPcs
HttpPcs == {"idle", "flag", "branch", "finalize", "lookup", "signal", "grace"}

TypeOK ==
  /\ TableTypeOK
  /\ fifo \in Seq(Tasks)
  /\ wpc \in WorkerPcs
  /\ wtask \in Tasks \cup {None}
  /\ phasesLeft \in 0..MaxPhases
  /\ proc \in ProcStates
  /\ procs \in SUBSET Tasks
  /\ hpc \in HttpPcs
  /\ htask \in Tasks \cup {None}
  /\ hphase \in 0..MaxPhases
  /\ locks \in SUBSET Volumes
  /\ leftover \in SUBSET Volumes
  /\ crashes \in 0..MaxCrashes
  /\ cleanups \in 0..MaxCleanups

Init ==
  /\ TableInit
  /\ fifo = <<>>
  /\ wpc = "idle" /\ wtask = None /\ phasesLeft = 0
  /\ proc = "none" /\ procs = {}
  /\ hpc = "idle" /\ htask = None /\ hphase = 0
  /\ locks = {} /\ leftover = {}
  /\ crashes = 0
  /\ cleanups = 0

----------------------------------------------------------------------------
(* The worker thread: _worker_loop and the runnable it calls.              *)

WorkerAt(from, to) ==
  /\ wpc = from
  /\ wpc' = to
  /\ UNCHANGED <<httpVars, boundVars>>

\* Variant with a bug: a stack instead of a queue.
TakeNewest ==
  /\ WorkerAt("idle", "check")
  /\ fifo # <<>>
  /\ wtask' = fifo[Len(fifo)]
  /\ fifo' = SubSeq(fifo, 1, Len(fifo) - 1)
  /\ UNCHANGED <<tableVars, phasesLeft, procs, proc, lockVars>>

\* self._work_queue.get()
Take ==
  /\ WorkerAt("idle", "check")
  /\ fifo # <<>>
  /\ wtask' = Head(fifo)
  /\ fifo' = Tail(fifo)
  /\ UNCHANGED <<tableVars, phasesLeft, procs, proc, lockVars>>

Check ==
  /\ WorkerAt("check", "start")
  /\ status[wtask] = "pending"
  /\ UNCHANGED <<tableVars, fifo, wtask, phasesLeft, procs, proc, lockVars>>

Skip ==
  /\ WorkerAt("check", "idle")
  /\ status[wtask] # "pending"
  /\ wtask' = None
  /\ UNCHANGED <<tableVars, fifo, phasesLeft, procs, proc, lockVars>>

Start ==
  /\ WorkerAt("start", IF wtask \in Transfers THEN "enter" ELSE "work")
  /\ StartTask(wtask)
  /\ UNCHANGED <<fifo, wtask, phasesLeft, procs, proc, lockVars>>

\* A plain runnable: it reports success or failure and never polls the flag.
Work ==
  /\ \E to \in {"endOk", "endFail"} : WorkerAt("work", to)
  /\ UNCHANGED <<tableVars, fifo, wtask, phasesLeft, procs, proc, lockVars>>

\* The pools of the task are looked up before anything is locked.
\* A lock file that cannot be written has the same end: create_lockfile raises
\* and the worker loop finalizes the task.
PoolMissing ==
  /\ WorkerAt("enter", "missing")
  /\ UNCHANGED <<tableVars, fifo, wtask, phasesLeft, procs, proc, lockVars>>

\* create_lockfile overwrites a lock file that is already there.
CreateLock ==
  /\ WorkerAt("enter", "service")
  /\ locks' = locks \cup {VolumeOf[wtask]}
  /\ phasesLeft' \in 1..MaxPhases
  /\ UNCHANGED <<tableVars, fifo, wtask, procs, proc, leftover>>

\* The service calls start_task a second time.
ServiceStart ==
  /\ WorkerAt("service", "spawn")
  /\ StartTask(wtask)
  /\ UNCHANGED <<fifo, wtask, phasesLeft, procs, proc, lockVars>>

Spawn ==
  /\ WorkerAt("spawn", "register")
  /\ proc' = "live"
  /\ UNCHANGED <<tableVars, fifo, wtask, phasesLeft, procs, lockVars>>

\* A container did not stop, a path is missing, Popen raised.
SpawnFails ==
  /\ WorkerAt("spawn", "endFail")
  /\ UNCHANGED <<tableVars, fifo, wtask, phasesLeft, procs, proc, lockVars>>

\* Variant with a bug: the flag is not read when the process is published.
RegisterWithoutFlag ==
  /\ WorkerAt("register", "stream")
  /\ procs' = procs \cup {wtask}
  /\ UNCHANGED <<tableVars, fifo, wtask, phasesLeft, proc, lockVars>>

\* Publishing the process and reading the flag are one critical section.
RegisterProcess ==
  /\ WorkerAt("register", IF wtask \in cancelled THEN "kill" ELSE "stream")
  /\ procs' = procs \cup {wtask}
  /\ UNCHANGED <<tableVars, fifo, wtask, phasesLeft, proc, lockVars>>

\* _terminate_process called by the worker itself: SIGTERM unless it exited.
WorkerKill ==
  /\ WorkerAt("kill", IF proc \in Alive THEN "grace" ELSE "stream")
  /\ proc' = IF proc \in Alive THEN "termed" ELSE proc
  /\ UNCHANGED <<tableVars, fifo, wtask, phasesLeft, procs, lockVars>>

\* wait(CANCEL_GRACE_SECONDS), then SIGKILL.
WorkerGrace ==
  /\ WorkerAt("grace", "stream")
  /\ proc' = IF proc \in Alive THEN "err" ELSE proc
  /\ UNCHANGED <<tableVars, fifo, wtask, phasesLeft, procs, lockVars>>

Progress ==
  /\ wpc = "stream"
  /\ proc \in Alive
  /\ UpdateProgress
  /\ UNCHANGED <<fifo, workerVars, proc, httpVars, lockVars, boundVars>>

\* The output ended: unregister_process in the finally block.
Unregister ==
  /\ WorkerAt("stream", "verdict")
  /\ proc \notin Alive
  /\ procs' = procs \ {wtask}
  /\ UNCHANGED <<tableVars, fifo, wtask, phasesLeft, proc, lockVars>>

VerdictCancelled ==
  /\ WorkerAt("verdict", "endCancelled")
  /\ wtask \in cancelled
  /\ UNCHANGED <<tableVars, fifo, wtask, phasesLeft, procs, proc, lockVars>>

VerdictNextPhase ==
  /\ WorkerAt("verdict", "spawn")
  /\ wtask \notin cancelled
  /\ proc = "ok"
  /\ phasesLeft > 1
  /\ phasesLeft' = phasesLeft - 1
  /\ proc' = "none"
  /\ UNCHANGED <<tableVars, fifo, wtask, procs, lockVars>>

\* Variant with a bug: a child that ended well is not asked about a cancel.
VerdictUnasked ==
  /\ \E to \in {"endOk", "endFail"} : WorkerAt("verdict", to)
  /\ proc = "ok"
  /\ phasesLeft = 1
  /\ UNCHANGED <<tableVars, fifo, wtask, phasesLeft, procs, proc, lockVars>>

\* The last child succeeded: verification, which a cancel no longer stops.
VerdictLast ==
  /\ \E to \in {"endOk", "endFail"} : WorkerAt("verdict", to)
  /\ wtask \notin cancelled
  /\ proc = "ok"
  /\ phasesLeft = 1
  /\ UNCHANGED <<tableVars, fifo, wtask, phasesLeft, procs, proc, lockVars>>

VerdictFailed ==
  /\ WorkerAt("verdict", "endFail")
  /\ wtask \notin cancelled
  /\ proc # "ok"
  /\ UNCHANGED <<tableVars, fifo, wtask, phasesLeft, procs, proc, lockVars>>

EndOk ==
  /\ WorkerAt("endOk", "release")
  /\ CompleteTask(wtask, TRUE)
  /\ UNCHANGED <<fifo, wtask, phasesLeft, procs, proc, lockVars>>

EndFail ==
  /\ WorkerAt("endFail", "release")
  /\ CompleteTask(wtask, FALSE)
  /\ UNCHANGED <<fifo, wtask, phasesLeft, procs, proc, lockVars>>

EndCancelled ==
  /\ WorkerAt("endCancelled", "release")
  /\ FinalizeCancelled(wtask)
  /\ UNCHANGED <<fifo, wtask, phasesLeft, procs, proc, lockVars>>

\* Variant with a bug: the early return forgets to finalize the task.
EndMissingSilently ==
  /\ WorkerAt("missing", "idle")
  /\ wtask' = None
  /\ UNCHANGED <<tableVars, fifo, phasesLeft, procs, proc, lockVars>>

\* The early return on a missing pool: no lock was taken, none is removed.
EndMissing ==
  /\ WorkerAt("missing", "idle")
  /\ CompleteTask(wtask, FALSE)
  /\ wtask' = None
  /\ UNCHANGED <<fifo, phasesLeft, procs, proc, lockVars>>

\* Variant with a bug: only a successful operation unlocks.
ReleaseOnSuccess ==
  /\ WorkerAt("release", "idle")
  /\ locks' = IF wtask \in Transfers /\ status[wtask] = "completed"
                 THEN locks \ {VolumeOf[wtask]} ELSE locks
  /\ wtask' = None
  /\ phasesLeft' = 0
  /\ proc' = "none"
  /\ UNCHANGED <<tableVars, fifo, procs, leftover>>

OwnLock == IF wtask \in Transfers THEN {VolumeOf[wtask]} ELSE {}

\* The service's finally block and task_done().  A lock file left over of the
\* same volume is the same file.
Release ==
  /\ WorkerAt("release", "idle")
  /\ locks' = locks \ OwnLock
  /\ leftover' = leftover \ OwnLock
  /\ wtask' = None
  /\ phasesLeft' = 0
  /\ proc' = "none"
  /\ UNCHANGED <<tableVars, fifo, procs>>

\* What the worker does without waiting for its child; unfair Progress is apart.
WorkerNext ==
  \/ Take \/ Check \/ Skip \/ Start \/ Work
  \/ PoolMissing \/ CreateLock \/ ServiceStart \/ Spawn \/ SpawnFails
  \/ RegisterProcess \/ WorkerKill \/ WorkerGrace \/ Unregister
  \/ VerdictCancelled \/ VerdictNextPhase \/ VerdictLast \/ VerdictFailed
  \/ EndOk \/ EndFail \/ EndCancelled \/ EndMissing \/ Release

----------------------------------------------------------------------------
(* The event loop: an endpoint that enqueues a task, and request_cancel.   *)

HttpAt(from, to) ==
  /\ hpc = from
  /\ hpc' = to
  /\ UNCHANGED <<fifo, workerVars, lockVars, boundVars>>

\* is_volume_locked, add_task and submit, in one handler that never awaits.
Enqueue(t) ==
  /\ hpc = "idle"
  /\ t \in LockChecked => VolumeOf[t] \notin locks
  /\ AddTask(t)
  /\ fifo' = Append(fifo, t)
  /\ UNCHANGED <<workerVars, proc, httpVars, lockVars, boundVars>>

CancelBegin(t) ==
  /\ HttpAt("idle", "flag")
  /\ status[t] \in {"pending", "running"}
  /\ htask' = t
  /\ UNCHANGED <<tableVars, proc, hphase>>

CancelFlag ==
  /\ HttpAt("flag", "branch")
  /\ FlagCancelled({htask})
  /\ UNCHANGED <<proc, htask, hphase>>

\* The status is read a second time, without the lock.
CancelBranch ==
  /\ HttpAt("branch", IF status[htask] = "pending" THEN "finalize" ELSE "lookup")
  /\ UNCHANGED <<tableVars, proc, htask, hphase>>

CancelFinalize ==
  /\ HttpAt("finalize", "idle")
  /\ FinalizeCancelled(htask)
  /\ htask' = None
  /\ UNCHANGED <<proc, hphase>>

CancelLookup ==
  /\ HttpAt("lookup", "signal")
  /\ htask \in procs
  /\ hphase' = phasesLeft
  /\ UNCHANGED <<tableVars, proc, htask>>

CancelNoProcess ==
  /\ HttpAt("lookup", "idle")
  /\ htask \notin procs
  /\ htask' = None
  /\ UNCHANGED <<tableVars, proc, hphase>>

\* The child that was looked up is still the one the worker waits for.
SameChild == wtask = htask /\ phasesLeft = hphase /\ proc \in Alive

CancelSignal ==
  /\ HttpAt("signal", IF SameChild THEN "grace" ELSE "idle")
  /\ proc' = IF SameChild THEN "termed" ELSE proc
  /\ htask' = IF SameChild THEN htask ELSE None
  /\ hphase' = IF SameChild THEN hphase ELSE 0
  /\ UNCHANGED tableVars

\* Variant with a bug: no SIGKILL after the grace period.
CancelGraceNoKill ==
  /\ HttpAt("grace", "idle")
  /\ htask' = None
  /\ hphase' = 0
  /\ UNCHANGED <<tableVars, proc>>

CancelGrace ==
  /\ HttpAt("grace", "idle")
  /\ proc' = IF SameChild THEN "err" ELSE proc
  /\ htask' = None
  /\ hphase' = 0
  /\ UNCHANGED tableVars

CancelNext ==
  \/ CancelFlag \/ CancelBranch \/ CancelFinalize \/ CancelLookup
  \/ CancelNoProcess \/ CancelSignal \/ CancelGrace

----------------------------------------------------------------------------
(* The child process, the operator of the program, and crashes.            *)

ProcExit ==
  /\ proc \in Alive
  /\ proc' \in {"ok", "err"}
  /\ UNCHANGED <<tableVars, fifo, workerVars, httpVars, lockVars, boundVars>>

\* /api/debug/cleanup unlinks the task file and every lock file.
DebugCleanup ==
  /\ hpc = "idle"
  /\ cleanups < MaxCleanups
  /\ cleanups' = cleanups + 1
  /\ disk' = NoTasks /\ unsaved' = TRUE
  /\ locks' = {} /\ leftover' = {}
  /\ UNCHANGED <<status, runningId, cancelled, notes,
                 fifo, workerVars, proc, httpVars, crashes>>

\* The program dies and starts again; its child dies with the container.
\* Lock files are neither removed nor looked at by __init__.
Reboot ==
  /\ crashes < MaxCrashes
  /\ crashes' = crashes + 1
  /\ fifo' = <<>>
  /\ wpc' = "idle" /\ wtask' = None /\ phasesLeft' = 0
  /\ proc' = "none" /\ procs' = {}
  /\ hpc' = "idle" /\ htask' = None /\ hphase' = 0
  /\ leftover' = locks
  /\ UNCHANGED <<locks, cleanups>>

Restart == Reboot /\ LoadTasks

\* A thread may be inside _save_tasks: a request that adds a task, a progress
\* report, a finalize.
MaySave ==
  \/ hpc \in {"idle", "finalize"}
  \/ wpc \in {"stream", "missing", "endOk", "endFail", "endCancelled"}

\* write_text had truncated the file when the program died.
RestartTorn == Reboot /\ MaySave /\ LoadTornFile

Next ==
  \/ WorkerNext
  \/ Progress
  \/ CancelNext
  \/ \E t \in Tasks : Enqueue(t) \/ CancelBegin(t)
  \/ ProcExit
  \/ DebugCleanup
  \/ Restart
  \/ RestartTorn

Spec == Init /\ [][Next]_vars

\* Neither thread stops for ever; nothing is assumed of the child process.
FairSpec == Spec /\ WF_vars(WorkerNext) /\ WF_vars(CancelNext)

----------------------------------------------------------------------------
(* Properties.                                                             *)

\* Tasks run one at a time (_worker_loop, "strictly one at a time"): the only
\* running task is the one the worker began, and running_task_id, which
\* request_cancel trusts to find a child, never names another one.
OneRunning ==
  \A t \in Tasks :
    /\ status[t] = "running" => t = wtask /\ wpc \in BegunPcs /\ runningId = t
    /\ runningId = t => status[t] = "running"

\* A cancel is not lost between request_cancel and register_process: when a
\* child whose task is flagged runs unsignalled, the worker is about to kill
\* it in register_process or the request in progress is about to.
NoLostKill ==
  (wtask \in procs \cap cancelled /\ proc = "live") =>
    \/ wpc = "kill"
    \/ /\ htask = wtask
       /\ \/ hpc \in {"branch", "lookup"}
          \/ hpc = "signal" /\ hphase = phasesLeft

HeldLocks == IF wpc \in LockedPcs /\ wtask \in Transfers THEN {VolumeOf[wtask]} ELSE {}

\* A volume is locked while the worker is inside the operation that locked it,
\* whichever way the operation ends (the finally blocks of the services), and at
\* no other time but for the lock files of operations that a restart cut off:
\* nothing removes one of those until an operation that does not look at locks
\* works on the volume, or /api/debug/cleanup is called.
LocksHeld ==
  /\ locks \subseteq HeldLocks \cup leftover
  /\ cleanups = 0 => locks = HeldLocks \cup leftover

\* "completed" and "failed" are for ever, over late cancels, a second finalize
\* and restarts (complete_task, "first finalize wins").  A restart that finds no
\* task file, or a torn one, forgets the task altogether; one that finds an older
\* file, as saves had failed, may take the task for one that was cut off, or for
\* the cancelled one it was before it was begun.
OutcomeStable ==
  [][\A t \in Tasks : status[t] \in {"completed", "failed"} =>
       \/ status'[t] = status[t]
       \/ crashes' # crashes /\ status'[t] = "absent"
       \/ crashes' # crashes /\ unsaved /\ status'[t] \in {"failed", "cancelled"}]_vars

\* What _load_tasks makes of a task: its outcome is the one that was told, and
\* whatever was open has failed or, cancelled before it was begun, is cancelled.
Recovered(t) ==
  /\ status'[t] = "absent" <=> status[t] = "absent"
  /\ status[t] \in Final => status'[t] = status[t]
  /\ status'[t] \notin {"pending", "running"}

\* A restart is all or nothing: every task that was answered to a user comes
\* back with the outcome it had, or, when _save_tasks was cut off while it wrote,
\* none does.  One save that succeeds is enough, after any that failed and after
\* the file was removed.  Without it tasks are lost or have an older status, but
\* none is open and none has "completed" that had not.
RestartRecovers ==
  [][crashes' # crashes =>
       /\ \A t \in Tasks :
            /\ status'[t] \notin {"pending", "running"}
            /\ status'[t] = "completed" => status[t] = "completed"
       /\ ~unsaved =>
            (\A t \in Tasks : Recovered(t)) \/ (\A t \in Tasks : status'[t] = "absent")]_vars

\* A transfer flagged before the flag is read for the last time, even while it
\* was still pending, never ends "completed" (is_cancelled in the services), as
\* long as the table that holds it is not lost and its id not used again.
EarlyCancelHolds ==
  \A t \in Transfers :
    []((/\ t \in cancelled
        /\ status[t] \in {"pending", "running"}
        /\ ~(wtask = t /\ wpc \in {"endOk", "endFail", "release"}))
       => [](status[t] = "completed" => crashes > 0))

\* The queue implements SerialQueue.  The task the worker took and has not
\* begun is still at the head of the abstract queue.
Known == {t \in Tasks : status[t] # "absent"}
Waiting == IF wpc \in {"check", "start"} THEN <<wtask>> \o fifo ELSE fifo
Current == IF wpc \in BegunPcs THEN wtask ELSE None

Serial == INSTANCE SerialQueue WITH known <- Known, waiting <- Waiting, current <- Current

ImplementsSerialQueue == Serial!SerialSpec

\* A running task that was asked to stop reaches a final status although its
\* child process may never end by itself: SIGKILL follows SIGTERM
\* (_terminate_process).
CancelEnds ==
  \A t \in Tasks : (t \in cancelled /\ status[t] = "running") ~> (status[t] # "running")

\* Every child process ends by itself, sooner or later.
ChildrenEnd == WF_vars(ProcExit)

\* Every task that was accepted reaches a final status, through the queue, a
\* cancel, or the recovery at a restart (_load_tasks); and no operation keeps its
\* lock for ever: it is released, or cut off by a restart that leaves it behind.
EveryTaskEnds ==
  ChildrenEnd =>
    /\ \A t \in Tasks : (status[t] = "pending") ~> (status[t] \in Final \cup {"absent"})
    /\ \A v \in Volumes : (v \in locks) ~> (v \notin locks \/ v \in leftover)

\* An outcome is reported once, or a second time when a cancel fell between the
\* worker's look at the status and its start_task: a pending task that was
\* finalized by request_cancel is then started and finalized again (complete_task
\* promises that a finalized task does not "fire a second notification").
NotifiedOnce ==
  crashes = 0 =>
    \A t \in Tasks :
      /\ notes[t] <= IF t \in cancelled THEN 2 ELSE 1
      /\ status[t] \in Final => notes[t] > 0
=============================================================================
