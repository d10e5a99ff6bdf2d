------------------------------ MODULE BatchRun ------------------------------
(***************************************************************************)
(* A batch: one summary task that runs its items one after the other, each *)
(* as a task of its own, inside the worker thread.  Both batches of the    *)
(* program are here: a bulk action (services/bulk_service.py, _run) and a  *)
(* scheduled backup (services/scheduler_service.py, _run_backup_job).      *)
(* request_cancel, on the event loop, may name the summary or the item     *)
(* that runs; a schedule may be deleted while its run waits in the queue.  *)
(*                                                                         *)
(* An item is a transfer (its service polls the cancel flag, runs a child  *)
(* process and finalizes its own task) or, in a bulk action, a plain call  *)
(* (delete, permissions) that only returns a Boolean.  The signals sent to *)
(* the child are one step here; TaskQueue has them in detail.              *)
(***************************************************************************)
EXTENDS TaskTable, FiniteSets

CONSTANTS
  Summary,      \* the summary task
  SubOf,        \* the task that each item gets when its turn comes
  Label,        \* the key of each item in the results: "pool/volume"
  PlainItems    \* the items of a bulk action that are plain calls

Items == DOMAIN SubOf
N == Cardinality(Items)
Labels == {Label[i] : i \in Items}

ASSUME BatchAssumption ==
  /\ Summary \in Tasks
  /\ IsFiniteSet(Items)
  /\ Items = 1..N
  /\ SubOf \in [Items -> Tasks \ {Summary}]
  /\ \A i, j \in Items : SubOf[i] = SubOf[j] => i = j
  /\ DOMAIN Label = Items
  /\ PlainItems \subseteq Items

VARIABLES
  kind,     \* "bulk" or "scheduled"
  pc,       \* where the worker is in the batch
  idx,      \* the current item
  ok,       \* what the item's run returned
  results,  \* results[label], "none" when the dict has no such key
  raised,   \* the items whose transfer raised out of its service (history)
  proc,     \* the child process of the current item
  job,      \* self.jobs holds the schedule
  hpc,      \* where the event loop is in request_cancel
  htask,    \* task_id there
  hchild    \* child_id there

workerVars == <<kind, pc, idx, ok, results, raised>>
httpVars == <<hpc, htask, hchild>>
vars == <<tableVars, workerVars, proc, job, httpVars>>

ItemPcs == {"precheck", "substart", "run", "spawn", "stream", "verdict",
            "endOk", "endFail", "endCancelled", "work", "record", "close"}
Pcs == {"queued", "start", "job", "next", "sum", "sumCancelled", "sumDone", "done"} \cup ItemPcs
Outcomes == {"none", "ok", "failed", "skipped", "cancelled"}

TypeOK ==
  /\ TableTypeOK
  /\ kind \in {"bulk", "scheduled"}
  /\ pc \in Pcs
  /\ idx \in 1..N + 1
  /\ ok \in BOOLEAN
  /\ results \in [Labels -> Outcomes] /\ raised \subseteq Items
  /\ proc \in {"none", "live", "killed", "ok", "err"}
  /\ job \in BOOLEAN
  /\ hpc \in {"idle", "child", "flag", "branch", "finalize", "kill"}
  /\ htask \in Tasks \cup {None}
  /\ hchild \in Tasks \cup {None}

\* enqueue and _enqueue_backup_job: the summary task is in the queue.
Init ==
  /\ status = [t \in Tasks |-> IF t = Summary THEN "pending" ELSE "absent"]
  /\ disk = status /\ unsaved = FALSE
  /\ runningId = None
  /\ cancelled = {}
  /\ notes = [t \in Tasks |-> 0]
  /\ kind \in {"bulk", "scheduled"}
  /\ pc = "queued" /\ idx = 1 /\ ok = FALSE
  /\ results = [l \in Labels |-> "none"] /\ raised = {}
  /\ proc = "none"
  /\ job = TRUE
  /\ hpc = "idle" /\ htask = None /\ hchild = None

sub == IF idx \in Items THEN SubOf[idx] ELSE None
IsTransfer == kind = "scheduled" \/ idx \notin PlainItems

----------------------------------------------------------------------------
(* The worker thread.                                                      *)

Goto(from, to) ==
  /\ pc = from
  /\ pc' = to
  /\ UNCHANGED <<kind, raised, job, httpVars>>

\* The service raises, and the batch catches it: the item counts as failed.
RaiseAt(from) ==
  /\ pc = from
  /\ pc' = "record"
  /\ ok' = FALSE
  /\ raised' = raised \cup {idx}
  /\ UNCHANGED <<kind, job, httpVars>>

\* _worker_loop finds the summary pending, or finalized while it waited.
Dequeue ==
  /\ Goto("queued", IF status[Summary] = "pending" THEN "start" ELSE "done")
  /\ UNCHANGED <<tableVars, idx, ok, results, proc>>

StartSummary ==
  /\ Goto("start", IF kind = "bulk" THEN "next" ELSE "job")
  /\ StartTask(Summary)
  /\ UNCHANGED <<idx, ok, results, proc>>

JobFound ==
  /\ Goto("job", "next")
  /\ job
  /\ UNCHANGED <<tableVars, idx, ok, results, proc>>

\* "if not job: return": the summary is not finalized.
JobGone ==
  /\ Goto("job", "done")
  /\ ~job
  /\ UNCHANGED <<tableVars, idx, ok, results, proc>>

\* Variant with a bug: the flag is not polled between two items.
NextItemUnasked ==
  /\ Goto("next", "precheck")
  /\ idx <= N
  /\ UpdateProgress
  /\ UNCHANGED <<idx, ok, results, proc>>

NextItem ==
  /\ Goto("next", "precheck")
  /\ idx <= N
  /\ Summary \notin cancelled
  /\ UpdateProgress
  /\ UNCHANGED <<idx, ok, results, proc>>

StopBatch ==
  /\ Goto("next", "sum")
  /\ idx <= N
  /\ Summary \in cancelled
  /\ results' = [l \in Labels |-> IF \E i \in idx..N : Label[i] = l
                                    THEN "cancelled" ELSE results[l]]
  /\ UNCHANGED <<tableVars, idx, ok, proc>>

ItemsDone ==
  /\ Goto("next", "sum")
  /\ idx > N
  /\ UNCHANGED <<tableVars, idx, ok, results, proc>>

\* The volume is locked, or the operation's precheck gives a reason to skip it.
SkipItem ==
  /\ Goto("precheck", "next")
  /\ results' = [results EXCEPT ![Label[idx]] = "skipped"]
  /\ idx' = idx + 1
  /\ UNCHANGED <<tableVars, ok, proc>>

AddSub ==
  /\ Goto("precheck", IF kind = "bulk" THEN "substart" ELSE "run")
  /\ AddTask(sub)
  /\ UNCHANGED <<idx, ok, results, proc>>

StartSub ==
  /\ Goto("substart", "run")
  /\ StartTask(sub)
  /\ UNCHANGED <<idx, ok, results, proc>>

RunPlain ==
  /\ Goto("run", "record")
  /\ ~IsTransfer
  /\ ok' \in BOOLEAN
  /\ UNCHANGED <<tableVars, idx, results, proc>>

\* The service does not find a pool: complete_task and return False.
RunPoolMissing ==
  /\ Goto("run", "endFail")
  /\ IsTransfer
  /\ UNCHANGED <<tableVars, idx, ok, results, proc>>

\* The lock file cannot be written, which the service does before its try block:
\* the task stays as it is.
RunRaises ==
  /\ RaiseAt("run")
  /\ IsTransfer
  /\ UNCHANGED <<tableVars, idx, results, proc>>

\* The service takes its lock file and calls start_task, a second time in a bulk.
RunTransfer ==
  /\ Goto("run", "spawn")
  /\ IsTransfer
  /\ StartTask(sub)
  /\ UNCHANGED <<idx, ok, results, proc>>

SpawnFails ==
  /\ Goto("spawn", "endFail")
  /\ UNCHANGED <<tableVars, idx, ok, results, proc>>

\* Popen and register_process, which kills the child of a flagged task.
Spawn ==
  /\ Goto("spawn", "stream")
  /\ proc' = IF sub \in cancelled THEN "killed" ELSE "live"
  /\ UNCHANGED <<tableVars, idx, ok, results>>

Stream ==
  /\ Goto("stream", "verdict")
  /\ proc # "live"
  /\ UNCHANGED <<tableVars, idx, ok, results, proc>>

Verdict ==
  /\ \/ sub \in cancelled /\ Goto("verdict", "endCancelled")
     \/ sub \notin cancelled /\ proc = "ok" /\ Goto("verdict", "endOk")
     \/ sub \notin cancelled /\ Goto("verdict", "endFail")
  /\ UNCHANGED <<tableVars, idx, ok, results, proc>>

\* The service finalizes its own task and returns, unless its finally block
\* cannot remove a staged archive and raises.
EndOk ==
  /\ \/ Goto("endOk", "record") /\ ok' = TRUE
     \/ RaiseAt("endOk")
  /\ CompleteTask(sub, TRUE)
  /\ UNCHANGED <<idx, results, proc>>

EndFail ==
  /\ Goto("endFail", "record")
  /\ CompleteTask(sub, FALSE)
  /\ ok' = FALSE
  /\ UNCHANGED <<idx, results, proc>>

EndCancelled ==
  /\ Goto("endCancelled", "record")
  /\ FinalizeCancelled(sub)
  /\ ok' = FALSE
  /\ UNCHANGED <<idx, results, proc>>

\* Variant with a bug: every item that did not fail is "ok".
RecordOptimistic ==
  /\ Goto("record", "close")
  /\ results' = [results EXCEPT ![Label[idx]] =
                   IF status[sub] = "cancelled" THEN "cancelled" ELSE "ok"]
  /\ UNCHANGED <<tableVars, idx, ok, proc>>

Record ==
  /\ Goto("record", "close")
  /\ results' = [results EXCEPT ![Label[idx]] =
                   IF status[sub] = "cancelled" THEN "cancelled"
                   ELSE IF ok THEN "ok" ELSE "failed"]
  /\ UNCHANGED <<tableVars, idx, ok, proc>>

\* Variant with a bug: plain calls are left to finalize themselves.
CloseNothing ==
  /\ Goto("close", "next")
  /\ UNCHANGED tableVars
  /\ idx' = idx + 1
  /\ proc' = "none"
  /\ UNCHANGED <<ok, results>>

\* A bulk action finalizes the task of every item; most services already did.
Close ==
  /\ Goto("close", "next")
  /\ IF kind = "bulk" THEN CompleteTask(sub, ok) ELSE UNCHANGED tableVars
  /\ idx' = idx + 1
  /\ proc' = "none"
  /\ UNCHANGED <<ok, results>>

\* Variant with a bug: a cancelled batch returns without finalizing its summary.
SumUnfinished ==
  /\ Goto("sum", IF Summary \in cancelled THEN "done" ELSE "sumDone")
  /\ UNCHANGED <<tableVars, idx, ok, results, proc>>

Sum ==
  /\ Goto("sum", IF Summary \in cancelled THEN "sumCancelled" ELSE "sumDone")
  /\ UNCHANGED <<tableVars, idx, ok, results, proc>>

SumCancelled ==
  /\ Goto("sumCancelled", "done")
  /\ FinalizeCancelled(Summary)
  /\ UNCHANGED <<idx, ok, results, proc>>

\* failed = n - succeeded - skipped - cancelled
Failed == N - Cardinality({l \in Labels : results[l] \in {"ok", "skipped", "cancelled"}})

SumDone ==
  /\ Goto("sumDone", "done")
  /\ CompleteTask(Summary, Failed = 0)
  /\ UNCHANGED <<idx, ok, results, proc>>

WorkerNext ==
  \/ Dequeue \/ StartSummary \/ JobFound \/ JobGone
  \/ NextItem \/ StopBatch \/ ItemsDone \/ SkipItem \/ AddSub \/ StartSub
  \/ RunPlain \/ RunPoolMissing \/ RunRaises \/ RunTransfer \/ SpawnFails \/ Spawn
  \/ Stream \/ Verdict \/ EndOk \/ EndFail \/ EndCancelled \/ Record \/ Close
  \/ Sum \/ SumCancelled \/ SumDone

----------------------------------------------------------------------------
(* The event loop.                                                         *)

HttpGoto(from, to) ==
  /\ hpc = from
  /\ hpc' = to
  /\ UNCHANGED <<workerVars, job>>

CancelBegin(t) ==
  /\ HttpGoto("idle", "child")
  /\ status[t] \in {"pending", "running"}
  /\ htask' = t
  /\ UNCHANGED <<tableVars, proc, hchild>>

\* The child is the running task, when the task to cancel is its parent.
CancelChild ==
  /\ HttpGoto("child", "flag")
  /\ hchild' = IF htask = Summary /\ runningId # Summary THEN runningId ELSE None
  /\ UNCHANGED <<tableVars, proc, htask>>

CancelFlag ==
  /\ HttpGoto("flag", "branch")
  /\ FlagCancelled({htask, hchild} \ {None})
  /\ UNCHANGED <<proc, htask, hchild>>

CancelBranch ==
  /\ HttpGoto("branch", IF status[htask] = "pending" THEN "finalize" ELSE "kill")
  /\ UNCHANGED <<tableVars, proc, htask, hchild>>

CancelFinalize ==
  /\ HttpGoto("finalize", "idle")
  /\ FinalizeCancelled(htask)
  /\ htask' = None /\ hchild' = None
  /\ UNCHANGED proc

\* _terminate_process for the task and for its child, up to SIGKILL.
CancelKill ==
  /\ HttpGoto("kill", "idle")
  /\ proc' = IF proc = "live" /\ sub \in {htask, hchild} THEN "killed" ELSE proc
  /\ htask' = None /\ hchild' = None
  /\ UNCHANGED tableVars

CancelNext ==
  CancelChild \/ CancelFlag \/ CancelBranch \/ CancelFinalize \/ CancelKill

DeleteJob ==
  /\ kind = "scheduled" /\ job /\ hpc = "idle"
  /\ job' = FALSE
  /\ UNCHANGED <<tableVars, workerVars, proc, httpVars>>

\* The child ends by itself, even while a signal is on its way.
ProcExit ==
  /\ proc = "live"
  /\ proc' \in {"ok", "err"}
  /\ UNCHANGED <<tableVars, workerVars, job, httpVars>>

Next ==
  \/ WorkerNext
  \/ CancelNext
  \/ \E t \in Tasks : CancelBegin(t)
  \/ DeleteJob
  \/ ProcExit

Spec == Init /\ [][Next]_vars

FairSpec == Spec /\ WF_vars(WorkerNext) /\ WF_vars(CancelNext)
LiveSpec == FairSpec /\ WF_vars(ProcExit)

----------------------------------------------------------------------------
(* Properties.                                                             *)

\* At any time only the task of the current item is open, and none is when the
\* batch has ended, whichever way its service returned ("every sub-type ends
\* up finalized", bulk_service._run).  A scheduled run has no such promise: the
\* task of an item that raised before it was started is never finalized.
ChildrenClosed ==
  \A i \in Items : status[SubOf[i]] \in {"pending", "running"} =>
    \/ i = idx /\ pc \in ItemPcs
    \/ kind = "scheduled" /\ i \in raised /\ status[SubOf[i]] = "pending"

\* State invariant: the types, and which task of an item the batch may leave open.
BatchInv == TypeOK /\ ChildrenClosed

\* The summary tells the truth: a batch is "completed" only when no item failed,
\* raised or was left open, and "failed" only when one did not succeed.  The second
\* needs distinct labels: the counts are taken over the results dict
\* (bulk_service._run, _run_backup_job).
SummaryTellsTruth ==
  pc = "done" =>
    /\ status[Summary] = "completed" =>
         \A i \in Items : /\ status[SubOf[i]] \in {"absent", "completed", "cancelled"}
                         /\ i \in raised => status[SubOf[i]] = "cancelled"
    /\ status[Summary] = "failed" =>
         \E i \in Items : status[SubOf[i]] \in {"failed", "cancelled"} \/ i \in raised

\* Once the summary is flagged, no item after the current one gets a task: "not
\* yet started is simply never created" (bulk_service._run).
NoItemAfterCancel ==
  \A i \in Items :
    []((Summary \in cancelled /\ idx < i) => [](status[SubOf[i]] = "absent"))

\* A summary that answered "cancelling" is finalized in the end, unless its
\* schedule was deleted.
CancelledSummaryEnds ==
  (Summary \in cancelled /\ status[Summary] = "running") ~> (status[Summary] # "running" \/ ~job)
=============================================================================
