----------------------------- MODULE TaskTable -----------------------------
(***************************************************************************)
(* The table of tasks kept by TaskQueue (services/task_queue.py): the      *)
(* status of every task, its copy in vshipper_tasks.json, the id of the    *)
(* running task and the set of tasks a user asked to cancel.               *)
(*                                                                         *)
(* The operators are action fragments: the modules that run the table with *)
(* threads (TaskQueue, BatchRun) conjoin them with their own steps.  Each  *)
(* fragment is atomic because the method it stands for holds self.lock.    *)
(***************************************************************************)
EXTENDS Naturals

CONSTANTS
  Tasks,      \* task ids: one for each add_task of a behaviour
  None,       \* Python's None
  SaveErrors  \* whether saves may fail: FALSE is a bound of an instance

ASSUME NoneAssumption == None \notin Tasks
ASSUME SaveErrorsAssumption == SaveErrors \in BOOLEAN

VARIABLES
  status,     \* self.tasks[t]["status"], or "absent"
  disk,       \* the same field in vshipper_tasks.json
  runningId,  \* self.running_task_id
  cancelled,  \* self._cancelled
  notes,      \* notification threads started for t
  unsaved     \* the last save failed, or the file was removed after it (history)

tableVars == <<status, disk, runningId, cancelled, notes, unsaved>>

Final == {"completed", "failed", "cancelled"}
Statuses == {"absent", "pending", "running"} \cup Final

TableTypeOK ==
  /\ status \in [Tasks -> Statuses]
  /\ disk \in [Tasks -> Statuses]
  /\ runningId \in Tasks \cup {None}
  /\ cancelled \in SUBSET Tasks
  /\ notes \in [Tasks -> Nat]
  /\ unsaved \in BOOLEAN

\* No task: also what is read from a file that is missing or torn.
NoTasks == [t \in Tasks |-> "absent"]

TableInit ==
  /\ status = NoTasks /\ disk = NoTasks /\ unsaved = FALSE
  /\ runningId = None
  /\ cancelled = {}
  /\ notes = [t \in Tasks |-> 0]

\* _save_tasks writes the whole table.  An error is logged and nothing else: the
\* file is as it was, or was truncated by then.
SaveTasks ==
  \/ disk' = status' /\ unsaved' = FALSE
  \/ SaveErrors /\ disk' \in {disk, NoTasks} /\ unsaved' = TRUE

AddTask(t) ==
  /\ status[t] = "absent"
  /\ status' = [status EXCEPT ![t] = "pending"]
  /\ SaveTasks
  /\ UNCHANGED <<runningId, cancelled, notes>>

\* update_progress: no field of the model changes, but the whole table is saved.
UpdateProgress ==
  /\ UNCHANGED <<status, runningId, cancelled, notes>>
  /\ SaveTasks

\* The only guard is "already running": a final status does not stop it, and
\* the table is not saved.
StartTask(t) ==
  \/ /\ status[t] \in {"absent", "running"}
     /\ UNCHANGED tableVars
  \/ /\ status[t] \notin {"absent", "running"}
     /\ status' = [status EXCEPT ![t] = "running"]
     /\ runningId' = t
     /\ UNCHANGED <<disk, cancelled, notes, unsaved>>

\* Variants of Finalize with a bug, for the mutation checks: running_task_id is
\* not cleared; an already final task is finalized again; the table is not saved.
FinalizeKeepingId(t, outcome) ==
  /\ status[t] \in {"pending", "running"}
  /\ status' = [status EXCEPT ![t] = outcome]
  /\ SaveTasks
  /\ notes' = [notes EXCEPT ![t] = @ + 1]
  /\ UNCHANGED <<runningId, cancelled>>

FinalizeAgain(t, outcome) ==
  /\ status' = [status EXCEPT ![t] = outcome]
  /\ SaveTasks
  /\ runningId' = IF runningId = t THEN None ELSE runningId
  /\ notes' = [notes EXCEPT ![t] = @ + 1]
  /\ UNCHANGED cancelled

FinalizeUnsaved(t, outcome) ==
  \/ /\ status[t] \in Final \cup {"absent"}
     /\ UNCHANGED tableVars
  \/ /\ status[t] \in {"pending", "running"}
     /\ status' = [status EXCEPT ![t] = outcome]
     /\ runningId' = IF runningId = t THEN None ELSE runningId
     /\ notes' = [notes EXCEPT ![t] = @ + 1]
     /\ UNCHANGED <<disk, cancelled, unsaved>>

\* First finalize wins; the notification thread starts after the save.
Finalize(t, outcome) ==
  \/ /\ status[t] \in Final \cup {"absent"}
     /\ UNCHANGED tableVars
  \/ /\ status[t] \in {"pending", "running"}
     /\ status' = [status EXCEPT ![t] = outcome]
     /\ SaveTasks
     /\ runningId' = IF runningId = t THEN None ELSE runningId
     /\ notes' = [notes EXCEPT ![t] = @ + 1]
     /\ UNCHANGED cancelled

CompleteTask(t, success) == Finalize(t, IF success THEN "completed" ELSE "failed")

\* Variant with a bug: no notification thread is started for a cancelled task.
FinalizeCancelledQuietly(t) ==
  /\ status[t] \in {"pending", "running"}
  /\ status' = [status EXCEPT ![t] = "cancelled"]
  /\ SaveTasks
  /\ runningId' = IF runningId = t THEN None ELSE runningId
  /\ UNCHANGED <<cancelled, notes>>

FinalizeCancelled(t) == Finalize(t, "cancelled")

FlagCancelled(S) ==
  /\ cancelled' = cancelled \cup S
  /\ UNCHANGED <<status, disk, runningId, notes, unsaved>>

\* A new TaskQueue over the old file: whatever was in progress has failed.
LoadTasks ==
  /\ status' = [t \in Tasks |-> IF disk[t] \in {"pending", "running"}
                                  THEN "failed" ELSE disk[t]]
  /\ SaveTasks
  /\ runningId' = None
  /\ cancelled' = {}
  /\ UNCHANGED notes

\* A new TaskQueue over a file that cannot be parsed: the table is empty, and
\* the empty table is saved.
LoadTornFile ==
  /\ status' = NoTasks /\ disk' = NoTasks /\ unsaved' \in BOOLEAN
  /\ runningId' = None
  /\ cancelled' = {}
  /\ UNCHANGED notes
=============================================================================
