-------------------------- MODULE TaskQueueProofs --------------------------
(***************************************************************************)
(* Proofs about TaskQueue, for every set of tasks and volumes and every    *)
(* bound on phases, restarts and cleanups.                                 *)
(*                                                                         *)
(* IInv strengthens TypeOK, OneRunning and NoLostKill to an inductive      *)
(* invariant: it ties the worker's position to the status of its task, and *)
(* the position of request_cancel to the flag it has set.  Further parts   *)
(* are about locks, notifications, cancels and the order of the queue.     *)
(***************************************************************************)
EXTENDS TaskQueue, TLAPS

USE NoneAssumption, TransfersAssumption, VolumeOfAssumption, BoundsAssumption

\* Positions at which the task the worker runs has no final status but, after a
\* late cancel, "cancelled".
UnfinishedPcs == BegunPcs \ {"release"}

\* Positions only a transfer reaches.
TransferPcs == {"enter", "missing", "service", "spawn", "register", "kill", "grace",
                "stream", "verdict", "endCancelled"}

WorkerInv ==
  /\ wpc # "idle" => wtask \in Tasks
  /\ wpc = "start" => status[wtask] \in {"pending", "cancelled"}
  /\ wpc \in UnfinishedPcs => status[wtask] \in {"running", "cancelled"}
  /\ wpc = "release" => status[wtask] \in Final
  /\ wpc \in TransferPcs => wtask \in Transfers
  /\ wpc = "work" => wtask \notin Transfers
  /\ procs \subseteq {wtask}
  /\ procs # {} => wpc \in {"kill", "grace", "stream"}

HttpInv ==
  /\ hpc # "idle" => htask \in Tasks /\ status[htask] # "absent"
  /\ hpc \notin {"idle", "flag"} => htask \in cancelled

\* The file knows no task and no "completed" or "failed" that the table does not; after
\* a save that succeeded it has every task and every outcome.  Of a task that was
\* cancelled while it waited and begun nevertheless it has the cancel.
DiskInv ==
  \A t \in Tasks :
    /\ status[t] = "absent" => disk[t] = "absent"
    /\ disk[t] \in {"completed", "failed"} => status[t] = disk[t]
    /\ ~unsaved =>
         /\ disk[t] = "absent" => status[t] = "absent"
         /\ status[t] \in Final => disk[t] = status[t]

IInv == TypeOK /\ WorkerInv /\ HttpInv /\ OneRunning /\ NoLostKill /\ DiskInv

LEMMA InitIInv == Init => IInv
<1> SUFFICES ASSUME Init PROVE IInv
  OBVIOUS
<1> USE DEF Init, TableInit, NoTasks
<1>1. TypeOK
  <2>1. TableTypeOK
    BY DEF TableTypeOK, Statuses
  <2>2. fifo \in Seq(Tasks)
    OBVIOUS
  <2> QED
    BY <2>1, <2>2 DEF TypeOK, WorkerPcs, HttpPcs, ProcStates
<1>2. WorkerInv
  BY DEF WorkerInv, UnfinishedPcs, BegunPcs, LockedPcs, TransferPcs
<1>3. HttpInv
  BY DEF HttpInv
<1>4. OneRunning
  BY DEF OneRunning
<1>5. NoLostKill
  BY DEF NoLostKill
<1>6. DiskInv
  BY DEF DiskInv
<1> QED
  BY <1>1, <1>2, <1>3, <1>4, <1>5, <1>6 DEF IInv

\* What start_task does to a task of the table: it runs, and only it changes.
LEMMA StartTaskFacts ==
  ASSUME TableTypeOK, OneRunning, NEW t \in Tasks, StartTask(t), status[t] # "absent"
  PROVE  /\ status' = [status EXCEPT ![t] = "running"]
         /\ runningId' = t
         /\ UNCHANGED <<disk, cancelled, notes, unsaved>>
  BY DEF StartTask, TableTypeOK, OneRunning, tableVars

\* A save that fails leaves the file as it was, or empty.
LEMMA SaveTyped ==
  ASSUME TableTypeOK, status' \in [Tasks -> Statuses], SaveTasks
  PROVE  disk' \in [Tasks -> Statuses] /\ unsaved' \in BOOLEAN
  BY DEF SaveTasks, TableTypeOK, NoTasks, Statuses

\* What finalizing a task of the table does: nothing when it is final already,
\* else it gets the outcome, the table is saved and it is no longer running.
LEMMA FinalizeFacts ==
  ASSUME TableTypeOK, OneRunning, NEW t \in Tasks, NEW outcome \in Final, Finalize(t, outcome),
         status[t] # "absent"
  PROVE  /\ TableTypeOK'
         /\ cancelled' = cancelled
         /\ status'[t] = IF status[t] \in Final THEN status[t] ELSE outcome
         /\ runningId' # t
         /\ \A u \in Tasks \ {t} :
              status'[u] = status[u] /\ (runningId' = u <=> runningId = u)
         /\ SaveTasks \/ UNCHANGED <<status, disk, unsaved>>
<1>1. CASE status[t] \in Final
  BY <1>1 DEF Finalize, TableTypeOK, tableVars, Final, OneRunning
<1>2. CASE status[t] \in {"pending", "running"}
  <2>1. notes' \in [Tasks -> Nat]
    BY <1>2 DEF Finalize, TableTypeOK, Final
  <2>2. status' \in [Tasks -> Statuses] /\ SaveTasks
    BY <1>2 DEF Finalize, TableTypeOK, Final, Statuses
  <2>3. runningId' = IF runningId = t THEN None ELSE runningId
    BY <1>2 DEF Finalize, Final
  <2>4. disk' \in [Tasks -> Statuses] /\ unsaved' \in BOOLEAN
    BY <2>2, SaveTyped
  <2> QED
    BY <1>2, <2>1, <2>2, <2>3, <2>4 DEF Finalize, TableTypeOK, Final
<1> QED
  BY <1>1, <1>2 DEF TableTypeOK, Statuses

\* A save keeps DiskInv when the table still has the tasks and the outcomes of the file.
LEMMA SaveKeepsDisk ==
  ASSUME TableTypeOK, DiskInv, SaveTasks,
         \A t \in Tasks : /\ status'[t] = "absent" => disk[t] = "absent"
                          /\ disk[t] \in {"completed", "failed"} => status'[t] = disk[t]
  PROVE  DiskInv'
<1>1. CASE disk' = status' /\ unsaved' = FALSE
  BY <1>1 DEF DiskInv
<1>2. CASE disk' = disk /\ unsaved' = TRUE
  BY <1>2 DEF DiskInv
<1>3. CASE disk' = NoTasks /\ unsaved' = TRUE
  BY <1>3 DEF DiskInv, NoTasks
<1> QED
  BY <1>1, <1>2, <1>3 DEF SaveTasks

\* A finalize saves the table, or leaves it and the file as they are.
LEMMA FinalizeDisk ==
  ASSUME TableTypeOK, OneRunning, DiskInv, NEW t \in Tasks, NEW outcome \in Final,
         Finalize(t, outcome), status[t] # "absent"
  PROVE  DiskInv'
<1>1. CASE SaveTasks
  <2>1. \A u \in Tasks : /\ status'[u] = "absent" => disk[u] = "absent"
                         /\ disk[u] \in {"completed", "failed"} => status'[u] = disk[u]
    BY FinalizeFacts DEF DiskInv, Final
  <2> QED
    BY <1>1, <2>1, SaveKeepsDisk
<1>2. CASE UNCHANGED <<status, disk, unsaved>>
  BY <1>2 DEF DiskInv
<1> QED
  BY <1>1, <1>2, FinalizeFacts

\* Every step preserves the inductive invariant.
LEMMA NextIInv == ASSUME IInv, [Next]_vars PROVE IInv'
<1> USE DEF IInv, TypeOK, TableTypeOK, WorkerInv, HttpInv, OneRunning, NoLostKill, DiskInv,
            tableVars, workerVars, httpVars, lockVars, boundVars, WorkerAt, HttpAt,
            Statuses, Final, WorkerPcs, BegunPcs, LockedPcs, UnfinishedPcs, TransferPcs,
            HttpPcs, ProcStates, Alive
<1>1. CASE Take
  BY <1>1 DEF Take
<1>2. CASE Check
  BY <1>2 DEF Check
<1>3. CASE Skip
  BY <1>3 DEF Skip
<1>4. CASE Start
  <2>1. wtask \in Tasks /\ status[wtask] # "absent" /\ StartTask(wtask)
    BY <1>4 DEF Start
  <2>2. TypeOK'
    BY <1>4, <2>1, StartTaskFacts DEF Start
  <2>3. WorkerInv' /\ HttpInv'
    BY <1>4, <2>1, StartTaskFacts DEF Start
  <2>4. OneRunning'
    BY <1>4, <2>1, StartTaskFacts DEF Start
  <2>5. NoLostKill'
    BY <1>4, <2>1, StartTaskFacts DEF Start
  <2>6. DiskInv'
    BY <1>4, <2>1, StartTaskFacts DEF Start
  <2> QED
    BY <2>2, <2>3, <2>4, <2>5, <2>6
<1>5. CASE Work
  BY <1>5 DEF Work
<1>6. CASE PoolMissing
  BY <1>6 DEF PoolMissing
<1>7. CASE CreateLock
  BY <1>7 DEF CreateLock
<1>8. CASE ServiceStart
  <2>1. wtask \in Tasks /\ status[wtask] # "absent" /\ StartTask(wtask)
    BY <1>8 DEF ServiceStart
  <2>2. TypeOK'
    BY <1>8, <2>1, StartTaskFacts DEF ServiceStart
  <2>3. WorkerInv' /\ HttpInv'
    BY <1>8, <2>1, StartTaskFacts DEF ServiceStart
  <2>4. OneRunning'
    BY <1>8, <2>1, StartTaskFacts DEF ServiceStart
  <2>5. NoLostKill'
    BY <1>8, <2>1, StartTaskFacts DEF ServiceStart
  <2>6. DiskInv'
    BY <1>8, <2>1, StartTaskFacts DEF ServiceStart
  <2> QED
    BY <2>2, <2>3, <2>4, <2>5, <2>6
<1>9. CASE Spawn
  BY <1>9 DEF Spawn
<1>10. CASE SpawnFails
  BY <1>10 DEF SpawnFails
<1>11. CASE RegisterProcess
  BY <1>11 DEF RegisterProcess
<1>12. CASE WorkerKill
  BY <1>12 DEF WorkerKill
<1>13. CASE WorkerGrace
  BY <1>13 DEF WorkerGrace
<1>14. CASE Unregister
  BY <1>14 DEF Unregister
<1>15. CASE VerdictCancelled
  BY <1>15 DEF VerdictCancelled
<1>16. CASE VerdictNextPhase
  BY <1>16 DEF VerdictNextPhase
<1>17. CASE VerdictLast
  BY <1>17 DEF VerdictLast
<1>18. CASE VerdictFailed
  BY <1>18 DEF VerdictFailed
<1>19. CASE EndOk
  <2>1. wtask \in Tasks /\ status[wtask] # "absent" /\ Finalize(wtask, "completed")
    BY <1>19 DEF EndOk, CompleteTask
  <2>2. TableTypeOK'
    BY <2>1, FinalizeFacts
  <2>3. TypeOK'
    BY <1>19, <2>2 DEF EndOk
  <2>4. WorkerInv' /\ HttpInv'
    BY <1>19, <2>1, FinalizeFacts DEF EndOk
  <2>5. OneRunning'
    BY <1>19, <2>1, FinalizeFacts DEF EndOk
  <2>6. NoLostKill'
    BY <1>19, <2>1, FinalizeFacts DEF EndOk
  <2>7. DiskInv'
    BY <1>19, <2>1, FinalizeDisk DEF EndOk
  <2> QED
    BY <2>3, <2>4, <2>5, <2>6, <2>7
<1>20. CASE EndFail
  <2>1. wtask \in Tasks /\ status[wtask] # "absent" /\ Finalize(wtask, "failed")
    BY <1>20 DEF EndFail, CompleteTask
  <2>2. TableTypeOK'
    BY <2>1, FinalizeFacts
  <2>3. TypeOK'
    BY <1>20, <2>2 DEF EndFail
  <2>4. WorkerInv' /\ HttpInv'
    BY <1>20, <2>1, FinalizeFacts DEF EndFail
  <2>5. OneRunning'
    BY <1>20, <2>1, FinalizeFacts DEF EndFail
  <2>6. NoLostKill'
    BY <1>20, <2>1, FinalizeFacts DEF EndFail
  <2>7. DiskInv'
    BY <1>20, <2>1, FinalizeDisk DEF EndFail
  <2> QED
    BY <2>3, <2>4, <2>5, <2>6, <2>7
<1>21. CASE EndCancelled
  <2>1. wtask \in Tasks /\ status[wtask] # "absent" /\ Finalize(wtask, "cancelled")
    BY <1>21 DEF EndCancelled, FinalizeCancelled
  <2>2. TableTypeOK'
    BY <2>1, FinalizeFacts
  <2>3. TypeOK'
    BY <1>21, <2>2 DEF EndCancelled
  <2>4. WorkerInv' /\ HttpInv'
    BY <1>21, <2>1, FinalizeFacts DEF EndCancelled
  <2>5. OneRunning'
    <3>1. /\ status'[wtask] \in Final /\ runningId' # wtask
          /\ \A u \in Tasks \ {wtask} :
               status'[u] = status[u] /\ (runningId' = u <=> runningId = u)
      BY <2>1, FinalizeFacts
    <3> QED
      BY <1>21, <2>1, <3>1 DEF EndCancelled
  <2>6. NoLostKill'
    BY <1>21, <2>1, FinalizeFacts DEF EndCancelled
  <2>7. DiskInv'
    BY <1>21, <2>1, FinalizeDisk DEF EndCancelled
  <2> QED
    BY <2>3, <2>4, <2>5, <2>6, <2>7
<1>22. CASE EndMissing
  <2>1. wtask \in Tasks /\ status[wtask] # "absent" /\ Finalize(wtask, "failed")
    BY <1>22 DEF EndMissing, CompleteTask
  <2>2. TableTypeOK'
    BY <2>1, FinalizeFacts
  <2>3. TypeOK'
    BY <1>22, <2>2 DEF EndMissing
  <2>4. WorkerInv' /\ HttpInv'
    BY <1>22, <2>1, FinalizeFacts DEF EndMissing
  <2>5. OneRunning'
    <3>1. /\ status'[wtask] \in Final /\ runningId' # wtask
          /\ \A u \in Tasks \ {wtask} : status'[u] = status[u] /\ (runningId' = u <=> runningId = u)
      BY <2>1, FinalizeFacts
    <3>2. \A u \in Tasks \ {wtask} : status[u] # "running" /\ runningId # u
      OBVIOUS
    <3>3. \A u \in Tasks : status'[u] # "running" /\ runningId' # u
      BY <3>1, <3>2
    <3> QED
      BY <3>3
  <2>6. NoLostKill'
    BY <1>22, <2>1, FinalizeFacts DEF EndMissing
  <2>7. DiskInv'
    BY <1>22, <2>1, FinalizeDisk DEF EndMissing
  <2> QED
    BY <2>3, <2>4, <2>5, <2>6, <2>7
<1>23. CASE Release
  <2>1. locks' \in SUBSET Volumes /\ leftover' \in SUBSET Volumes
    BY <1>23 DEF Release
  <2> QED
    BY <1>23, <2>1 DEF Release
<1>24. CASE Progress
  <2>1. UNCHANGED status /\ SaveTasks
    BY <1>24 DEF Progress, UpdateProgress
  <2>2. disk' \in [Tasks -> Statuses] /\ unsaved' \in BOOLEAN
    BY <2>1, SaveTyped
  <2>3. DiskInv'
    BY <2>1, SaveKeepsDisk
  <2> QED
    BY <1>24, <2>2, <2>3 DEF Progress, UpdateProgress
<1>25. CASE CancelFlag
  BY <1>25 DEF CancelFlag, FlagCancelled
<1>26. CASE CancelBranch
  BY <1>26 DEF CancelBranch
<1>27. CASE CancelFinalize
  <2>1. htask \in Tasks /\ status[htask] # "absent" /\ Finalize(htask, "cancelled")
    BY <1>27 DEF CancelFinalize, FinalizeCancelled
  <2>2. TableTypeOK'
    BY <2>1, FinalizeFacts
  <2>3. TypeOK'
    BY <1>27, <2>2 DEF CancelFinalize
  <2>4. WorkerInv' /\ HttpInv'
    BY <1>27, <2>1, FinalizeFacts DEF CancelFinalize
  <2>5. OneRunning'
    BY <1>27, <2>1, FinalizeFacts DEF CancelFinalize
  <2>6. NoLostKill'
    BY <1>27, <2>1, FinalizeFacts DEF CancelFinalize
  <2>7. DiskInv'
    BY <1>27, <2>1, FinalizeDisk DEF CancelFinalize
  <2> QED
    BY <2>3, <2>4, <2>5, <2>6, <2>7
<1>28. CASE CancelLookup
  BY <1>28 DEF CancelLookup
<1>29. CASE CancelNoProcess
  BY <1>29 DEF CancelNoProcess
<1>30. CASE CancelSignal
  BY <1>30 DEF CancelSignal, SameChild
<1>31. CASE CancelGrace
  BY <1>31 DEF CancelGrace, SameChild
<1>32. CASE ProcExit
  BY <1>32 DEF ProcExit
<1>33. CASE DebugCleanup
  BY <1>33 DEF DebugCleanup, NoTasks
<1>34. CASE Restart
  <2>1. /\ status' = [t \in Tasks |-> IF disk[t] \in {"pending", "running"} THEN "failed" ELSE disk[t]]
        /\ SaveTasks /\ runningId' = None /\ cancelled' = {} /\ UNCHANGED notes
    BY <1>34 DEF Restart, LoadTasks
  <2>2. disk' \in [Tasks -> Statuses] /\ unsaved' \in BOOLEAN
    BY <2>1, SaveTyped
  <2>3. DiskInv'
    BY <2>1, SaveKeepsDisk
  <2> QED
    BY <1>34, <2>1, <2>2, <2>3 DEF Restart, Reboot
<1>38. CASE RestartTorn
  BY <1>38 DEF RestartTorn, Reboot, LoadTornFile, NoTasks
<1>35. ASSUME NEW t \in Tasks, Enqueue(t) PROVE IInv'
  <2>1. /\ status[t] = "absent" /\ status' = [status EXCEPT ![t] = "pending"]
        /\ SaveTasks /\ UNCHANGED <<runningId, cancelled, notes>>
    BY <1>35 DEF Enqueue, AddTask
  <2>2. disk' \in [Tasks -> Statuses] /\ unsaved' \in BOOLEAN
    BY <2>1, SaveTyped
  <2>3. DiskInv'
    BY <2>1, SaveKeepsDisk
  <2>4. UNCHANGED <<workerVars, proc, httpVars, lockVars, boundVars>>
    BY <1>35 DEF Enqueue
  <2>5. TypeOK'
    <3>1. TableTypeOK'
      BY <2>1, <2>2
    <3>2. fifo' \in Seq(Tasks)
      BY <1>35 DEF Enqueue
    <3> QED
      BY <2>4, <3>1, <3>2
  <2>6. WorkerInv' /\ HttpInv'
    BY <2>1, <2>4
  <2>7. OneRunning' /\ NoLostKill'
    BY <2>1, <2>4
  <2> QED
    BY <2>3, <2>5, <2>6, <2>7
<1>36. ASSUME NEW t \in Tasks, CancelBegin(t) PROVE IInv'
  BY <1>36 DEF CancelBegin
<1>37. CASE UNCHANGED vars
  BY <1>37 DEF vars
<1> QED
  BY <1>1, <1>2, <1>3, <1>4, <1>5, <1>6, <1>7, <1>8, <1>9, <1>10, <1>11,
     <1>12, <1>13, <1>14, <1>15, <1>16, <1>17, <1>18, <1>19, <1>20, <1>21, <1>22,
     <1>23, <1>24, <1>25, <1>26, <1>27, <1>28, <1>29, <1>30, <1>31, <1>32, <1>33,
     <1>34, <1>35, <1>36, <1>37, <1>38
     DEF Next, WorkerNext, CancelNext

THEOREM IndInvariant == Spec => []IInv
  BY InitIInv, NextIInv, PTL DEF Spec

\* Every variable stays in its type.
THEOREM TypeCorrect == Spec => []TypeOK
  BY IndInvariant, PTL DEF IInv

\* Tasks run one at a time, and running_task_id names the running one.
THEOREM OneRunningAtATime == Spec => []OneRunning
  BY IndInvariant, PTL DEF IInv

\* No cancel slips between request_cancel and register_process.
THEOREM KillIsNotLost == Spec => []NoLostKill
  BY IndInvariant, PTL DEF IInv

-----------------------------------------------------------------------------
(* Outcomes: only start_task, a finalize, add_task and a restart write a     *)
(* status, and none of them touches a completed or failed task but a restart *)
(* that does not find it in the file, finds it with an older status as saves *)
(* had failed, or finds the file torn.                                       *)

StableStep ==
  \A t \in Tasks : status[t] \in {"completed", "failed"} =>
    \/ status'[t] = status[t]
    \/ crashes' # crashes /\ status'[t] = "absent"
    \/ crashes' # crashes /\ unsaved /\ status'[t] \in {"failed", "cancelled"}

LEMMA NextStable == ASSUME IInv, [Next]_vars PROVE StableStep
<1> USE DEF IInv, TypeOK, TableTypeOK, WorkerInv, HttpInv, StableStep, Final
<1>1. CASE UNCHANGED status
  BY <1>1
<1>2. CASE Start \/ ServiceStart
  BY <1>2, StartTaskFacts DEF Start, ServiceStart, WorkerAt, UnfinishedPcs, BegunPcs, LockedPcs
<1>3. CASE EndOk \/ EndFail \/ EndMissing \/ EndCancelled
  <2>1. wtask \in Tasks /\ status[wtask] # "absent"
    BY <1>3 DEF EndOk, EndFail, EndMissing, EndCancelled, WorkerAt, UnfinishedPcs,
                BegunPcs, LockedPcs
  <2>2. \E outcome \in Final : Finalize(wtask, outcome)
    BY <1>3 DEF EndOk, EndFail, EndMissing, EndCancelled, CompleteTask, FinalizeCancelled
  <2> QED
    BY <2>1, <2>2, FinalizeFacts
<1>4. CASE CancelFinalize
  BY <1>4, FinalizeFacts DEF CancelFinalize, FinalizeCancelled, HttpAt
<1>5. ASSUME NEW t \in Tasks, Enqueue(t) PROVE StableStep
  BY <1>5 DEF Enqueue, AddTask
<1>6. CASE Restart \/ RestartTorn
  <2>1. crashes' # crashes
    BY <1>6 DEF Restart, RestartTorn, Reboot
  <2> QED
    BY <1>6, <2>1 DEF Restart, LoadTasks, RestartTorn, LoadTornFile, NoTasks, DiskInv, Statuses
<1>7. UNCHANGED status \/ Start \/ ServiceStart \/ EndOk \/ EndFail \/ EndMissing
      \/ EndCancelled \/ CancelFinalize \/ (\E t \in Tasks : Enqueue(t)) \/ Restart
      \/ RestartTorn
  BY DEF Next, WorkerNext, CancelNext, vars, tableVars, Take, Check, Skip, Work, PoolMissing,
         CreateLock, Spawn, SpawnFails, RegisterProcess, WorkerKill, WorkerGrace, Unregister,
         VerdictCancelled, VerdictNextPhase, VerdictLast, VerdictFailed, Release, Progress,
         UpdateProgress, CancelFlag, FlagCancelled, CancelBranch, CancelLookup, CancelNoProcess,
         CancelSignal, CancelGrace, CancelBegin, ProcExit, DebugCleanup
<1> QED
  BY <1>1, <1>2, <1>3, <1>4, <1>5, <1>6, <1>7

\* "completed" and "failed" are for ever, but for a restart that finds no task
\* file, a torn one, or one that a save had failed to bring up to date.
THEOREM OutcomesAreStable == Spec => OutcomeStable
<1>1. IInv /\ [Next]_vars => [StableStep]_vars
  BY NextStable
<1> QED
  BY <1>1, IndInvariant, PTL DEF Spec, OutcomeStable, StableStep

\* Only a restart counts as one.
LEMMA NextCrashes == ASSUME [Next]_vars PROVE crashes' = crashes \/ Restart \/ RestartTorn
<1> USE DEF boundVars, WorkerAt, HttpAt
<1>1. CASE WorkerNext
  BY <1>1 DEF WorkerNext, Take, Check, Skip, Start, Work, PoolMissing, CreateLock,
       ServiceStart, Spawn, SpawnFails, RegisterProcess, WorkerKill, WorkerGrace, Unregister,
       VerdictCancelled, VerdictNextPhase, VerdictLast, VerdictFailed, EndOk, EndFail,
       EndCancelled, EndMissing, Release
<1>2. CASE CancelNext
  BY <1>2 DEF CancelNext, CancelFlag, CancelBranch, CancelFinalize, CancelLookup,
       CancelNoProcess, CancelSignal, CancelGrace
<1>3. ASSUME NEW t \in Tasks, Enqueue(t) \/ CancelBegin(t) PROVE UNCHANGED crashes
  BY <1>3 DEF Enqueue, CancelBegin
<1>4. CASE Progress \/ ProcExit \/ DebugCleanup \/ UNCHANGED vars
  BY <1>4 DEF Progress, ProcExit, DebugCleanup, vars
<1> QED
  BY <1>1, <1>2, <1>3, <1>4 DEF Next

RecoverStep ==
  crashes' # crashes =>
    /\ \A t \in Tasks :
         /\ status'[t] \notin {"pending", "running"}
         /\ status'[t] = "completed" => status[t] = "completed"
    /\ ~unsaved =>
         (\A t \in Tasks : Recovered(t)) \/ (\A t \in Tasks : status'[t] = "absent")

LEMMA NextRecovers == ASSUME IInv, [Next]_vars PROVE RecoverStep
<1>1. CASE Restart
  BY <1>1 DEF Restart, LoadTasks, RecoverStep, Recovered, IInv, DiskInv, TypeOK, TableTypeOK,
              Statuses, Final
<1>2. CASE RestartTorn
  BY <1>2 DEF RestartTorn, LoadTornFile, NoTasks, RecoverStep
<1>3. UNCHANGED crashes \/ Restart \/ RestartTorn
  BY NextCrashes
<1> QED
  BY <1>1, <1>2, <1>3 DEF RecoverStep

\* After a save that succeeded a restart brings back every task with the outcome that was
\* told, or none; whatever saves failed, none is open and none newly "completed".
THEOREM RestartIsAllOrNothing == Spec => RestartRecovers
<1>1. IInv /\ [Next]_vars => [RecoverStep]_vars
  BY NextRecovers
<1> QED
  BY <1>1, IndInvariant, PTL DEF Spec, RestartRecovers, RecoverStep

-----------------------------------------------------------------------------
(* Locks: lock files exist inside the operation that created them, and where *)
(* a restart cut an operation off.                                           *)

\* A step that neither touches the locks nor enters or leaves the locked
\* positions.
KeepsLocks ==
  /\ UNCHANGED <<lockVars, boundVars, wtask>>
  /\ wtask \in Transfers => (wpc \in LockedPcs <=> wpc' \in LockedPcs)

LEMMA NextLocks == ASSUME IInv, LocksHeld, [Next]_vars PROVE LocksHeld'
<1> USE DEF IInv, TypeOK, LocksHeld, HeldLocks, KeepsLocks, workerVars, httpVars, lockVars,
            boundVars, WorkerAt, HttpAt
<1>1. CASE KeepsLocks
  BY <1>1
<1>2. CASE Take \/ Skip \/ EndMissing
  BY <1>2 DEF Take, Skip, EndMissing, LockedPcs
<1>3. CASE CreateLock
  BY <1>3 DEF CreateLock, LockedPcs, WorkerInv, TransferPcs
<1>4. CASE Release
  BY <1>4 DEF Release, OwnLock, LockedPcs, WorkerInv, TransferPcs
<1>5. CASE DebugCleanup
  BY <1>5 DEF DebugCleanup
<1>6. CASE Restart \/ RestartTorn
  BY <1>6 DEF Restart, RestartTorn, Reboot, LockedPcs
<1>7. KeepsLocks \/ Take \/ Skip \/ EndMissing \/ CreateLock \/ Release \/ DebugCleanup
      \/ Restart \/ RestartTorn
  <2> USE DEF LockedPcs
  <2>1. CASE WorkerNext
    <3>1. CASE Check \/ Start \/ Work \/ PoolMissing \/ ServiceStart \/ Spawn \/ SpawnFails
      BY <3>1 DEF WorkerInv, Check, Start, Work, PoolMissing, ServiceStart, Spawn, SpawnFails
    <3>2. CASE RegisterProcess \/ WorkerKill \/ WorkerGrace \/ Unregister
      BY <3>2 DEF RegisterProcess, WorkerKill, WorkerGrace, Unregister
    <3>3. CASE VerdictCancelled \/ VerdictNextPhase \/ VerdictLast \/ VerdictFailed
      BY <3>3 DEF VerdictCancelled, VerdictNextPhase, VerdictLast, VerdictFailed
    <3>4. CASE EndOk \/ EndFail \/ EndCancelled
      BY <3>4 DEF EndOk, EndFail, EndCancelled
    <3> QED
      BY <2>1, <3>1, <3>2, <3>3, <3>4 DEF WorkerNext
  <2>2. CASE CancelNext
    BY <2>2 DEF CancelNext, CancelFlag, CancelBranch, CancelFinalize, CancelLookup,
         CancelNoProcess, CancelSignal, CancelGrace
  <2>3. ASSUME NEW t \in Tasks, Enqueue(t) \/ CancelBegin(t) PROVE KeepsLocks
    BY <2>3 DEF Enqueue, CancelBegin
  <2>4. CASE Progress \/ ProcExit \/ UNCHANGED vars
    BY <2>4 DEF Progress, ProcExit, vars
  <2> QED
    BY <2>1, <2>2, <2>3, <2>4 DEF Next
<1> QED
  BY <1>1, <1>2, <1>3, <1>4, <1>5, <1>6, <1>7

\* The locked volume is the one being worked on, but for those of operations
\* that a restart cut off.
THEOREM LocksAreHeld == Spec => []LocksHeld
<1>1. Init => LocksHeld
  BY DEF Init, LocksHeld, HeldLocks, LockedPcs
<1> QED
  BY <1>1, NextLocks, IndInvariant, PTL DEF Spec

-----------------------------------------------------------------------------
(* Refinement: the queue implements SerialQueue.                             *)

LEMMA PushFront ==
  ASSUME NEW S, NEW x \in S, NEW s \in Seq(S)
  PROVE  /\ <<x>> \o s \in Seq(S)
         /\ <<x>> \o s # <<>>
         /\ Head(<<x>> \o s) = x
         /\ Tail(<<x>> \o s) = s
  OBVIOUS

LEMMA PushFrontAppend ==
  ASSUME NEW S, NEW x \in S, NEW y \in S, NEW s \in Seq(S)
  PROVE  <<x>> \o Append(s, y) = Append(<<x>> \o s, y)
  OBVIOUS

LEMMA PopPush ==
  ASSUME NEW S, NEW s \in Seq(S), s # <<>>
  PROVE  Head(s) \in S /\ Tail(s) \in Seq(S) /\ <<Head(s)>> \o Tail(s) = s
  OBVIOUS

LEMMA InitSerial == Init => Serial!SerialInit
  BY DEF Init, TableInit, NoTasks, Serial!SerialInit, Known, Waiting, Current, BegunPcs, LockedPcs

LEMMA NextSerial == ASSUME IInv, [Next]_vars PROVE [Serial!SerialNext]_(Serial!serialVars)
<1> USE DEF IInv, TypeOK, TableTypeOK, WorkerInv, WorkerAt, HttpAt, BegunPcs, LockedPcs,
            Serial!serialVars
<1> DEFINE Stutter == UNCHANGED <<Known, Waiting, Current>>
<1>1. CASE Take
  BY <1>1, PopPush DEF Take, Known, Waiting, Current, tableVars
<1>2. CASE Skip
  BY <1>2, PushFront DEF Skip, Known, Waiting, Current, tableVars,
                         Serial!SerialNext, Serial!PassOver
<1>3. CASE Start
  <2>1. UNCHANGED Known
    BY <1>3, StartTaskFacts DEF Start, Known
  <2>2. Waiting = <<wtask>> \o fifo /\ Waiting' = fifo /\ Current = None /\ Current' = wtask
    BY <1>3 DEF Start, Waiting, Current
  <2> QED
    BY <1>3, <2>1, <2>2, PushFront DEF Start, Serial!SerialNext, Serial!Begin
<1>4. CASE Release \/ EndMissing
  <2>1. UNCHANGED Known
    <3>1. CASE Release
      BY <3>1 DEF Release, tableVars, Known
    <3>2. CASE EndMissing
      BY <3>2, FinalizeFacts DEF EndMissing, CompleteTask, UnfinishedPcs, Known, Final
    <3> QED
      BY <1>4, <3>1, <3>2
  <2> QED
    BY <1>4, <2>1 DEF Release, EndMissing, Waiting, Current, Serial!SerialNext, Serial!End
<1>5. ASSUME NEW t \in Tasks, Enqueue(t) PROVE Serial!SerialNext
  <2>1. t \notin Known /\ Known' = Known \cup {t}
    BY <1>5 DEF Enqueue, AddTask, Known
  <2>2. Waiting' = Append(Waiting, t) /\ UNCHANGED Current
    <3>1. fifo' = Append(fifo, t) /\ UNCHANGED <<wpc, wtask>>
      BY <1>5 DEF Enqueue, workerVars
    <3>2. CASE wpc \in {"check", "start"}
      <4>1. wtask \in Tasks /\ fifo \in Seq(Tasks) /\ t \in Tasks
        BY <3>2
      <4>2. <<wtask>> \o Append(fifo, t) = Append(<<wtask>> \o fifo, t)
        BY ONLY <4>1, PushFrontAppend
      <4> QED
        BY <3>1, <3>2, <4>2 DEF Waiting, Current
    <3>3. CASE wpc \notin {"check", "start"}
      BY <3>1, <3>3 DEF Waiting, Current
    <3> QED
      BY <3>2, <3>3
  <2> QED
    BY <2>1, <2>2 DEF Serial!SerialNext, Serial!Submit
<1>6. CASE Restart
  BY <1>6 DEF Restart, Reboot, LoadTasks, DiskInv, Known, Waiting, Current,
              Serial!SerialNext, Serial!Forget
<1>14. CASE RestartTorn
  BY <1>14 DEF RestartTorn, Reboot, LoadTornFile, NoTasks, Known, Waiting, Current,
               Serial!SerialNext, Serial!Forget
<1>7. CASE EndOk \/ EndFail \/ EndCancelled
  <2>1. UNCHANGED Known
    BY <1>7, FinalizeFacts DEF EndOk, EndFail, EndCancelled, CompleteTask, FinalizeCancelled,
                               UnfinishedPcs, Known, Final
  <2> QED
    BY <1>7, <2>1 DEF EndOk, EndFail, EndCancelled, Waiting, Current
<1>8. CASE ServiceStart
  BY <1>8, StartTaskFacts DEF ServiceStart, UnfinishedPcs, Known, Waiting, Current
<1>9. CASE CancelFinalize
  <2>1. UNCHANGED Known
    BY <1>9, FinalizeFacts DEF CancelFinalize, FinalizeCancelled, HttpInv, Known, Final
  <2> QED
    BY <1>9, <2>1 DEF CancelFinalize, Waiting, Current, workerVars
<1>10. CASE \/ Check \/ Work \/ PoolMissing \/ CreateLock \/ Spawn \/ SpawnFails
            \/ RegisterProcess \/ WorkerKill \/ WorkerGrace \/ Unregister
            \/ VerdictCancelled \/ VerdictNextPhase \/ VerdictLast \/ VerdictFailed
  BY <1>10 DEF Check, Work, PoolMissing, CreateLock, Spawn, SpawnFails, RegisterProcess,
         WorkerKill, WorkerGrace, Unregister, VerdictCancelled, VerdictNextPhase, VerdictLast,
         VerdictFailed, tableVars, Known, Waiting, Current
<1>11. CASE \/ CancelFlag \/ CancelBranch \/ CancelLookup \/ CancelNoProcess
            \/ CancelSignal \/ CancelGrace
  BY <1>11 DEF CancelFlag, FlagCancelled, CancelBranch, CancelLookup, CancelNoProcess,
         CancelSignal, CancelGrace, tableVars, workerVars, Known, Waiting, Current
<1>12. CASE Progress \/ ProcExit \/ DebugCleanup \/ UNCHANGED vars
  BY <1>12 DEF Progress, UpdateProgress, ProcExit, DebugCleanup, vars, tableVars, workerVars,
         Known, Waiting, Current
<1>13. ASSUME NEW t \in Tasks, CancelBegin(t) PROVE Stutter
  BY <1>13 DEF CancelBegin, tableVars, workerVars, Known, Waiting, Current
<1> QED
  BY <1>1, <1>2, <1>3, <1>4, <1>5, <1>6, <1>7, <1>8, <1>9, <1>10, <1>11, <1>12, <1>13, <1>14
     DEF Next, WorkerNext, CancelNext

\* Submitted once, begun in order, one at a time, each at most once.
THEOREM QueueIsSerial == Spec => ImplementsSerialQueue
  BY InitSerial, NextSerial, IndInvariant, PTL DEF Spec, ImplementsSerialQueue, Serial!SerialSpec

-----------------------------------------------------------------------------
(* Notifications: request_cancel finalizes a task that it saw pending, the   *)
(* worker finalizes one that it began; together they can do it twice.        *)

\* Positions from which the worker has still to finalize its task.
OpenPcs == {"start"} \cup UnfinishedPcs

NotesInv ==
  /\ wpc = "endCancelled" => wtask \in cancelled
  /\ crashes = 0 =>
       /\ \A t \in Tasks :
            /\ status[t] \in {"absent", "pending"} => notes[t] = 0
            /\ status[t] = "running" => notes[t] <= 1
            /\ status[t] \in Final => notes[t] \in 1..2
            /\ t \notin cancelled => /\ notes[t] <= 1
                                     /\ status[t] = "running" => notes[t] = 0
                                     /\ status[t] # "cancelled"
       /\ wpc \in OpenPcs /\ status[wtask] = "cancelled" => notes[wtask] = 1
       /\ hpc = "finalize" =>
            \/ notes[htask] = 0
            \/ status[htask] \in Final /\ ~(wtask = htask /\ wpc \in OpenPcs)

\* What a finalize does to the count of notifications.
LEMMA FinalizeNotes ==
  ASSUME TableTypeOK, NEW t \in Tasks, NEW outcome \in Final, Finalize(t, outcome), status[t] # "absent"
  PROVE  /\ notes'[t] = IF status[t] \in Final THEN notes[t] ELSE notes[t] + 1
         /\ \A u \in Tasks \ {t} : notes'[u] = notes[u] /\ status'[u] = status[u]
         /\ status'[t] = IF status[t] \in Final THEN status[t] ELSE outcome
         /\ cancelled' = cancelled
  BY DEF Finalize, TableTypeOK, tableVars, Final, Statuses

\* A task is finalized by the worker while it is at an open position, or by
\* request_cancel, which has seen it pending: each can do it once.
LEMMA NextNotes == ASSUME IInv, NotesInv, [Next]_vars PROVE NotesInv'
<1>a. TableTypeOK /\ WorkerInv /\ HttpInv /\ OneRunning /\ crashes \in Nat /\ hpc \in HttpPcs
  BY DEF IInv, TypeOK
<1>b. /\ status \in [Tasks -> Statuses] /\ notes \in [Tasks -> Nat] /\ cancelled \subseteq Tasks
      /\ hpc # "idle" => htask \in Tasks
      /\ wpc # "idle" => wtask \in Tasks
  BY <1>a DEF TableTypeOK, WorkerInv, HttpInv
<1> USE DEF NotesInv, OpenPcs, UnfinishedPcs, BegunPcs, LockedPcs, WorkerAt, HttpAt, boundVars, tableVars,
            workerVars, httpVars, Statuses, Final
<1>1. CASE Take
  BY <1>a, <1>b, <1>1 DEF Take
<1>2. CASE Check
  BY <1>a, <1>b, <1>2 DEF Check
<1>3. CASE Skip
  BY <1>a, <1>b, <1>3 DEF Skip
<1>4. CASE Work
  BY <1>a, <1>b, <1>4 DEF Work
<1>5. CASE PoolMissing
  BY <1>a, <1>b, <1>5 DEF PoolMissing
<1>6. CASE CreateLock
  BY <1>a, <1>b, <1>6 DEF CreateLock
<1>7. CASE Spawn
  BY <1>a, <1>b, <1>7 DEF Spawn
<1>8. CASE SpawnFails
  BY <1>a, <1>b, <1>8 DEF SpawnFails
<1>9. CASE RegisterProcess
  BY <1>a, <1>b, <1>9 DEF RegisterProcess
<1>10. CASE WorkerKill
  BY <1>a, <1>b, <1>10 DEF WorkerKill
<1>11. CASE WorkerGrace
  BY <1>a, <1>b, <1>11 DEF WorkerGrace
<1>12. CASE Unregister
  BY <1>a, <1>b, <1>12 DEF Unregister
<1>13. CASE VerdictCancelled
  BY <1>a, <1>b, <1>13 DEF VerdictCancelled
<1>14. CASE VerdictNextPhase
  BY <1>a, <1>b, <1>14 DEF VerdictNextPhase
<1>15. CASE VerdictLast
  BY <1>a, <1>b, <1>15 DEF VerdictLast
<1>16. CASE VerdictFailed
  BY <1>a, <1>b, <1>16 DEF VerdictFailed
<1>17. CASE Release
  BY <1>a, <1>b, <1>17 DEF Release
<1>18. CASE CancelBranch
  BY <1>a, <1>b, <1>18 DEF CancelBranch
<1>19. CASE CancelLookup
  BY <1>a, <1>b, <1>19 DEF CancelLookup
<1>20. CASE CancelNoProcess
  BY <1>a, <1>b, <1>20 DEF CancelNoProcess
<1>21. CASE CancelSignal
  BY <1>a, <1>b, <1>21 DEF CancelSignal, SameChild
<1>22. CASE CancelGrace
  BY <1>a, <1>b, <1>22 DEF CancelGrace, SameChild
<1>23. CASE ProcExit
  BY <1>a, <1>b, <1>23 DEF ProcExit
<1>24. CASE DebugCleanup
  BY <1>a, <1>b, <1>24 DEF DebugCleanup
<1>25. CASE Progress
  BY <1>a, <1>b, <1>25 DEF Progress, UpdateProgress
<1>26. CASE CancelFlag
  BY <1>a, <1>b, <1>26 DEF CancelFlag, FlagCancelled
<1>27. CASE Start
  <2>1. /\ wtask \in Tasks /\ status' = [status EXCEPT ![wtask] = "running"] /\ UNCHANGED <<cancelled, notes>>
        /\ status[wtask] \in {"pending", "running", "cancelled"}
    BY <1>a, <1>b, <1>27, StartTaskFacts DEF Start, WorkerInv
  <2> QED
    BY <1>a, <1>b, <1>27, <2>1 DEF Start
<1>28. CASE ServiceStart
  <2>1. /\ wtask \in Tasks /\ status' = [status EXCEPT ![wtask] = "running"] /\ UNCHANGED <<cancelled, notes>>
        /\ status[wtask] \in {"pending", "running", "cancelled"}
    BY <1>a, <1>b, <1>28, StartTaskFacts DEF ServiceStart, WorkerInv
  <2> QED
    BY <1>a, <1>b, <1>28, <2>1 DEF ServiceStart
<1>29. CASE EndOk
  <2>1. /\ wtask \in Tasks /\ status[wtask] \in {"running", "cancelled"} /\ Finalize(wtask, "completed")
    BY <1>a, <1>b, <1>29 DEF EndOk, CompleteTask, WorkerInv
  <2>2. /\ notes'[wtask] = IF status[wtask] \in Final THEN notes[wtask] ELSE notes[wtask] + 1
        /\ \A u \in Tasks \ {wtask} : notes'[u] = notes[u] /\ status'[u] = status[u]
        /\ status'[wtask] = IF status[wtask] \in Final THEN status[wtask] ELSE "completed"
        /\ cancelled' = cancelled
    BY <1>a, <2>1, FinalizeNotes
  <2> QED
    BY <1>a, <1>b, <1>29, <2>1, <2>2 DEF EndOk
<1>30. CASE EndFail
  <2>1. /\ wtask \in Tasks /\ status[wtask] \in {"running", "cancelled"} /\ Finalize(wtask, "failed")
    BY <1>a, <1>b, <1>30 DEF EndFail, CompleteTask, WorkerInv
  <2>2. /\ notes'[wtask] = IF status[wtask] \in Final THEN notes[wtask] ELSE notes[wtask] + 1
        /\ \A u \in Tasks \ {wtask} : notes'[u] = notes[u] /\ status'[u] = status[u]
        /\ status'[wtask] = IF status[wtask] \in Final THEN status[wtask] ELSE "failed"
        /\ cancelled' = cancelled
    BY <1>a, <2>1, FinalizeNotes
  <2> QED
    BY <1>a, <1>b, <1>30, <2>1, <2>2 DEF EndFail
<1>31. CASE EndCancelled
  <2>1. /\ wtask \in Tasks /\ status[wtask] \in {"running", "cancelled"} /\ Finalize(wtask, "cancelled")
    BY <1>a, <1>b, <1>31 DEF EndCancelled, FinalizeCancelled, WorkerInv
  <2>2. /\ notes'[wtask] = IF status[wtask] \in Final THEN notes[wtask] ELSE notes[wtask] + 1
        /\ \A u \in Tasks \ {wtask} : notes'[u] = notes[u] /\ status'[u] = status[u]
        /\ status'[wtask] = IF status[wtask] \in Final THEN status[wtask] ELSE "cancelled"
        /\ cancelled' = cancelled
    BY <1>a, <2>1, FinalizeNotes
  <2> QED
    BY <1>a, <1>b, <1>31, <2>1, <2>2 DEF EndCancelled
<1>32. CASE EndMissing
  <2>1. /\ wtask \in Tasks /\ status[wtask] \in {"running", "cancelled"} /\ Finalize(wtask, "failed")
    BY <1>a, <1>b, <1>32 DEF EndMissing, CompleteTask, WorkerInv
  <2>2. /\ notes'[wtask] = IF status[wtask] \in Final THEN notes[wtask] ELSE notes[wtask] + 1
        /\ \A u \in Tasks \ {wtask} : notes'[u] = notes[u] /\ status'[u] = status[u]
        /\ status'[wtask] = IF status[wtask] \in Final THEN status[wtask] ELSE "failed"
        /\ cancelled' = cancelled
    BY <1>a, <2>1, FinalizeNotes
  <2> QED
    BY <1>a, <1>b, <1>32, <2>1, <2>2 DEF EndMissing
<1>33. CASE CancelFinalize
  <2>1. htask \in Tasks /\ htask \in cancelled /\ status[htask] # "absent" /\ Finalize(htask, "cancelled")
    BY <1>a, <1>b, <1>33 DEF CancelFinalize, FinalizeCancelled, HttpInv
  <2>2. /\ notes'[htask] = IF status[htask] \in Final THEN notes[htask] ELSE notes[htask] + 1
        /\ \A u \in Tasks \ {htask} : notes'[u] = notes[u] /\ status'[u] = status[u]
        /\ status'[htask] = IF status[htask] \in Final THEN status[htask] ELSE "cancelled"
        /\ cancelled' = cancelled
    BY <1>a, <2>1, FinalizeNotes
  <2> QED
    BY <1>a, <1>b, <1>33, <2>1, <2>2 DEF CancelFinalize
<1>34. CASE Restart \/ RestartTorn
  BY <1>a, <1>34 DEF Restart, RestartTorn, Reboot
<1>35. ASSUME NEW t \in Tasks, Enqueue(t) PROVE NotesInv'
  BY <1>a, <1>b, <1>35 DEF Enqueue, AddTask, WorkerInv, HttpInv
<1>36. ASSUME NEW t \in Tasks, CancelBegin(t) PROVE NotesInv'
  BY <1>a, <1>b, <1>36 DEF CancelBegin
<1>37. CASE UNCHANGED vars
  BY <1>37 DEF vars
<1> QED
  BY <1>1, <1>2, <1>3, <1>4, <1>5, <1>6, <1>7, <1>8, <1>9, <1>10, <1>11, <1>12, <1>13, <1>14, <1>15, <1>16, <1>17, <1>18, <1>19, <1>20, <1>21, <1>22, <1>23, <1>24, <1>25, <1>26, <1>27, <1>28, <1>29, <1>30, <1>31, <1>32, <1>33, <1>34, <1>35, <1>36, <1>37 DEF Next, WorkerNext, CancelNext

\* complete_task promises that a finalized task does not "fire a second notification":
\* until a restart, a task without a cancel is told of once, and one with a cancel twice
\* at most; and every outcome is told.
THEOREM OutcomeToldOnce == Spec => []NotifiedOnce
<1>1. Init => NotesInv
  BY DEF Init, TableInit, NoTasks, NotesInv, OpenPcs, UnfinishedPcs, BegunPcs, LockedPcs, Final
<1>2. IInv /\ NotesInv => NotifiedOnce
  <2> SUFFICES ASSUME IInv, NotesInv, crashes = 0, NEW t \in Tasks
               PROVE  /\ notes[t] <= IF t \in cancelled THEN 2 ELSE 1
                      /\ status[t] \in Final => notes[t] > 0
    BY DEF NotifiedOnce
  <2>1. status[t] \in Statuses /\ notes[t] \in Nat
    BY DEF IInv, TypeOK, TableTypeOK
  <2>2. /\ status[t] \in {"absent", "pending"} => notes[t] = 0
        /\ status[t] = "running" => notes[t] <= 1
        /\ status[t] \in Final => notes[t] \in 1..2
        /\ t \notin cancelled => notes[t] <= 1
    BY DEF NotesInv
  <2>3. notes[t] <= 2
    BY <2>1, <2>2 DEF Statuses
  <2> QED
    BY <2>1, <2>2, <2>3
<1> QED
  BY <1>1, <1>2, NextNotes, IndInvariant, PTL DEF Spec

-----------------------------------------------------------------------------
(* Cancels: once the flag of a transfer is set before it is read for the     *)
(* last time, no step leads to "completed".                                  *)

\* The transfer has been flagged in time, or the program has died since.
Flagged(t) ==
  \/ crashes > 0
  \/ /\ t \in cancelled
     /\ status[t] \in {"pending", "running", "cancelled", "failed"}
     /\ ~(wtask = t /\ wpc = "endOk")

LEMMA NextFlagged ==
  ASSUME NEW t \in Transfers, IInv, Flagged(t), [Next]_vars
  PROVE  Flagged(t)'
<1>a. /\ TableTypeOK /\ OneRunning /\ crashes \in Nat /\ t \in Tasks
      /\ wpc = "work" => wtask \notin Transfers
      /\ wpc # "idle" => wtask \in Tasks
  BY DEF IInv, TypeOK, WorkerInv
<1>1. CASE Restart \/ RestartTorn
  BY <1>a, <1>1 DEF Flagged, Restart, RestartTorn, Reboot
<1>2. CASE crashes' = crashes /\ crashes = 0
  <2>1. t \in cancelled /\ status[t] \in {"pending", "running", "cancelled", "failed"} /\ ~(wtask = t /\ wpc = "endOk")
    BY <1>2 DEF Flagged
  <2> USE DEF Flagged, WorkerAt, HttpAt, boundVars, tableVars, workerVars, httpVars
  <2>2. CASE VerdictLast \/ Work
    BY <1>a, <1>2, <2>1, <2>2 DEF VerdictLast, Work
  <2>3. CASE \/ Check \/ PoolMissing \/ CreateLock \/ Spawn \/ SpawnFails
             \/ RegisterProcess \/ WorkerKill \/ WorkerGrace \/ Unregister
             \/ VerdictCancelled \/ VerdictNextPhase \/ VerdictFailed
    BY <1>2, <2>1, <2>3 DEF Check, PoolMissing, CreateLock, Spawn, SpawnFails, RegisterProcess,
       WorkerKill, WorkerGrace, Unregister, VerdictCancelled, VerdictNextPhase, VerdictFailed
  <2>4. CASE Take \/ Skip \/ Release
    BY <1>2, <2>1, <2>4 DEF Take, Skip, Release
  <2>5. CASE Start \/ ServiceStart
    <3>1. UNCHANGED cancelled /\ status'[t] \in {status[t], "running"} /\ wpc' # "endOk"
      BY <1>a, <2>5 DEF Start, ServiceStart, StartTask, TableTypeOK
    <3> QED
      BY <1>2, <2>1, <3>1
  <2>6. CASE EndOk
    <3>1. wtask \in Tasks /\ wtask # t /\ Finalize(wtask, "completed") /\ wpc' = "release"
      BY <1>a, <2>1, <2>6 DEF EndOk, CompleteTask
    <3>2. UNCHANGED cancelled /\ status'[t] = status[t]
      BY <1>a, <3>1 DEF Finalize, TableTypeOK
    <3> QED
      BY <1>2, <2>1, <3>1, <3>2
  <2>7. CASE EndFail \/ EndCancelled \/ EndMissing \/ CancelFinalize
    <3>1. (wtask' = t /\ wpc' = "endOk") => (wtask = t /\ wpc = "endOk")
      BY <2>7 DEF EndFail, EndCancelled, EndMissing, CancelFinalize
    <3>2. Finalize(wtask, "failed") \/ Finalize(wtask, "cancelled") \/ Finalize(htask, "cancelled")
      BY <2>7 DEF EndFail, EndCancelled, EndMissing, CancelFinalize, CompleteTask, FinalizeCancelled
    <3>3. UNCHANGED cancelled /\ status'[t] \in {status[t], "failed", "cancelled"}
      BY <1>a, <3>2 DEF Finalize, TableTypeOK
    <3> QED
      BY <1>2, <2>1, <3>1, <3>3
  <2>8. CASE \/ CancelFlag \/ CancelBranch \/ CancelLookup \/ CancelNoProcess
             \/ CancelSignal \/ CancelGrace
    BY <1>2, <2>1, <2>8 DEF CancelFlag, FlagCancelled, CancelBranch, CancelLookup, CancelNoProcess,
       CancelSignal, CancelGrace
  <2>9. ASSUME NEW u \in Tasks, Enqueue(u) PROVE Flagged(t)'
    BY <1>a, <1>2, <2>1, <2>9 DEF Enqueue, AddTask, TableTypeOK
  <2>10. ASSUME NEW u \in Tasks, CancelBegin(u) PROVE Flagged(t)'
    BY <1>2, <2>1, <2>10 DEF CancelBegin
  <2>11. CASE Progress \/ ProcExit \/ DebugCleanup \/ UNCHANGED vars
    BY <1>2, <2>1, <2>11 DEF Progress, UpdateProgress, ProcExit, DebugCleanup, vars
  <2>12. CASE Restart \/ RestartTorn
    BY <1>1, <2>12
  <2> QED
    BY <2>2, <2>3, <2>4, <2>5, <2>6, <2>7, <2>8, <2>9, <2>10, <2>11, <2>12 DEF Next, WorkerNext, CancelNext
<1>3. crashes' = crashes \/ Restart \/ RestartTorn
  BY NextCrashes
<1> QED
  BY <1>a, <1>1, <1>2, <1>3 DEF Flagged

\* A transfer whose flag is set while it waits or before its last child's end was looked
\* at never ends "completed" before the program dies (is_cancelled in the services).
THEOREM EarlyCancelsHold == Spec => EarlyCancelHolds
<1> DEFINE Early(t) == /\ t \in cancelled
                       /\ status[t] \in {"pending", "running"}
                       /\ ~(wtask = t /\ wpc \in {"endOk", "endFail", "release"})
           Obeyed(t) == status[t] = "completed" => crashes > 0
<1>1. ASSUME NEW t \in Transfers PROVE Spec => [](Early(t) => []Obeyed(t))
  <2>1. Early(t) => Flagged(t)
    BY DEF Flagged
  <2>2. Flagged(t) => Obeyed(t)
    BY DEF Flagged
  <2>3. IInv /\ Flagged(t) /\ [Next]_vars => Flagged(t)'
    BY NextFlagged
  <2> HIDE DEF Early, Obeyed
  <2> QED
    BY <2>1, <2>2, <2>3, IndInvariant, PTL DEF Spec
<1> QED
  BY <1>1 DEF EarlyCancelHolds

-----------------------------------------------------------------------------
(* The safety half of EveryTaskEnds: as long as the worker goes on, a task   *)
(* that waits will have its turn, because it is in the queue, once.          *)

QueueInv ==
  /\ \A t \in Tasks : status[t] = "pending" =>
       \/ wpc \in {"check", "start"} /\ wtask = t
       \/ \E k \in 1..Len(fifo) : fifo[k] = t
  /\ \A k \in 1..Len(fifo) : /\ status[fifo[k]] \in {"pending", "cancelled"}
                             /\ wpc # "idle" => fifo[k] # wtask
  /\ \A k, l \in 1..Len(fifo) : fifo[k] = fifo[l] => k = l
  /\ wpc = "check" => status[wtask] \in {"pending", "cancelled"}

LEMMA HeadAndTail ==
  ASSUME NEW S, NEW s \in Seq(S), s # <<>>
  PROVE  /\ Tail(s) \in Seq(S) /\ Len(Tail(s)) = Len(s) - 1 /\ 1 \in 1..Len(s) /\ Head(s) = s[1]
         /\ \A k \in 1..Len(Tail(s)) : Tail(s)[k] = s[k + 1] /\ k + 1 \in 1..Len(s)
         /\ Len(s) \in Nat
  OBVIOUS

\* A step that moves no task in or out of the queue, and begins or finalizes tasks outside it
\* or cancels one, keeps the queue in order.
LEMMA SameQueue ==
  ASSUME IInv, QueueInv, fifo' = fifo, wpc # "idle" \/ wpc' = "idle", wpc' # "check" \/ wpc = "check",
         wtask' = wtask \/ wpc' = "idle",
         wpc = "start" => wpc' = "start" \/ status'[wtask] # "pending",
         wpc = "check" => wpc' \in {"check", "start"} \/ status[wtask] # "pending",
         \A t \in Tasks : \/ status'[t] = status[t]
                          \/ status[t] # "absent" /\ status'[t] = "cancelled"
                          \/ t = wtask /\ wpc \notin {"idle", "check"} /\ status'[t] # "pending"
  PROVE  QueueInv'
<1>1. /\ fifo \in Seq(Tasks) /\ (wpc # "idle" => wtask \in Tasks)
      /\ \A k \in 1..Len(fifo) : fifo[k] \in Tasks
      /\ status \in [Tasks -> Statuses]
  BY DEF IInv, TypeOK, TableTypeOK, WorkerInv
<1>2. \A k \in 1..Len(fifo) : status'[fifo[k]] \in {"pending", "cancelled"}
  BY <1>1 DEF QueueInv
<1>3. ASSUME NEW t \in Tasks, status'[t] = "pending"
      PROVE  \/ wpc' \in {"check", "start"} /\ wtask' = t
             \/ \E k \in 1..Len(fifo) : fifo[k] = t
  <2>1. status[t] = "pending"
    BY <1>3
  <2>2. CASE \E k \in 1..Len(fifo) : fifo[k] = t
    BY <2>2
  <2>3. CASE wpc \in {"check", "start"} /\ wtask = t
    BY <1>3, <2>1, <2>3
  <2> QED
    BY <2>1, <2>2, <2>3 DEF QueueInv
<1>4. wpc' = "check" => status'[wtask'] \in {"pending", "cancelled"}
  BY <1>1 DEF QueueInv
<1>5. \A k \in 1..Len(fifo) : wpc' # "idle" => fifo[k] # wtask'
  BY DEF QueueInv
<1> QED
  BY <1>2, <1>3, <1>4, <1>5 DEF QueueInv

LEMMA NextQueue == ASSUME IInv, QueueInv, [Next]_vars PROVE QueueInv'
<1>a. /\ fifo \in Seq(Tasks) /\ status \in [Tasks -> Statuses] /\ TableTypeOK /\ OneRunning
      /\ wpc # "idle" => wtask \in Tasks
      /\ hpc # "idle" => htask \in Tasks /\ status[htask] # "absent"
      /\ wpc \in UnfinishedPcs => status[wtask] \in {"running", "cancelled"}
      /\ wpc = "start" => status[wtask] \in {"pending", "cancelled"}
  BY DEF IInv, TypeOK, TableTypeOK, WorkerInv, HttpInv
<1> USE DEF WorkerAt, HttpAt, tableVars, workerVars
<1>1. CASE Take
  <2>1. /\ wpc = "idle" /\ wpc' = "check" /\ wtask' = fifo[1] /\ fifo' = Tail(fifo) /\ fifo # <<>>
        /\ status' = status
    BY <1>1, <1>a, HeadAndTail DEF Take
  <2>2. /\ Len(fifo') = Len(fifo) - 1 /\ 1 \in 1..Len(fifo) /\ Len(fifo) \in Nat
        /\ \A k \in 1..Len(fifo') : fifo'[k] = fifo[k + 1] /\ k + 1 \in 1..Len(fifo)
    BY <1>a, <2>1, HeadAndTail
  <2>3. ASSUME NEW t \in Tasks, status[t] = "pending"
        PROVE  t = fifo[1] \/ \E k \in 1..Len(fifo') : fifo'[k] = t
    <3>1. PICK k \in 1..Len(fifo) : fifo[k] = t
      BY <2>1, <2>3 DEF QueueInv
    <3>2. CASE k # 1
      <4>1. k - 1 \in 1..Len(fifo') /\ (k - 1) + 1 = k
        BY <2>2, <3>2
      <4> QED
        BY <2>2, <3>1, <4>1
    <3> QED
      BY <3>1, <3>2
  <2>4. \A k \in 1..Len(fifo') : status[fifo'[k]] \in {"pending", "cancelled"} /\ fifo'[k] # fifo[1]
    BY <2>2 DEF QueueInv
  <2>5. \A k, l \in 1..Len(fifo') : fifo'[k] = fifo'[l] => k = l
    BY <2>2 DEF QueueInv
  <2>6. status[fifo[1]] \in {"pending", "cancelled"}
    BY <2>2 DEF QueueInv
  <2> QED
    BY <2>1, <2>3, <2>4, <2>5, <2>6 DEF QueueInv
<1>2. ASSUME NEW t \in Tasks, Enqueue(t) PROVE QueueInv'
  <2>1. /\ status[t] = "absent" /\ status' = [status EXCEPT ![t] = "pending"] /\ fifo' = Append(fifo, t)
        /\ UNCHANGED <<wpc, wtask>>
    BY <1>2 DEF Enqueue, AddTask
  <2>2. /\ Len(fifo') = Len(fifo) + 1 /\ fifo'[Len(fifo) + 1] = t /\ Len(fifo) \in Nat
        /\ \A k \in 1..Len(fifo) : fifo'[k] = fifo[k] /\ fifo[k] \in Tasks
    BY <1>a, <2>1
  <2>3. \A k \in 1..Len(fifo) : fifo[k] # t
    BY <2>1 DEF QueueInv
  <2>4. wpc # "idle" => wtask # t
    BY <1>a, <2>1 DEF QueueInv, IInv, WorkerInv, TypeOK, WorkerPcs, BegunPcs, LockedPcs, UnfinishedPcs, Final
  <2>5. \A u \in Tasks \ {t} : status'[u] = status[u]
    BY <1>a, <2>1
  <2>6. status'[t] = "pending"
    BY <1>a, <2>1
  <2>7. \A k \in 1..Len(fifo') : k = Len(fifo) + 1 \/ k \in 1..Len(fifo)
    BY <2>2
  <2>8. ASSUME NEW u \in Tasks, status'[u] = "pending"
        PROVE  (wpc \in {"check", "start"} /\ wtask = u) \/ \E k \in 1..Len(fifo') : fifo'[k] = u
    <3>1. CASE u = t
      BY <2>2, <3>1
    <3>2. CASE u # t
      BY <2>2, <2>5, <2>8, <3>2 DEF QueueInv
    <3> QED
      BY <3>1, <3>2
  <2>9. \A k \in 1..Len(fifo') : status'[fifo'[k]] \in {"pending", "cancelled"} /\ (wpc # "idle" => fifo'[k] # wtask)
    BY <2>2, <2>3, <2>4, <2>5, <2>6, <2>7 DEF QueueInv
  <2>10. \A k, l \in 1..Len(fifo') : fifo'[k] = fifo'[l] => k = l
    BY <2>2, <2>3, <2>7 DEF QueueInv
  <2>11. wpc = "check" => status'[wtask] \in {"pending", "cancelled"}
    BY <1>a, <2>4, <2>5 DEF QueueInv
  <2> QED
    BY <2>1, <2>8, <2>9, <2>10, <2>11 DEF QueueInv
<1>3. CASE Restart \/ RestartTorn
  BY <1>3, <1>a DEF Restart, RestartTorn, Reboot, LoadTasks, LoadTornFile, NoTasks, QueueInv, TableTypeOK
<1>4. CASE Start
  <2>1. /\ wpc = "start" /\ wpc' \in {"enter", "work"} /\ UNCHANGED <<fifo, wtask>>
        /\ status' = [status EXCEPT ![wtask] = "running"]
    BY <1>4, <1>a, StartTaskFacts DEF Start
  <2> QED
    BY <1>a, <2>1, SameQueue
<1>5. CASE ServiceStart
  <2>1. /\ wpc = "service" /\ wpc' = "spawn" /\ UNCHANGED <<fifo, wtask>>
        /\ status' = [status EXCEPT ![wtask] = "running"]
    BY <1>5, <1>a, StartTaskFacts DEF ServiceStart, UnfinishedPcs, BegunPcs, LockedPcs
  <2> QED
    BY <1>a, <2>1, SameQueue
<1>6. CASE EndOk \/ EndFail \/ EndCancelled \/ EndMissing
  <2>1. /\ wpc \in {"endOk", "endFail", "endCancelled", "missing"} /\ wpc' \in {"release", "idle"} /\ fifo' = fifo
        /\ wtask' = wtask \/ wpc' = "idle"
        /\ \E outcome \in Final : Finalize(wtask, outcome)
    BY <1>6 DEF EndOk, EndFail, EndCancelled, EndMissing, CompleteTask, FinalizeCancelled, Final
  <2>2. wtask \in Tasks /\ status[wtask] # "absent" /\ status[wtask] # "pending"
    BY <1>a, <2>1 DEF UnfinishedPcs, BegunPcs, LockedPcs
  <2>3. status'[wtask] \in Final /\ \A u \in Tasks \ {wtask} : status'[u] = status[u]
    BY <1>a, <2>1, <2>2, FinalizeFacts
  <2> QED
    BY <1>a, <2>1, <2>3, SameQueue DEF Final
<1>7. CASE CancelFinalize
  <2>1. UNCHANGED <<fifo, wpc, wtask>> /\ htask \in Tasks /\ status[htask] # "absent" /\ Finalize(htask, "cancelled")
    BY <1>7, <1>a DEF CancelFinalize, FinalizeCancelled
  <2>2. /\ status'[htask] \in {status[htask], "cancelled"}
        /\ \A u \in Tasks \ {htask} : status'[u] = status[u]
    BY <1>a, <2>1, FinalizeFacts DEF Final
  <2> QED
    BY <1>a, <2>1, <2>2, SameQueue
<1>8. CASE Check \/ Skip \/ Release
  BY <1>8, SameQueue DEF Check, Skip, Release
<1>9. CASE \/ Work \/ PoolMissing \/ CreateLock \/ Spawn \/ SpawnFails
           \/ RegisterProcess \/ WorkerKill \/ WorkerGrace \/ Unregister
           \/ VerdictCancelled \/ VerdictNextPhase \/ VerdictLast \/ VerdictFailed
  BY <1>9, SameQueue DEF Work, PoolMissing, CreateLock, Spawn, SpawnFails, RegisterProcess,
     WorkerKill, WorkerGrace, Unregister, VerdictCancelled, VerdictNextPhase, VerdictLast, VerdictFailed
<1>10. CASE \/ CancelFlag \/ CancelBranch \/ CancelLookup \/ CancelNoProcess \/ CancelSignal
            \/ CancelGrace \/ Progress \/ ProcExit \/ DebugCleanup \/ UNCHANGED vars
  BY <1>10, SameQueue DEF CancelFlag, FlagCancelled, CancelBranch, CancelLookup, CancelNoProcess,
     CancelSignal, CancelGrace, Progress, UpdateProgress, ProcExit, DebugCleanup, vars
<1>11. ASSUME NEW t \in Tasks, CancelBegin(t) PROVE QueueInv'
  BY <1>11, SameQueue DEF CancelBegin
<1> QED
  BY <1>1, <1>2, <1>3, <1>4, <1>5, <1>6, <1>7, <1>8, <1>9, <1>10, <1>11 DEF Next, WorkerNext, CancelNext

\* A task that waits is in the queue; what is in the queue waits or was cancelled there; and
\* nothing is in it twice.
WaitsOnce ==
  /\ \A t \in Tasks : status[t] = "pending" => \E k \in 1..Len(Waiting) : Waiting[k] = t
  /\ \A k \in 1..Len(Waiting) : status[Waiting[k]] \in {"pending", "cancelled"}
  /\ \A k, l \in 1..Len(Waiting) : Waiting[k] = Waiting[l] => k = l

\* When the worker has nothing to do, no task is open.
IdleMeansDone ==
  wpc = "idle" /\ fifo = <<>> => \A t \in Tasks : status[t] \notin {"pending", "running"}

LEMMA PushedFront ==
  ASSUME NEW S, NEW x \in S, NEW s \in Seq(S)
  PROVE  /\ Len(<<x>> \o s) = Len(s) + 1 /\ (<<x>> \o s)[1] = x /\ Len(s) \in Nat
         /\ \A k \in 2..Len(s) + 1 : (<<x>> \o s)[k] = s[k - 1] /\ k - 1 \in 1..Len(s)
  OBVIOUS

\* Whatever the cancels and restarts, no task that was accepted is forgotten (submit and
\* _worker_loop), or would run twice.
THEOREM NoTaskForgotten == Spec => [](WaitsOnce /\ IdleMeansDone)
<1>1. Init => QueueInv
  BY DEF Init, TableInit, NoTasks, QueueInv
<1>2. IInv /\ QueueInv => WaitsOnce
  <2> SUFFICES ASSUME IInv, QueueInv PROVE WaitsOnce
    OBVIOUS
  <2>1. CASE wpc \in {"check", "start"}
    <3>1. wtask \in Tasks /\ fifo \in Seq(Tasks) /\ Waiting = <<wtask>> \o fifo
      BY <2>1 DEF IInv, TypeOK, WorkerInv, Waiting
    <3>2. /\ Len(Waiting) = Len(fifo) + 1 /\ Waiting[1] = wtask /\ Len(fifo) \in Nat
          /\ \A k \in 2..Len(fifo) + 1 : Waiting[k] = fifo[k - 1] /\ k - 1 \in 1..Len(fifo)
      BY <3>1, PushedFront
    <3>3. \A k \in 1..Len(Waiting) : k = 1 \/ k \in 2..Len(fifo) + 1
      BY <3>2
    <3>4. \A k \in 1..Len(fifo) : k + 1 \in 1..Len(Waiting) /\ Waiting[k + 1] = fifo[k]
      BY <3>2
    <3>5. status[wtask] \in {"pending", "cancelled"}
      BY <2>1 DEF QueueInv, IInv, WorkerInv
    <3>6. \A t \in Tasks : status[t] = "pending" => \E k \in 1..Len(Waiting) : Waiting[k] = t
      BY <3>2, <3>4 DEF QueueInv
    <3>7. \A k \in 1..Len(Waiting) : status[Waiting[k]] \in {"pending", "cancelled"}
      BY <3>2, <3>3, <3>5 DEF QueueInv
    <3>8. ASSUME NEW k \in 1..Len(Waiting), NEW l \in 1..Len(Waiting), Waiting[k] = Waiting[l]
          PROVE  k = l
      <4>1. \A m \in 2..Len(fifo) + 1 : Waiting[m] # wtask
        <5>1. \A i \in 1..Len(fifo) : fifo[i] # wtask
          BY <2>1 DEF QueueInv
        <5> QED
          BY ONLY <3>2, <5>1
      <4>2. CASE k = 1 \/ l = 1
        BY <3>2, <3>3, <3>8, <4>1, <4>2
      <4>3. CASE k # 1 /\ l # 1
        <5>1. k - 1 \in 1..Len(fifo) /\ l - 1 \in 1..Len(fifo) /\ fifo[k - 1] = fifo[l - 1]
          BY <3>2, <3>3, <3>8, <4>3
        <5>2. k - 1 = l - 1
          BY <5>1 DEF QueueInv
        <5> QED
          BY <3>2, <5>2
      <4> QED
        BY <4>2, <4>3
    <3> QED
      BY <3>6, <3>7, <3>8 DEF WaitsOnce
  <2>2. CASE wpc \notin {"check", "start"}
    BY <2>2 DEF QueueInv, WaitsOnce, Waiting
  <2> QED
    BY <2>1, <2>2
<1>3. IInv /\ QueueInv => IdleMeansDone
  <2>1. fifo = <<>> => 1..Len(fifo) = {}
    OBVIOUS
  <2> QED
    BY <2>1 DEF IInv, OneRunning, BegunPcs, LockedPcs, QueueInv, IdleMeansDone
<1> QED
  BY <1>1, <1>2, <1>3, NextQueue, IndInvariant, PTL DEF Spec

=============================================================================
