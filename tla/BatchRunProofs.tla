--------------------------- MODULE BatchRunProofs ---------------------------
(***************************************************************************)
(* Proofs about BatchRun, for every number of items, every assignment of   *)
(* labels and every choice of the items that are plain calls.              *)
(*                                                                         *)
(* IInv ties the worker's position to the status of the tasks of the items *)
(* (those before the current one are closed, but for what a scheduled run  *)
(* leaves behind when an item raises, and those after it do not exist)     *)
(* and, when no two items have the same label, the results dictionary to   *)
(* the same statuses.                                                      *)
(***************************************************************************)
EXTENDS BatchRun, FiniteSetTheorems, TLAPS

USE NoneAssumption, BatchAssumption

\* No two items have the same key in the results.
DistinctLabels == \A i, j \in Items : Label[i] = Label[j] => i = j

\* Positions at which the worker has not reached an item of the batch.
EarlyPcs == {"queued", "start", "job"}

\* Positions of a transfer inside its service.
TransferPcs == {"spawn", "stream", "verdict", "endOk", "endFail", "endCancelled"}

\* The worker is at an item only while there is one, and is past the last one when it
\* sums up a batch that was not cancelled.
PositionInv ==
  /\ pc \in ItemPcs => idx \in Items
  /\ pc \in EarlyPcs => idx = 1 /\ status[Summary] \notin {"completed", "failed"}
  /\ pc = "substart" => kind = "bulk"
  /\ pc = "sum" => idx = N + 1 \/ Summary \in cancelled
  /\ pc = "sumDone" => idx = N + 1
  /\ pc \in TransferPcs => IsTransfer
  /\ \A i \in raised : i <= idx /\ (i = idx => pc \in {"record", "close"} /\ IsTransfer)
  /\ hpc # "idle" => htask \in Tasks

\* The task of the current item has the status its position calls for.
CurrentInv ==
  /\ pc = "precheck" => status[sub] = "absent"
  /\ pc = "substart" => status[sub] \in {"pending", "cancelled"}
  /\ pc \in ItemPcs \ {"precheck", "substart", "record", "close"} =>
       status[sub] \in {"pending", "running", "cancelled"}
  /\ pc = "run" /\ kind = "scheduled" => status[sub] # "running"
  /\ pc \in {"record", "close"} =>
       /\ IsTransfer /\ idx \notin raised => status[sub] \in Final
       /\ ~IsTransfer => status[sub] \in {"pending", "running", "cancelled"}
       /\ idx \in raised => ~ok
       /\ kind = "scheduled" => status[sub] # "running"
       /\ status[sub] # "absent"
       /\ status[sub] = "failed" => ~ok
       /\ status[sub] = "completed" => ok \/ idx \in raised

\* The items before the current one are closed or were skipped, or raised in a scheduled
\* run before they were started; those the worker has not come to have no task.
OthersInv ==
  \A i \in Items :
    /\ i < idx => \/ status[SubOf[i]] \in Final \cup {"absent"}
                  \/ kind = "scheduled" /\ i \in raised /\ status[SubOf[i]] = "pending"
    /\ i > idx \/ (i = idx /\ pc \notin ItemPcs) => status[SubOf[i]] = "absent"

\* What the results say of an item, when each has a key of its own.
ResultOf(i) ==
  /\ results[Label[i]] # "none"
  /\ status[SubOf[i]] = "failed" => results[Label[i]] = "failed"
  /\ results[Label[i]] = "failed" => status[SubOf[i]] \in {"failed", "cancelled"} \/ i \in raised
  /\ i \in raised => \/ results[Label[i]] = "failed"
                     \/ results[Label[i]] = "cancelled" /\ status[SubOf[i]] = "cancelled"

ResultsInv ==
  DistinctLabels =>
    /\ \A i \in Items : i < idx => ResultOf(i)
    /\ pc = "close" =>
         \/ results[Label[idx]] = "cancelled" /\ status[sub] = "cancelled"
         \/ results[Label[idx]] = IF ok THEN "ok" ELSE "failed"

\* The summary is completed or failed only at the end, by the count.
SummaryInv ==
  /\ status[Summary] # "absent"
  /\ status[Summary] = "completed" => pc = "done" /\ idx = N + 1 /\ Failed = 0
  /\ status[Summary] = "failed" => pc = "done" /\ idx = N + 1 /\ Failed # 0

IInv == TypeOK /\ PositionInv /\ CurrentInv /\ OthersInv /\ ResultsInv /\ SummaryInv

\* There is a whole number of items, and SubOf names a task of its own for each.
LEMMA ItemFacts ==
  /\ N \in Nat
  /\ Items = 1..N
  /\ \A i \in Items : SubOf[i] \in Tasks /\ SubOf[i] # Summary /\ SubOf[i] # None
  /\ \A i, j \in Items : SubOf[i] = SubOf[j] => i = j
  /\ \A i \in Items : Label[i] \in Labels
<1>1. N \in Nat
  BY FS_CardinalityType DEF N
<1> QED
  BY <1>1 DEF Labels

\* What start_task does to a task of the table, whatever its status: it runs.
LEMMA StartTaskFacts ==
  ASSUME TableTypeOK, NEW t \in Tasks, StartTask(t)
  PROVE  /\ TableTypeOK'
         /\ cancelled' = cancelled
         /\ status' = [status EXCEPT ![t] = IF @ = "absent" THEN "absent" ELSE "running"]
  BY DEF StartTask, TableTypeOK, tableVars, Statuses

\* A save that fails leaves the file as it was, or empty.
LEMMA SaveTyped ==
  ASSUME TableTypeOK, status' \in [Tasks -> Statuses], SaveTasks
  PROVE  disk' \in [Tasks -> Statuses] /\ unsaved' \in BOOLEAN
  BY DEF SaveTasks, TableTypeOK, NoTasks, Statuses

\* What finalizing a task does: nothing when it is final already or is not in the table,
\* else it gets the outcome.
LEMMA FinalizeFacts ==
  ASSUME TableTypeOK, NEW t \in Tasks, NEW outcome \in Final, Finalize(t, outcome)
  PROVE  /\ TableTypeOK'
         /\ cancelled' = cancelled
         /\ status' = [status EXCEPT ![t] = IF @ \in Final \cup {"absent"} THEN @ ELSE outcome]
<1>1. CASE status[t] \in Final \cup {"absent"}
  BY <1>1 DEF Finalize, TableTypeOK, tableVars, Final
<1>2. CASE status[t] \in {"pending", "running"}
  <2>1. notes' \in [Tasks -> Nat]
    BY <1>2 DEF Finalize, TableTypeOK, Final
  <2>2. status' = [status EXCEPT ![t] = outcome] /\ SaveTasks /\ cancelled' = cancelled
    BY <1>2 DEF Finalize, TableTypeOK, Final
  <2>4. status' \in [Tasks -> Statuses]
    BY <2>2 DEF TableTypeOK, Statuses, Final
  <2>5. disk' \in [Tasks -> Statuses] /\ unsaved' \in BOOLEAN
    BY <2>2, <2>4, SaveTyped
  <2>3. runningId' \in Tasks \cup {None}
    BY <1>2 DEF Finalize, TableTypeOK, Final
  <2> QED
    BY <1>2, <2>1, <2>2, <2>3, <2>4, <2>5 DEF TableTypeOK, Final
<1> QED
  BY <1>1, <1>2 DEF TableTypeOK, Statuses

LEMMA InitIInv == Init => IInv
<1> SUFFICES ASSUME Init PROVE IInv
  OBVIOUS
<1> USE ItemFacts DEF Init
<1>1. TypeOK
  <2>1. TableTypeOK
    BY DEF TableTypeOK, Statuses, Final
  <2>2. idx \in 1..N + 1 /\ results \in [Labels -> Outcomes]
    BY DEF Outcomes
  <2> QED
    BY <2>1, <2>2 DEF TypeOK, Pcs
<1>2. PositionInv /\ CurrentInv
  <2>1. pc = "queued" /\ idx = 1 /\ hpc = "idle" /\ status[Summary] = "pending" /\
        \A i \in Items : status[SubOf[i]] = "absent"
    OBVIOUS
  <2> QED
    BY <2>1 DEF PositionInv, CurrentInv, ItemPcs, EarlyPcs, TransferPcs
<1>3. idx = 1 /\ pc = "queued" /\ status[Summary] = "pending" /\ \A i \in Items : ~(i < 1)
  OBVIOUS
<1>4. OthersInv
  <2>1. \A i \in Items : status[SubOf[i]] = "absent"
    OBVIOUS
  <2> QED
    BY <1>3, <2>1 DEF OthersInv
<1>5. ResultsInv /\ SummaryInv
  BY <1>3 DEF ResultsInv, SummaryInv
<1> QED
  BY <1>1, <1>2, <1>4, <1>5 DEF IInv

\* Every step preserves the inductive invariant.
LEMMA NextIInv == ASSUME IInv, [Next]_vars PROVE IInv'
<1> USE ItemFacts DEF IInv, TypeOK, TableTypeOK, PositionInv, CurrentInv, OthersInv, ResultsInv, ResultOf,
            SummaryInv, tableVars, workerVars, httpVars, vars, Goto, HttpGoto, sub, IsTransfer,
            RaiseAt, Pcs, ItemPcs, EarlyPcs, TransferPcs, Statuses, Final, Outcomes, DistinctLabels, Failed
<1>1. CASE Dequeue
  BY <1>1 DEF Dequeue
<1>2. CASE StartSummary
  <2>1. /\ pc = "start" /\ pc' = (IF kind = "bulk" THEN "next" ELSE "job")
        /\ UNCHANGED <<kind, idx, ok, results, raised, proc, job, httpVars>>
        /\ Summary \in Tasks
    BY <1>2 DEF StartSummary
  <2>2. TableTypeOK' /\ cancelled' = cancelled /\
        status' = [status EXCEPT ![Summary] = IF @ = "absent" THEN "absent" ELSE "running"]
    BY <1>2, StartTaskFacts DEF StartSummary
  <2>3. TypeOK' /\ PositionInv'
    BY <2>1, <2>2
  <2>4. CurrentInv' /\ OthersInv'
    BY <2>1, <2>2
  <2>5. ResultsInv' /\ SummaryInv'
    BY <2>1, <2>2
  <2> QED
    BY <2>3, <2>4, <2>5
<1>3. CASE JobFound
  BY <1>3 DEF JobFound
<1>4. CASE JobGone
  BY <1>4 DEF JobGone
<1>5. CASE NextItem
  <2>1. /\ UNCHANGED <<status, runningId, cancelled, notes, idx, ok, results, proc>> /\ SaveTasks
        /\ pc = "next" /\ pc' = "precheck" /\ UNCHANGED <<kind, raised, job, httpVars>>
        /\ idx <= N
    BY <1>5 DEF NextItem, UpdateProgress
  <2>2. disk' \in [Tasks -> Statuses] /\ unsaved' \in BOOLEAN
    BY <2>1, SaveTyped
  <2> QED
    BY <2>1, <2>2
<1>6. CASE StopBatch
  BY <1>6 DEF StopBatch
<1>7. CASE ItemsDone
  BY <1>7 DEF ItemsDone
<1>8. CASE SkipItem
  <2>1. /\ pc = "precheck" /\ pc' = "next" /\ idx' = idx + 1 /\ idx \in Items /\ idx \notin raised
        /\ results' = [results EXCEPT ![Label[idx]] = "skipped"] /\ status[SubOf[idx]] = "absent"
        /\ UNCHANGED <<tableVars, kind, ok, raised, proc, job, httpVars>>
    BY <1>8 DEF SkipItem
  <2>2. TypeOK' /\ PositionInv'
    BY <2>1
  <2>3. CurrentInv' /\ OthersInv'
    BY <2>1
  <2>4. ResultsInv' /\ SummaryInv'
    BY <2>1
  <2> QED
    BY <2>2, <2>3, <2>4
<1>9. CASE AddSub
  <2>1. /\ SubOf[idx] \in Tasks /\ status' = [status EXCEPT ![SubOf[idx]] = "pending"] /\ SaveTasks
        /\ status[SubOf[idx]] = "absent" /\ UNCHANGED <<runningId, cancelled, notes, idx, ok, results, proc>>
        /\ pc = "precheck" /\ pc' = (IF kind = "bulk" THEN "substart" ELSE "run")
        /\ UNCHANGED <<kind, raised, job, httpVars>>
    BY <1>9 DEF AddSub, AddTask
  <2>2. status' \in [Tasks -> Statuses]
    BY <2>1
  <2>3. disk' \in [Tasks -> Statuses] /\ unsaved' \in BOOLEAN
    BY <2>1, <2>2, SaveTyped
  <2>4. TypeOK' /\ PositionInv'
    BY <2>1, <2>2, <2>3
  <2>5. CurrentInv' /\ OthersInv'
    BY <2>1
  <2>6. ResultsInv' /\ SummaryInv'
    BY <2>1
  <2> QED
    BY <2>4, <2>5, <2>6
<1>10. CASE StartSub
  <2>1. SubOf[idx] \in Tasks /\ StartTask(SubOf[idx])
    BY <1>10 DEF StartSub
  <2>2. TableTypeOK' /\ cancelled' = cancelled /\
        status' = [status EXCEPT ![SubOf[idx]] = IF @ = "absent" THEN "absent" ELSE "running"]
    BY <2>1, StartTaskFacts
  <2>3. TypeOK'
    BY <1>10, <2>1, <2>2 DEF StartSub
  <2>4. PositionInv'
    BY <1>10, <2>1, <2>2 DEF StartSub
  <2>8. CurrentInv'
    BY <1>10, <2>1, <2>2 DEF StartSub
  <2>5. OthersInv'
    BY <1>10, <2>1, <2>2 DEF StartSub
  <2>6. ResultsInv'
    BY <1>10, <2>1, <2>2 DEF StartSub
  <2>7. SummaryInv'
    BY <1>10, <2>1, <2>2 DEF StartSub
  <2> QED
    BY <2>3, <2>4, <2>5, <2>6, <2>7, <2>8
<1>11. CASE RunPlain
  BY <1>11 DEF RunPlain
<1>12. CASE RunPoolMissing
  BY <1>12 DEF RunPoolMissing
<1>35. CASE RunRaises
  <2>1. /\ pc = "run" /\ pc' = "record" /\ ok' = FALSE /\ raised' = raised \cup {idx} /\ IsTransfer
        /\ UNCHANGED <<tableVars, kind, idx, results, proc, job, httpVars>> /\ idx \in Items
    BY <1>35 DEF RunRaises
  <2>6. raised' \subseteq Items
    BY <2>1
  <2>2. TypeOK'
    <3>1. TableTypeOK'
      BY <2>1
    <3> QED
      BY <2>1, <2>6, <3>1
  <2>3. PositionInv'
    BY <2>1
  <2>4. CurrentInv'
    BY <2>1
  <2>5. OthersInv' /\ ResultsInv' /\ SummaryInv'
    BY <2>1
  <2> QED
    BY <2>2, <2>3, <2>4, <2>5
<1>13. CASE RunTransfer
  <2>1. SubOf[idx] \in Tasks /\ StartTask(SubOf[idx])
    BY <1>13 DEF RunTransfer
  <2>2. TableTypeOK' /\ cancelled' = cancelled /\
        status' = [status EXCEPT ![SubOf[idx]] = IF @ = "absent" THEN "absent" ELSE "running"]
    BY <2>1, StartTaskFacts
  <2>3. TypeOK'
    BY <1>13, <2>1, <2>2 DEF RunTransfer
  <2>4. PositionInv' /\ CurrentInv'
    BY <1>13, <2>1, <2>2 DEF RunTransfer
  <2>5. OthersInv'
    BY <1>13, <2>1, <2>2 DEF RunTransfer
  <2>6. ResultsInv'
    BY <1>13, <2>1, <2>2 DEF RunTransfer
  <2>7. SummaryInv'
    BY <1>13, <2>1, <2>2 DEF RunTransfer
  <2> QED
    BY <2>3, <2>4, <2>5, <2>6, <2>7
<1>14. CASE SpawnFails
  BY <1>14 DEF SpawnFails
<1>15. CASE Spawn
  BY <1>15 DEF Spawn
<1>16. CASE Stream
  BY <1>16 DEF Stream
<1>17. CASE Verdict
  <2>1. UNCHANGED <<tableVars, idx, ok, results, raised, proc, kind, job, httpVars>> /\ pc = "verdict" /\
        pc' \in {"endOk", "endFail", "endCancelled"}
    BY <1>17 DEF Verdict
  <2>2. TypeOK' /\ PositionInv'
    BY <2>1
  <2>5. CurrentInv'
    BY <2>1
  <2>3. OthersInv'
    BY <2>1
  <2>4. ResultsInv' /\ SummaryInv'
    BY <2>1
  <2> QED
    BY <2>2, <2>3, <2>4, <2>5
<1>18. CASE EndOk
  <2>1. SubOf[idx] \in Tasks /\ Finalize(SubOf[idx], "completed")
    BY <1>18 DEF EndOk, CompleteTask, FinalizeCancelled
  <2>2. TableTypeOK' /\ cancelled' = cancelled /\
        status' = [status EXCEPT ![SubOf[idx]] = IF @ \in Final \cup {"absent"} THEN @ ELSE "completed"]
    BY <2>1, FinalizeFacts
  <2>8. /\ pc = "endOk" /\ pc' = "record" /\ UNCHANGED <<kind, idx, results, proc, job, httpVars>>
        /\ idx \in Items /\ IsTransfer
    BY <1>18 DEF EndOk
  <2>10. \/ ok' = TRUE /\ raised' = raised
         \/ ok' = FALSE /\ raised' = raised \cup {idx}
    BY <1>18 DEF EndOk
  <2>11. raised' \subseteq Items /\ ok' \in BOOLEAN
    BY <2>8, <2>10
  <2>3. TypeOK'
    BY <2>2, <2>8, <2>11
  <2>4. PositionInv'
    <3>2. \A i \in raised : i <= idx
      OBVIOUS
    <3>3. idx <= idx
      BY <2>8
    <3>1. \A i \in raised' : i <= idx /\ (i = idx => IsTransfer)
      BY ONLY <2>8, <2>10, <3>2, <3>3
    <3> QED
      BY <2>2, <2>8, <3>1
  <2>9. CurrentInv'
    BY <2>1, <2>2, <2>8, <2>10
  <2>5. OthersInv'
    BY <2>1, <2>2, <2>8, <2>10
  <2>6. ResultsInv'
    BY <2>1, <2>2, <2>8, <2>10
  <2>7. SummaryInv'
    BY <2>1, <2>2, <2>8, <2>10
  <2> QED
    BY <2>3, <2>4, <2>5, <2>6, <2>7, <2>9
<1>19. CASE EndFail
  <2>1. SubOf[idx] \in Tasks /\ Finalize(SubOf[idx], "failed")
    BY <1>19 DEF EndFail, CompleteTask, FinalizeCancelled
  <2>2. TableTypeOK' /\ cancelled' = cancelled /\
        status' = [status EXCEPT ![SubOf[idx]] = IF @ \in Final \cup {"absent"} THEN @ ELSE "failed"]
    BY <2>1, FinalizeFacts
  <2>3. TypeOK'
    BY <1>19, <2>1, <2>2 DEF EndFail
  <2>4. PositionInv' /\ CurrentInv'
    BY <1>19, <2>1, <2>2 DEF EndFail
  <2>5. OthersInv'
    BY <1>19, <2>1, <2>2 DEF EndFail
  <2>6. ResultsInv'
    BY <1>19, <2>1, <2>2 DEF EndFail
  <2>7. SummaryInv'
    BY <1>19, <2>1, <2>2 DEF EndFail
  <2> QED
    BY <2>3, <2>4, <2>5, <2>6, <2>7
<1>20. CASE EndCancelled
  <2>1. SubOf[idx] \in Tasks /\ Finalize(SubOf[idx], "cancelled")
    BY <1>20 DEF EndCancelled, CompleteTask, FinalizeCancelled
  <2>2. TableTypeOK' /\ cancelled' = cancelled /\
        status' = [status EXCEPT ![SubOf[idx]] = IF @ \in Final \cup {"absent"} THEN @ ELSE "cancelled"]
    BY <2>1, FinalizeFacts
  <2>3. TypeOK'
    BY <1>20, <2>1, <2>2 DEF EndCancelled
  <2>4. PositionInv' /\ CurrentInv'
    BY <1>20, <2>1, <2>2 DEF EndCancelled
  <2>5. OthersInv'
    BY <1>20, <2>1, <2>2 DEF EndCancelled
  <2>6. ResultsInv'
    BY <1>20, <2>1, <2>2 DEF EndCancelled
  <2>7. SummaryInv'
    BY <1>20, <2>1, <2>2 DEF EndCancelled
  <2> QED
    BY <2>3, <2>4, <2>5, <2>6, <2>7
<1>21. CASE Record
  <2>1. /\ pc = "record" /\ pc' = "close" /\ idx \in Items
        /\ results' = [results EXCEPT ![Label[idx]] = IF status[SubOf[idx]] = "cancelled" THEN "cancelled"
                                                      ELSE IF ok THEN "ok" ELSE "failed"]
        /\ UNCHANGED <<tableVars, kind, idx, ok, raised, proc, job, httpVars>>
    BY <1>21 DEF Record
  <2>2. TypeOK' /\ PositionInv'
    BY <2>1
  <2>3. CurrentInv' /\ OthersInv'
    BY <2>1
  <2>4. ResultsInv' /\ SummaryInv'
    BY <2>1
  <2> QED
    BY <2>2, <2>3, <2>4
<1>22. CASE Close
  <2>1. /\ idx \in Items /\ idx \in 1..N /\ idx' = idx + 1
        /\ pc = "close" /\ pc' = "next" /\ proc' = "none"
        /\ UNCHANGED <<kind, ok, results, raised, job, hpc, htask, hchild>>
        /\ SubOf[idx] \in Tasks /\ SubOf[idx] # Summary
    BY <1>22 DEF Close
  <2>10. kind = "scheduled" => IsTransfer
    OBVIOUS
  <2>2. /\ status[SubOf[idx]] # "absent"
        /\ kind = "scheduled" => \/ status[SubOf[idx]] \in Final
                                 \/ idx \in raised /\ status[SubOf[idx]] = "pending"
    <3>1. SubOf[idx] \in Tasks /\ status[SubOf[idx]] \in Statuses
      BY <2>1
    <3>2. /\ IsTransfer /\ idx \notin raised => status[SubOf[idx]] \in Final
          /\ ~IsTransfer => status[SubOf[idx]] \in {"pending", "running", "cancelled"}
          /\ kind = "scheduled" => status[SubOf[idx]] # "running"
          /\ status[SubOf[idx]] # "absent"
      BY <2>1
    <3> QED
      BY <2>10, <3>1, <3>2
  <2>3. /\ TableTypeOK' /\ cancelled' = cancelled
        /\ status' = [status EXCEPT ![SubOf[idx]] =
                        IF @ \in Final \cup {"absent"} \/ kind = "scheduled" THEN @
                        ELSE IF ok THEN "completed" ELSE "failed"]
    <3>1. CASE kind = "scheduled"
      <4>1. UNCHANGED <<status, disk, runningId, cancelled, notes, unsaved>>
        BY <1>22, <3>1 DEF Close
      <4> QED
        BY <2>1, <2>2, <3>1, <4>1
    <3>2. CASE kind = "bulk"
      <4>1. Finalize(SubOf[idx], IF ok THEN "completed" ELSE "failed")
        BY <1>22, <2>1, <3>2 DEF Close, CompleteTask
      <4>2. TableTypeOK' /\ cancelled' = cancelled /\ status' = [status EXCEPT ![SubOf[idx]] =
               IF @ \in Final \cup {"absent"} THEN @ ELSE IF ok THEN "completed" ELSE "failed"]
        BY <2>1, <4>1, FinalizeFacts
      <4> QED
        BY <3>2, <4>2
    <3> QED
      BY <3>1, <3>2
  <2>4. /\ status'[SubOf[idx]] \in Final \/ (kind = "scheduled" /\ idx \in raised /\ status'[SubOf[idx]] = "pending")
        /\ status'[Summary] = status[Summary]
        /\ \A i \in Items \ {idx} : status'[SubOf[i]] = status[SubOf[i]]
    BY <2>1, <2>2, <2>3
  <2>5. TypeOK'
    BY <2>1, <2>3
  <2>6. PositionInv' /\ CurrentInv'
    BY <2>1, <2>3, <2>4
  <2>7. OthersInv'
    <3> SUFFICES ASSUME NEW i \in Items
                 PROVE  /\ i < idx + 1 => \/ status'[SubOf[i]] \in Final \cup {"absent"}
                                          \/ kind = "scheduled" /\ i \in raised /\ status'[SubOf[i]] = "pending"
                        /\ i >= idx + 1 => status'[SubOf[i]] = "absent"
      BY <2>1
    <3>1. CASE i = idx
      BY <2>1, <2>4, <3>1
    <3>2. CASE i # idx
      BY <2>1, <2>4, <3>2
    <3> QED
      BY <3>1, <3>2
  <2>8. ResultsInv'
    <3> SUFFICES ASSUME DistinctLabels, NEW i \in Items, i < idx + 1 PROVE ResultOf(i)'
      BY <2>1
    <3>1. CASE i = idx
      <4>1. /\ \/ results[Label[idx]] = "cancelled" /\ status[SubOf[idx]] = "cancelled"
               \/ results[Label[idx]] = IF ok THEN "ok" ELSE "failed"
            /\ status[SubOf[idx]] = "failed" => ~ok
            /\ status[SubOf[idx]] = "completed" => ok \/ idx \in raised
            /\ idx \in raised => ~ok
        BY <2>1
      <4>2. status'[SubOf[idx]] = IF status[SubOf[idx]] \in Final \cup {"absent"} \/ kind = "scheduled"
                                  THEN status[SubOf[idx]]
                                  ELSE IF ok THEN "completed" ELSE "failed"
        BY <2>1, <2>3
      <4> QED
        BY <2>1, <2>2, <3>1, <4>1, <4>2
    <3>2. CASE i # idx
      <4>1. i < idx
        BY <2>1, <3>2
      <4>2. ResultOf(i)
        BY <4>1
      <4> QED
        BY <2>1, <2>4, <3>2, <4>2
    <3> QED
      BY <3>1, <3>2
  <2>9. SummaryInv'
    BY <2>1, <2>4
  <2> QED
    BY <2>5, <2>6, <2>7, <2>8, <2>9
<1>23. CASE Sum
  BY <1>23 DEF Sum
<1>24. CASE SumCancelled
  <2>1. Summary \in Tasks /\ Finalize(Summary, "cancelled")
    BY <1>24 DEF SumCancelled, CompleteTask, FinalizeCancelled
  <2>2. TableTypeOK' /\ cancelled' = cancelled /\
        status' = [status EXCEPT ![Summary] = IF @ \in Final \cup {"absent"} THEN @ ELSE "cancelled"]
    BY <2>1, FinalizeFacts
  <2>3. TypeOK'
    BY <1>24, <2>1, <2>2 DEF SumCancelled
  <2>4. PositionInv' /\ CurrentInv'
    BY <1>24, <2>1, <2>2 DEF SumCancelled
  <2>5. OthersInv'
    BY <1>24, <2>1, <2>2 DEF SumCancelled
  <2>6. ResultsInv'
    BY <1>24, <2>1, <2>2 DEF SumCancelled
  <2>7. SummaryInv'
    BY <1>24, <2>1, <2>2 DEF SumCancelled
  <2> QED
    BY <2>3, <2>4, <2>5, <2>6, <2>7
<1>25. CASE SumDone
  <2>1. Summary \in Tasks /\ Finalize(Summary, (IF Failed = 0 THEN "completed" ELSE "failed"))
    BY <1>25 DEF SumDone, CompleteTask, FinalizeCancelled
  <2>2. TableTypeOK' /\ cancelled' = cancelled /\
        status' = [status EXCEPT ![Summary] = IF @ \in Final \cup {"absent"} THEN @ ELSE (IF Failed = 0 THEN "completed" ELSE "failed")]
    BY <2>1, FinalizeFacts
  <2>3. TypeOK'
    BY <1>25, <2>1, <2>2 DEF SumDone
  <2>4. PositionInv' /\ CurrentInv'
    BY <1>25, <2>1, <2>2 DEF SumDone
  <2>5. OthersInv'
    BY <1>25, <2>1, <2>2 DEF SumDone
  <2>6. ResultsInv'
    BY <1>25, <2>1, <2>2 DEF SumDone
  <2>7. SummaryInv'
    BY <1>25, <2>1, <2>2 DEF SumDone
  <2> QED
    BY <2>3, <2>4, <2>5, <2>6, <2>7
<1>26. CASE CancelChild
  BY <1>26 DEF CancelChild
<1>27. CASE CancelFlag
  <2>1. /\ cancelled' = cancelled \cup ({htask, hchild} \ {None}) /\ hpc' = "branch" /\ hpc = "flag"
        /\ UNCHANGED <<status, disk, runningId, notes, unsaved, workerVars, proc, job, htask, hchild>>
    BY <1>27 DEF CancelFlag, FlagCancelled
  <2>2. cancelled' \in SUBSET Tasks /\ cancelled \subseteq cancelled'
    BY <2>1
  <2>3. TypeOK'
    BY <2>1, <2>2
  <2>4. PositionInv' /\ CurrentInv'
    BY <2>1, <2>2
  <2>5. OthersInv' /\ SummaryInv'
    BY <2>1
  <2>6. ResultsInv'
    BY <2>1
  <2> QED
    BY <2>3, <2>4, <2>5, <2>6
<1>28. CASE CancelBranch
  BY <1>28 DEF CancelBranch
<1>29. CASE CancelFinalize
  <2>1. htask \in Tasks /\ Finalize(htask, "cancelled")
    BY <1>29 DEF CancelFinalize, CompleteTask, FinalizeCancelled
  <2>2. TableTypeOK' /\ cancelled' = cancelled /\
        status' = [status EXCEPT ![htask] = IF @ \in Final \cup {"absent"} THEN @ ELSE "cancelled"]
    BY <2>1, FinalizeFacts
  <2>8. hpc' = "idle" /\ htask' = None /\ hchild' = None /\ UNCHANGED <<workerVars, proc, job>>
    BY <1>29 DEF CancelFinalize
  <2>3. TypeOK'
    <3>1. idx' \in 1..N + 1 /\ results' \in [Labels -> Outcomes] /\ raised' \subseteq Items
      BY <2>8
    <3> QED
      BY <2>2, <2>8, <3>1
  <2>4. PositionInv' /\ CurrentInv'
    BY <1>29, <2>1, <2>2 DEF CancelFinalize
  <2>5. OthersInv'
    BY <1>29, <2>1, <2>2 DEF CancelFinalize
  <2>6. ResultsInv'
    BY <1>29, <2>1, <2>2 DEF CancelFinalize
  <2>7. SummaryInv'
    BY <1>29, <2>1, <2>2 DEF CancelFinalize
  <2> QED
    BY <2>3, <2>4, <2>5, <2>6, <2>7
<1>30. CASE CancelKill
  BY <1>30 DEF CancelKill
<1>31. ASSUME NEW t \in Tasks, CancelBegin(t) PROVE IInv'
  BY <1>31 DEF CancelBegin
<1>32. CASE DeleteJob
  <2>1. job' \in BOOLEAN /\ UNCHANGED <<tableVars, workerVars, proc, httpVars>>
    BY <1>32 DEF DeleteJob
  <2> QED
    BY <2>1
<1>33. CASE ProcExit
  BY <1>33 DEF ProcExit
<1>34. CASE UNCHANGED vars
  BY <1>34
<1> QED
  BY <1>1, <1>2, <1>3, <1>4, <1>5, <1>6, <1>7, <1>8, <1>9, <1>10, <1>11, <1>12, <1>13, <1>14, <1>15, <1>16, <1>17, <1>18, <1>19, <1>20, <1>21, <1>22, <1>23, <1>24, <1>25, <1>26, <1>27, <1>28, <1>29, <1>30, <1>31, <1>32, <1>33, <1>34, <1>35 DEF Next, WorkerNext, CancelNext

\* The inductive invariant is one.
LEMMA IInvHolds == Spec => []IInv
  BY InitIInv, NextIInv, PTL DEF Spec

\* The types, and which task of an item may be open: at any time that of the current item
\* only, and none when the batch has ended, but for the tasks of items that raised in a
\* scheduled run before they were started, which nothing finalizes.
THEOREM ItemsClosed == Spec => []BatchInv
<1>1. IInv => BatchInv
  <2> SUFFICES ASSUME IInv, NEW i \in Items, status[SubOf[i]] \in {"pending", "running"}
               PROVE  \/ i = idx /\ pc \in ItemPcs
                      \/ kind = "scheduled" /\ i \in raised /\ status[SubOf[i]] = "pending"
    BY DEF IInv, BatchInv, ChildrenClosed
  <2> SUFFICES ASSUME ~(kind = "scheduled" /\ i \in raised /\ status[SubOf[i]] = "pending")
               PROVE  i = idx /\ pc \in ItemPcs
    OBVIOUS
  <2>1. ~(i < idx) /\ ~(i > idx) /\ ~(i = idx /\ pc \notin ItemPcs)
    BY DEF IInv, OthersInv, Final
  <2> QED
    BY <2>1, ItemFacts DEF IInv, TypeOK
<1> QED
  BY <1>1, IInvHolds, PTL

\* There are at most as many labels as items, and as many only when they are distinct.
LEMMA LabelFacts ==
  /\ IsFiniteSet(Labels) /\ Cardinality(Labels) <= N
  /\ Cardinality(Labels) = N <=> DistinctLabels
<1> DEFINE label == [i \in Items |-> Label[i]]
<1>1. label \in Surjection(Items, Labels)
  BY DEF Surjection, Labels
<1>2. /\ IsFiniteSet(Labels) /\ Cardinality(Labels) <= N
      /\ Cardinality(Labels) = N <=> label \in Injection(Items, Labels)
  BY <1>1, FS_Surjection DEF N
<1>3. label \in Injection(Items, Labels) <=> DistinctLabels
  BY <1>1 DEF DistinctLabels, Injection, IsInjective, Surjection
<1> QED
  BY <1>2, <1>3

\* As many labels with a good outcome as there are items: each item has a label of its own,
\* and every label has a good outcome.
LEMMA NoneFailed ==
  ASSUME TypeOK, Failed = 0
  PROVE  DistinctLabels /\ \A i \in Items : results[Label[i]] \in {"ok", "skipped", "cancelled"}
<1> DEFINE Good == {l \in Labels : results[l] \in {"ok", "skipped", "cancelled"}}
<1>3. Good \subseteq Labels /\ IsFiniteSet(Good) /\ Cardinality(Good) <= Cardinality(Labels)
  BY LabelFacts, FS_Subset
<1>4. Cardinality(Good) = N /\ Cardinality(Labels) = N
  BY <1>3, LabelFacts, ItemFacts, FS_CardinalityType DEF Failed
<1>5. Good = Labels
  BY <1>3, <1>4, LabelFacts, FS_Subset
<1> QED
  BY <1>4, <1>5, LabelFacts, ItemFacts

\* No item failed, raised or was left open; one that raised had been cancelled before.
AllWell ==
  \A i \in Items : /\ status[SubOf[i]] \in {"absent", "completed", "cancelled"}
                   /\ i \in raised => status[SubOf[i]] = "cancelled"

LEMMA CompletedAllWell == ASSUME IInv, status[Summary] = "completed" PROVE AllWell
<1>1. /\ idx = N + 1 /\ DistinctLabels
      /\ \A i \in Items : results[Label[i]] \in {"ok", "skipped", "cancelled"}
  BY NoneFailed DEF IInv, SummaryInv
<1> SUFFICES ASSUME NEW i \in Items
             PROVE  /\ status[SubOf[i]] \in {"absent", "completed", "cancelled"}
                    /\ i \in raised => status[SubOf[i]] = "cancelled"
  BY DEF AllWell
<1>2. i < idx /\ results[Label[i]] \in {"ok", "skipped", "cancelled"}
  BY <1>1, ItemFacts
<1>3. ResultOf(i)
  BY <1>1, <1>2 DEF IInv, ResultsInv
<1>4. \/ status[SubOf[i]] \in Final \cup {"absent"}
      \/ i \in raised /\ status[SubOf[i]] = "pending"
  BY <1>2 DEF IInv, OthersInv
<1> QED
  BY <1>2, <1>3, <1>4 DEF ResultOf, Final

\* A completed batch has no item that failed, raised or was left open, whatever the labels.
THEOREM CompletedTellsTruth == Spec => [](status[Summary] = "completed" => AllWell)
<1>1. IInv => (status[Summary] = "completed" => AllWell)
  BY CompletedAllWell
<1> QED
  BY <1>1, IInvHolds, PTL

\* When no two items have the same label, a batch that failed has an item that did not
\* succeed; and a completed one none that failed, raised or was left open.
THEOREM SummaryTruth == ASSUME DistinctLabels PROVE Spec => []SummaryTellsTruth
<1>1. ASSUME IInv, status[Summary] = "failed"
      PROVE  \E i \in Items : status[SubOf[i]] \in {"failed", "cancelled"} \/ i \in raised
  <2>1. idx = N + 1 /\ Failed # 0 /\ \A i \in Items : ResultOf(i)
    BY <1>1, ItemFacts DEF IInv, SummaryInv, ResultsInv
  <2>2. SUFFICES ASSUME \A i \in Items : results[Label[i]] # "failed"
                 PROVE  FALSE
    BY <2>1 DEF ResultOf
  <2>3. \A i \in Items : results[Label[i]] \in {"ok", "skipped", "cancelled"}
    <3>1. \A i \in Items : results[Label[i]] \in Outcomes \ {"none", "failed"}
      BY <1>1, <2>1, <2>2, ItemFacts DEF ResultOf, IInv, TypeOK
    <3> QED
      BY <3>1 DEF Outcomes
  <2>4. {l \in Labels : results[l] \in {"ok", "skipped", "cancelled"}} = Labels
    BY <2>3 DEF Labels
  <2>5. Cardinality(Labels) = N
    BY LabelFacts, ItemFacts DEF DistinctLabels
  <2>6. Failed = N - Cardinality(Labels)
    BY <2>4 DEF Failed
  <2> QED
    BY <2>1, <2>5, <2>6, ItemFacts
<1>2. IInv => SummaryTellsTruth
  BY <1>1, CompletedAllWell DEF AllWell, SummaryTellsTruth
<1> QED
  BY <1>2, IInvHolds, PTL

\* Once a task is not in the table, start_task and finalizing leave it so, and the
\* set of flagged tasks alone.
LEMMA AbsentFacts ==
  ASSUME TypeOK, NEW t \in Tasks, NEW u \in Tasks, status[u] = "absent",
         \/ StartTask(t)
         \/ \E outcome \in Final : Finalize(t, outcome)
  PROVE  status'[u] = "absent" /\ cancelled' = cancelled
<1>1. CASE StartTask(t)
  BY <1>1, StartTaskFacts DEF TypeOK, TableTypeOK
<1>2. ASSUME NEW outcome \in Final, Finalize(t, outcome)
      PROVE  status'[u] = "absent" /\ cancelled' = cancelled
  BY <1>2, FinalizeFacts DEF TypeOK, TableTypeOK
<1> QED
  BY <1>1, <1>2

\* The summary is flagged and the worker is not at item i, nor past it.
Held(i) ==
  /\ Summary \in cancelled
  /\ idx <= i /\ (idx = i => pc \notin ItemPcs)
  /\ status[SubOf[i]] = "absent"

\* The worker does not come to an item of a flagged batch any more.
LEMMA HeldStep == ASSUME IInv, NEW i \in Items, Held(i), [Next]_vars PROVE Held(i)'
<1> USE ItemFacts DEF Held, tableVars, workerVars, httpVars, vars, Goto, RaiseAt, HttpGoto, sub, ItemPcs
<1>a. TypeOK /\ PositionInv
  BY DEF IInv
<1>b. Summary \in Tasks /\ SubOf[i] \in Tasks /\ idx \in 1..N + 1 /\ cancelled \subseteq Tasks
  BY <1>a DEF TypeOK, TableTypeOK
<1> USE <1>b
<1>1. CASE Dequeue
  BY <1>1 DEF Dequeue
<1>2. CASE JobFound
  BY <1>2 DEF JobFound
<1>3. CASE JobGone
  BY <1>3 DEF JobGone
<1>4. CASE NextItem
  BY <1>4 DEF NextItem, UpdateProgress
<1>5. CASE StopBatch
  BY <1>5 DEF StopBatch
<1>6. CASE ItemsDone
  BY <1>6 DEF ItemsDone
<1>7. CASE SkipItem
  BY <1>7 DEF SkipItem
<1>8. CASE RunPlain
  BY <1>8 DEF RunPlain
<1>9. CASE RunPoolMissing
  BY <1>9 DEF RunPoolMissing
<1>35. CASE RunRaises
  BY <1>35 DEF RunRaises
<1>10. CASE SpawnFails
  BY <1>10 DEF SpawnFails
<1>11. CASE Spawn
  BY <1>11 DEF Spawn
<1>12. CASE Stream
  BY <1>12 DEF Stream
<1>13. CASE Verdict
  BY <1>13 DEF Verdict
<1>14. CASE Record
  BY <1>14 DEF Record
<1>15. CASE Sum
  BY <1>15 DEF Sum
<1>16. CASE AddSub
  <2>1. idx \in Items /\ idx # i /\ pc = "precheck"
    BY <1>16, <1>a DEF AddSub, PositionInv
  <2> QED
    BY <1>16, <2>1, <1>a DEF AddSub, AddTask, TypeOK, TableTypeOK
<1>17. CASE StartSummary
  <2>1. Summary \in Tasks /\ StartTask(Summary)
    BY <1>17, <1>a DEF StartSummary, PositionInv
  <2>2. status'[SubOf[i]] = "absent" /\ cancelled' = cancelled
    BY <1>a, <2>1, AbsentFacts
  <2> QED
    BY <1>17, <2>2 DEF StartSummary
<1>18. CASE StartSub
  <2>1. SubOf[idx] \in Tasks /\ StartTask(SubOf[idx])
    BY <1>18, <1>a DEF StartSub, PositionInv
  <2>2. status'[SubOf[i]] = "absent" /\ cancelled' = cancelled
    BY <1>a, <2>1, AbsentFacts
  <2> QED
    BY <1>18, <2>2 DEF StartSub
<1>19. CASE RunTransfer
  <2>1. SubOf[idx] \in Tasks /\ StartTask(SubOf[idx])
    BY <1>19, <1>a DEF RunTransfer, PositionInv
  <2>2. status'[SubOf[i]] = "absent" /\ cancelled' = cancelled
    BY <1>a, <2>1, AbsentFacts
  <2> QED
    BY <1>19, <2>2 DEF RunTransfer
<1>20. CASE EndOk
  <2>1. SubOf[idx] \in Tasks /\ \E outcome \in Final : Finalize(SubOf[idx], outcome)
    BY <1>20, <1>a DEF EndOk, CompleteTask, FinalizeCancelled, Final, PositionInv
  <2>2. status'[SubOf[i]] = "absent" /\ cancelled' = cancelled
    BY <1>a, <2>1, AbsentFacts
  <2> QED
    BY <1>20, <2>2 DEF EndOk
<1>21. CASE EndFail
  <2>1. SubOf[idx] \in Tasks /\ \E outcome \in Final : Finalize(SubOf[idx], outcome)
    BY <1>21, <1>a DEF EndFail, CompleteTask, FinalizeCancelled, Final, PositionInv
  <2>2. status'[SubOf[i]] = "absent" /\ cancelled' = cancelled
    BY <1>a, <2>1, AbsentFacts
  <2> QED
    BY <1>21, <2>2 DEF EndFail
<1>22. CASE EndCancelled
  <2>1. SubOf[idx] \in Tasks /\ \E outcome \in Final : Finalize(SubOf[idx], outcome)
    BY <1>22, <1>a DEF EndCancelled, CompleteTask, FinalizeCancelled, Final, PositionInv
  <2>2. status'[SubOf[i]] = "absent" /\ cancelled' = cancelled
    BY <1>a, <2>1, AbsentFacts
  <2> QED
    BY <1>22, <2>2 DEF EndCancelled
<1>23. CASE SumCancelled
  <2>1. Summary \in Tasks /\ \E outcome \in Final : Finalize(Summary, outcome)
    BY <1>23, <1>a DEF SumCancelled, CompleteTask, FinalizeCancelled, Final, PositionInv
  <2>2. status'[SubOf[i]] = "absent" /\ cancelled' = cancelled
    BY <1>a, <2>1, AbsentFacts
  <2> QED
    BY <1>23, <2>2 DEF SumCancelled
<1>24. CASE SumDone
  <2>1. Summary \in Tasks /\ \E outcome \in Final : Finalize(Summary, outcome)
    BY <1>24, <1>a DEF SumDone, CompleteTask, FinalizeCancelled, Final, PositionInv
  <2>2. status'[SubOf[i]] = "absent" /\ cancelled' = cancelled
    BY <1>a, <2>1, AbsentFacts
  <2> QED
    BY <1>24, <2>2 DEF SumDone
<1>25. CASE CancelFinalize
  <2>1. htask \in Tasks /\ \E outcome \in Final : Finalize(htask, outcome)
    BY <1>25, <1>a DEF CancelFinalize, CompleteTask, FinalizeCancelled, Final, PositionInv
  <2>2. status'[SubOf[i]] = "absent" /\ cancelled' = cancelled
    BY <1>a, <2>1, AbsentFacts
  <2> QED
    BY <1>25, <2>2 DEF CancelFinalize
<1>26. CASE Close
  <2>1. SubOf[idx] \in Tasks /\ idx \in Items /\ idx < i
    BY <1>26, <1>a DEF Close, PositionInv
  <2>2. status'[SubOf[i]] = "absent" /\ cancelled' = cancelled
    <3>1. CASE kind = "bulk"
      <4>1. \E outcome \in Final : Finalize(SubOf[idx], outcome)
        BY <1>26, <2>1, <3>1 DEF Close, CompleteTask, Final
      <4> QED
        BY <1>a, <2>1, <4>1, AbsentFacts
    <3>2. CASE kind # "bulk"
      BY <1>26, <3>2 DEF Close
    <3> QED
      BY <3>1, <3>2
  <2> QED
    BY <1>26, <2>1, <2>2 DEF Close
<1>27. CASE CancelChild
  BY <1>27 DEF CancelChild
<1>28. CASE CancelFlag
  BY <1>28 DEF CancelFlag, FlagCancelled
<1>29. CASE CancelBranch
  BY <1>29 DEF CancelBranch
<1>30. CASE CancelKill
  BY <1>30 DEF CancelKill
<1>31. CASE DeleteJob
  BY <1>31 DEF DeleteJob
<1>32. CASE ProcExit
  BY <1>32 DEF ProcExit
<1>33. ASSUME NEW t \in Tasks, CancelBegin(t) PROVE Held(i)'
  BY <1>33 DEF CancelBegin
<1>34. CASE UNCHANGED vars
  BY <1>34
<1> QED
  BY <1>1, <1>2, <1>3, <1>4, <1>5, <1>6, <1>7, <1>8, <1>9, <1>10, <1>11, <1>12, <1>13, <1>14, <1>15, <1>16, <1>17, <1>18, <1>19, <1>20, <1>21, <1>22, <1>23, <1>24, <1>25, <1>26, <1>27, <1>28, <1>29, <1>30, <1>31, <1>32, <1>33, <1>34, <1>35 DEF Next, WorkerNext, CancelNext

\* Once the summary is flagged, no item after the current one gets a task.
THEOREM CancelStopsItems == Spec => NoItemAfterCancel
<1>1. SUFFICES ASSUME NEW i \in Items
               PROVE  Spec => []((Summary \in cancelled /\ idx < i) => [](status[SubOf[i]] = "absent"))
  BY DEF NoItemAfterCancel
<1>2. IInv /\ Summary \in cancelled /\ idx < i => Held(i)
  BY ItemFacts DEF IInv, OthersInv, TypeOK, Held
<1>3. IInv /\ Held(i) /\ [Next]_vars => Held(i)'
  BY HeldStep
<1>4. Held(i) => status[SubOf[i]] = "absent"
  BY DEF Held
<1> QED
  BY <1>2, <1>3, <1>4, IInvHolds, PTL DEF Spec

-----------------------------------------------------------------------------
(* The safety half of CancelledSummaryEnds: the worker does not leave a batch *)
(* behind whose summary is still open, cancelled or not, unless its schedule  *)
(* was deleted while it waited.                                               *)

SummaryEnds == pc = "done" => status[Summary] \in Final \/ ~job

\* While it waits the summary is pending, or cancelled already; at the end it is final.
EndInv ==
  /\ pc = "queued" => status[Summary] \in {"pending", "cancelled"}
  /\ SummaryEnds

\* What the steps do to the summary and to the schedule.  An open summary is left only by
\* the two steps that finalize it, by the one that finds no schedule, and by the one that
\* finds it finalized in the queue; only the start of the batch opens a final one.
LEMMA SummaryFacts ==
  ASSUME IInv, [Next]_vars
  PROVE  /\ job' => job
         /\ pc' = "queued" => pc = "queued"
         /\ pc # "start" => status'[Summary] \in {status[Summary]} \cup Final
         /\ status[Summary] \in Final /\ pc # "start" => status'[Summary] = status[Summary]
         /\ pc' = "done" /\ pc # "done" =>
              status'[Summary] \in Final \/ ~job \/ (pc = "queued" /\ status[Summary] # "pending")
         /\ pc = "queued" => status'[Summary] \in {status[Summary], "cancelled"}
<1> USE ItemFacts DEF tableVars, workerVars, httpVars, vars, Goto, RaiseAt, HttpGoto, sub
<1>a. TypeOK /\ PositionInv /\ SummaryInv
  BY DEF IInv
<1>b. Summary \in Tasks /\ job \in BOOLEAN /\ status \in [Tasks -> Statuses] /\ idx \in 1..N + 1 /\ status[Summary] # "absent"
  BY <1>a DEF TypeOK, TableTypeOK, SummaryInv
<1> DEFINE Facts == /\ job' => job
                    /\ pc' = "queued" => pc = "queued"
                    /\ pc # "start" => status'[Summary] \in {status[Summary]} \cup Final
                    /\ status[Summary] \in Final /\ pc # "start" => status'[Summary] = status[Summary]
                    /\ pc' = "done" /\ pc # "done" =>
                         status'[Summary] \in Final \/ ~job \/ (pc = "queued" /\ status[Summary] # "pending")
                    /\ pc = "queued" => status'[Summary] \in {status[Summary], "cancelled"}
<1>1. CASE Dequeue
  BY <1>1 DEF Dequeue
<1>2. CASE StartSummary
  BY <1>2 DEF StartSummary
<1>3. CASE \/ JobFound \/ JobGone \/ NextItem \/ StopBatch \/ ItemsDone \/ SkipItem
           \/ RunPlain \/ RunPoolMissing \/ RunRaises \/ SpawnFails \/ Spawn \/ Stream \/ Verdict
           \/ Record \/ Sum
  <2>1. job' = job /\ pc \notin {"queued", "start", "done"} /\ pc' # "queued" /\ (pc' = "done" => ~job)
    <3>1. CASE JobFound \/ JobGone \/ NextItem \/ StopBatch \/ ItemsDone \/ SkipItem \/ RunPlain
      BY <3>1 DEF JobFound, JobGone, NextItem, StopBatch, ItemsDone, SkipItem, RunPlain
    <3>2. CASE RunPoolMissing \/ RunRaises \/ SpawnFails \/ Spawn \/ Stream \/ Verdict \/ Record \/ Sum
      BY <3>2 DEF RunPoolMissing, RunRaises, SpawnFails, Spawn, Stream, Verdict, Record, Sum
    <3> QED
      BY <1>3, <3>1, <3>2
  <2>2. status' = status
    BY <1>3 DEF JobFound, JobGone, NextItem, UpdateProgress, StopBatch, ItemsDone, SkipItem,
       RunPlain, RunPoolMissing, RunRaises, SpawnFails, Spawn, Stream, Verdict, Record, Sum
  <2> QED
    BY <1>b, <2>1, <2>2
<1>4. CASE AddSub
  <2>1. sub \in Tasks /\ sub # Summary
    BY <1>4, <1>a DEF AddSub, PositionInv, ItemPcs
  <2> QED
    BY <1>4, <1>b, <2>1 DEF AddSub, AddTask
<1>5. CASE StartSub \/ RunTransfer
  <2>1. sub \in Tasks /\ sub # Summary
    BY <1>5, <1>a DEF StartSub, RunTransfer, PositionInv, ItemPcs
  <2>2. StartTask(sub) /\ pc \in {"substart", "run"} /\ pc' \in {"run", "spawn"} /\ job' = job
    BY <1>5 DEF StartSub, RunTransfer
  <2>3. status'[Summary] = status[Summary]
    BY <1>b, <2>1, <2>2 DEF StartTask
  <2> QED
    BY <2>2, <2>3
<1>6. CASE EndOk \/ EndFail \/ EndCancelled \/ Close
  <2>1. sub \in Tasks /\ sub # Summary
    BY <1>6, <1>a DEF EndOk, EndFail, EndCancelled, Close, PositionInv, ItemPcs
  <2>2. /\ (\E outcome \in Final : Finalize(sub, outcome)) \/ UNCHANGED status
        /\ pc' \in {"record", "next"} /\ pc \in {"endOk", "endFail", "endCancelled", "close"} /\ job' = job
    BY <1>6 DEF EndOk, EndFail, EndCancelled, Close, CompleteTask, FinalizeCancelled, Final
  <2>3. status'[Summary] = status[Summary]
    BY <1>b, <2>1, <2>2 DEF Finalize
  <2> QED
    BY <2>2, <2>3
<1>7. CASE SumCancelled \/ SumDone
  <2>1. PICK outcome \in Final : Finalize(Summary, outcome)
    BY <1>7 DEF SumCancelled, SumDone, CompleteTask, FinalizeCancelled, Final
  <2>2. status' = [status EXCEPT ![Summary] = IF @ \in Final \cup {"absent"} THEN @ ELSE outcome]
    BY <1>a, <1>b, <2>1, FinalizeFacts DEF TypeOK
  <2>3. status'[Summary] \in Final /\ (status[Summary] \in Final => status'[Summary] = status[Summary])
    BY <1>b, <2>2
  <2>4. pc \in {"sumCancelled", "sumDone"} /\ pc' = "done" /\ job' = job
    BY <1>7 DEF SumCancelled, SumDone
  <2> QED
    BY <1>b, <2>3, <2>4
<1>8. CASE CancelFinalize
  <2>1. htask \in Tasks /\ Finalize(htask, "cancelled")
    BY <1>8, <1>a DEF CancelFinalize, FinalizeCancelled, PositionInv
  <2>2. status' = [status EXCEPT ![htask] = IF @ \in Final \cup {"absent"} THEN @ ELSE "cancelled"]
    BY <1>a, <2>1, FinalizeFacts DEF TypeOK, Final
  <2>3. /\ status'[Summary] \in {status[Summary], "cancelled"}
        /\ status[Summary] \in Final => status'[Summary] = status[Summary]
    BY <1>b, <2>1, <2>2
  <2> QED
    BY <1>8, <2>3 DEF CancelFinalize, Final
<1>9. CASE CancelChild \/ CancelFlag \/ CancelBranch \/ CancelKill \/ DeleteJob \/ ProcExit \/ UNCHANGED vars
  BY <1>9 DEF CancelChild, CancelFlag, FlagCancelled, CancelBranch, CancelKill, DeleteJob, ProcExit
<1>10. ASSUME NEW t \in Tasks, CancelBegin(t) PROVE Facts
  BY <1>10 DEF CancelBegin
<1> QED
  BY <1>1, <1>2, <1>3, <1>4, <1>5, <1>6, <1>7, <1>8, <1>9, <1>10 DEF Next, WorkerNext, CancelNext

\* A batch that is over leaves no summary open ("every sub-type ends up finalized",
\* bulk_service._run), but the one whose schedule was deleted (_run_backup_job returns).
THEOREM SummaryIsFinalized == Spec => []SummaryEnds
<1>1. Init => EndInv
  BY DEF Init, EndInv, SummaryEnds
<1>2. IInv /\ EndInv /\ [Next]_vars => EndInv'
  <2> SUFFICES ASSUME IInv, EndInv, [Next]_vars PROVE EndInv'
    OBVIOUS
  <2>1. CASE pc' = "done"
    <3>1. CASE pc = "done"
      BY <2>1, <3>1, SummaryFacts DEF EndInv, SummaryEnds
    <3>2. CASE pc # "done"
      BY <2>1, <3>2, SummaryFacts DEF EndInv, SummaryEnds, Final
    <3> QED
      BY <3>1, <3>2
  <2>2. CASE pc' # "done"
    BY <2>2, SummaryFacts DEF EndInv, SummaryEnds
  <2> QED
    BY <2>1, <2>2
<1>3. EndInv => SummaryEnds
  BY DEF EndInv
<1> QED
  BY <1>1, <1>2, <1>3, IInvHolds, PTL DEF Spec

=============================================================================
