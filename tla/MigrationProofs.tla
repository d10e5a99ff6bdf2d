-------------------------- MODULE MigrationProofs --------------------------
(***************************************************************************)
(* Proofs about Migration, for every set of files and containers: the      *)
(* source is deleted only when it was copied, a completed migration copied *)
(* everything, one that is not completed leaves no partial copy, and the   *)
(* containers come back.                                                   *)
(*                                                                         *)
(* The invariant follows rsync: what it has done with the files it has     *)
(* passed (CopyInv), what its end says at each position of the worker      *)
(* (RsyncInv), and what the destination holds once the worker is past it   *)
(* (EndInv, CleanInv).  The last part is about merges: which of the files  *)
(* that the destination has on its own can be lost, and when.              *)
(***************************************************************************)
EXTENDS Migration, TLAPS

USE MigrationAssumption

\* Positions between the start of rsync and the deletion of the source.
CopyPcs == {"transfer", "verdict", "verify", "delete"}

Before == {"request", "queued", "stop", "copy"}

\* stop_running_containers came back and had a list of containers: nobody writes to
\* the source.
StopInv ==
  req.stop /\ "list" \notin warned /\ pc \in CopyPcs \cup {"copy"} => running = {}

RsyncInv ==
  /\ pc \in Before => rsync = "none"
  /\ rsync = "ok" => todo = {}
  /\ pc = "verdict" /\ success => rsync = "ok"
  /\ pc \in {"verify", "delete", "complete"} => rsync = "ok"

\* "completed" comes last and only after rsync succeeded.
OutcomeInv ==
  /\ pc \notin {"request", "cleanup", "finally", "done", "dead"} => outcome = "open"
  /\ pc = "request" => outcome = "none"
  /\ pc = "cleanup" => outcome = "failed"
  /\ outcome = "completed" => rsync = "ok" /\ pc \in {"finally", "done", "dead"}

\* The source keeps its files until it is deleted, and never has others than
\* those written by their owners.
SourceInv ==
  ~req.samePlace =>
  /\ pc \in Before \cup CopyPcs => \A f \in SourceFiles : vol["src"][f] \in {"new", "newer"}
  /\ \A f \in Files : vol["src"][f] \in {"none", "new", "newer"}

\* What rsync has passed is whole, and is the source's last version when nobody
\* writes to the source.
CopyInv ==
  (rsync \in {"live", "ok"} /\ pc \in CopyPcs /\ ~req.samePlace) =>
    \A f \in Files \ todo :
      /\ Quiet /\ vol["src"][f] # "none" => vol["dst"][f] = vol["src"][f]
      /\ f \in SourceFiles => vol["dst"][f] \in {"new", "newer"}
      /\ req.resolution = "overwrite" => vol["dst"][f] # "old"

Whole ==
  \A f \in Files :
    /\ f \in SourceFiles => vol["dst"][f] \in {"new", "newer"}
    /\ req.resolution = "overwrite" => vol["dst"][f] # "old"

EndInv == ~req.samePlace /\ (pc = "complete" \/ outcome = "completed") => Whole

Clean == \A f \in Files : vol["dst"][f] \in {"none", "old"}

CleanInv ==
  ~req.samePlace /\ ~req.bothRemote =>
  /\ rsync = "none" => Clean
  /\ rsync = "live" => pc = "transfer"
  /\ (pc = "cancelled" \/ (pc \in {"finally", "done"} /\ outcome \in {"failed", "cancelled"}))
       => Clean \/ "dst" \in warned
  /\ pc = "except" => rsync = "none"

IInv == TypeOK /\ StopInv /\ RsyncInv /\ OutcomeInv /\ SourceInv /\ CopyInv /\ EndInv

----------------------------------------------------------------------------
LEMMA InitIInv == Init => IInv /\ CleanInv
<1> SUFFICES ASSUME Init PROVE IInv /\ CleanInv
  OBVIOUS
<1>1. TypeOK
  <2>1. vol \in [{"src", "dst"} -> [Files -> Versions]]
    BY DEF Init, Versions
  <2>2. req \in Requests /\ running \subseteq Containers
    BY DEF Init
  <2> QED
    BY <2>1, <2>2 DEF Init, TypeOK, Pcs
<1>2. StopInv /\ RsyncInv /\ OutcomeInv /\ CopyInv /\ EndInv
  BY DEF Init, StopInv, RsyncInv, OutcomeInv, CopyInv, EndInv, CopyPcs
<1>3. SourceInv
  BY DEF Init, SourceInv
<1>4. CleanInv
  BY DEF Init, CleanInv, Clean
<1> QED
  BY <1>1, <1>2, <1>3, <1>4 DEF IInv

LEMMA NextTypeOK ==
  ASSUME TypeOK, [Next]_vars
  PROVE  TypeOK'
<1> USE DEF TypeOK, Requests, Versions, Pcs, Gone, Dest
<1>1. CASE PoolMissing
  BY <1>1 DEF PoolMissing, Step, Finalize
<1>2. CASE Begin
  BY <1>2 DEF Begin, Step
<1>3. ASSUME NEW c \in Containers, StopContainer(c) PROVE TypeOK'
  BY <1>3 DEF StopContainer, Step, workerVars
<1>4. CASE StopRaises
  BY <1>4 DEF StopRaises, Step
<1>5. CASE StopsReturn
  BY <1>5 DEF StopsReturn, Step
<1>6. CASE CopyFails
  BY <1>6 DEF CopyFails, Step
<1>7. CASE StartRsync
  BY <1>7 DEF StartRsync, Step
<1>8. CASE RsyncEnded
  BY <1>8 DEF RsyncEnded, Step
<1>9. CASE PullAbandoned
  BY <1>9 DEF PullAbandoned, Step
<1>10. CASE Verdict
  BY <1>10 DEF Verdict, Step
<1>11. CASE Verify
  BY <1>11 DEF Verify, Step
<1>12. CASE Fail
  BY <1>12 DEF Fail, Step, Finalize
<1>13. CASE Cleanup
  BY <1>13 DEF Cleanup, Step, DeleteVolume
<1>14. CASE FinalizeCancelled
  BY <1>14 DEF FinalizeCancelled, Step, Finalize
<1>15. CASE KeepSource
  BY <1>15 DEF KeepSource, Step
<1>16. CASE DeleteSource
  BY <1>16 DEF DeleteSource, Step, DeleteVolume
<1>17. CASE Complete
  BY <1>17 DEF Complete, Step, Finalize
<1>18. CASE Except
  BY <1>18 DEF Except, Step, Finalize
<1>19. CASE Finally
  BY <1>19 DEF Finally, Step
<1>20. CASE Refuse
  BY <1>20 DEF Refuse, Step
<1>21. CASE Accept
  BY <1>21 DEF Accept, Step
<1>22. ASSUME NEW f \in Files, RsyncFile(f) PROVE TypeOK'
  BY <1>22 DEF RsyncFile, workerVars
<1>23. ASSUME NEW f \in Files, ContainerWrites(f) PROVE TypeOK'
  BY <1>23 DEF ContainerWrites, workerVars
<1>24. CASE RsyncOk
  BY <1>24 DEF RsyncOk, workerVars
<1>25. CASE RsyncErr
  <2>1. vol' \in [{"src", "dst"} -> [Files -> Versions]]
    <3>1. CASE UNCHANGED vol
      BY <3>1
    <3>2. ASSUME NEW f \in Files, vol' = [vol EXCEPT ![Dest][f] = "part"]
          PROVE  vol' \in [{"src", "dst"} -> [Files -> Versions]]
      BY <3>2 DEF Versions, Dest
    <3> QED
      BY <1>25, <3>1, <3>2 DEF RsyncErr, TypeOK
  <2> QED
    BY <1>25, <2>1 DEF RsyncErr, workerVars, TypeOK
<1>26. CASE Cancel
  BY <1>26 DEF Cancel, workerVars
<1>27. CASE OtherCreates
  BY <1>27 DEF OtherCreates, workerVars
<1>28. CASE UNCHANGED vars
  BY <1>28 DEF vars, workerVars
<1>29. CASE ListFails
  BY <1>29 DEF ListFails, Step
<1>30. CASE Crash
  BY <1>30 DEF Crash, Finalize
<1>q. QED
  BY <1>1, <1>2, <1>3, <1>4, <1>5, <1>6, <1>7, <1>8, <1>9, <1>10, <1>11,
     <1>12, <1>13, <1>14, <1>15, <1>16, <1>17, <1>18, <1>19, <1>20, <1>21,
     <1>22, <1>23, <1>24, <1>25, <1>26, <1>27, <1>28, <1>29, <1>30 DEF Next, WorkerNext

LEMMA NextControl ==
  ASSUME TypeOK, StopInv, RsyncInv, OutcomeInv, [Next]_vars
  PROVE  StopInv' /\ RsyncInv' /\ OutcomeInv'
<1> USE DEF StopInv, RsyncInv, OutcomeInv, CopyPcs, Before, TypeOK, Pcs
<1>1. CASE PoolMissing
  BY <1>1 DEF PoolMissing, Step, Finalize
<1>2. CASE Begin
  BY <1>2 DEF Begin, Step
<1>3. ASSUME NEW c \in Containers, StopContainer(c) PROVE StopInv' /\ RsyncInv' /\ OutcomeInv'
  BY <1>3 DEF StopContainer, Step, workerVars
<1>4. CASE StopRaises
  BY <1>4 DEF StopRaises, Step
<1>5. CASE StopsReturn
  BY <1>5 DEF StopsReturn, Step
<1>6. CASE CopyFails
  BY <1>6 DEF CopyFails, Step
<1>7. CASE StartRsync
  BY <1>7 DEF StartRsync, Step
<1>8. CASE RsyncEnded
  BY <1>8 DEF RsyncEnded, Step
<1>9. CASE PullAbandoned
  BY <1>9 DEF PullAbandoned, Step
<1>10. CASE Verdict
  BY <1>10 DEF Verdict, Step
<1>11. CASE Verify
  BY <1>11 DEF Verify, Step
<1>12. CASE Fail
  BY <1>12 DEF Fail, Step, Finalize
<1>13. CASE Cleanup
  BY <1>13 DEF Cleanup, Step, DeleteVolume
<1>14. CASE FinalizeCancelled
  BY <1>14 DEF FinalizeCancelled, Step, Finalize
<1>15. CASE KeepSource
  BY <1>15 DEF KeepSource, Step
<1>16. CASE DeleteSource
  BY <1>16 DEF DeleteSource, Step, DeleteVolume
<1>17. CASE Complete
  BY <1>17 DEF Complete, Step, Finalize
<1>18. CASE Except
  BY <1>18 DEF Except, Step, Finalize
<1>19. CASE Finally
  BY <1>19 DEF Finally, Step
<1>20. CASE Refuse
  BY <1>20 DEF Refuse, Step
<1>21. CASE Accept
  BY <1>21 DEF Accept, Step
<1>22. ASSUME NEW f \in Files, RsyncFile(f) PROVE StopInv' /\ RsyncInv' /\ OutcomeInv'
  BY <1>22 DEF RsyncFile, workerVars
<1>23. ASSUME NEW f \in Files, ContainerWrites(f) PROVE StopInv' /\ RsyncInv' /\ OutcomeInv'
  BY <1>23 DEF ContainerWrites, workerVars
<1>24. CASE RsyncOk
  BY <1>24 DEF RsyncOk, workerVars
<1>25. CASE RsyncErr
  BY <1>25 DEF RsyncErr, workerVars
<1>26. CASE Cancel
  BY <1>26 DEF Cancel, workerVars
<1>27. CASE OtherCreates
  BY <1>27 DEF OtherCreates, workerVars
<1>28. CASE UNCHANGED vars
  BY <1>28 DEF vars, workerVars
<1>29. CASE ListFails
  BY <1>29 DEF ListFails, Step
<1>30. CASE Crash
  BY <1>30 DEF Crash, Finalize
<1>q. QED
  BY <1>1, <1>2, <1>3, <1>4, <1>5, <1>6, <1>7, <1>8, <1>9, <1>10, <1>11,
     <1>12, <1>13, <1>14, <1>15, <1>16, <1>17, <1>18, <1>19, <1>20, <1>21,
     <1>22, <1>23, <1>24, <1>25, <1>26, <1>27, <1>28, <1>29, <1>30 DEF Next, WorkerNext

LEMMA NextData ==
  ASSUME IInv, [Next]_vars
  PROVE  SourceInv' /\ CopyInv' /\ EndInv'
<1> USE DEF IInv, TypeOK, StopInv, RsyncInv, OutcomeInv, SourceInv, CopyInv, EndInv, Whole,
            Quiet, CopyPcs, Before, Dest, Gone
<1>1. CASE PoolMissing
  BY <1>1 DEF PoolMissing, Step, Finalize
<1>2. CASE Begin
  BY <1>2 DEF Begin, Step
<1>3. ASSUME NEW c \in Containers, StopContainer(c) PROVE SourceInv' /\ CopyInv' /\ EndInv'
  BY <1>3 DEF StopContainer, Step, workerVars
<1>4. CASE StopRaises
  BY <1>4 DEF StopRaises, Step
<1>5. CASE StopsReturn
  BY <1>5 DEF StopsReturn, Step
<1>6. CASE CopyFails
  BY <1>6 DEF CopyFails, Step
<1>7. CASE StartRsync
  BY <1>7 DEF StartRsync, Step
<1>8. CASE RsyncEnded
  BY <1>8 DEF RsyncEnded, Step
<1>9. CASE PullAbandoned
  BY <1>9 DEF PullAbandoned, Step
<1>10. CASE Verdict
  BY <1>10 DEF Verdict, Step
<1>11. CASE Verify
  BY <1>11 DEF Verify, Step
<1>12. CASE Fail
  BY <1>12 DEF Fail, Step, Finalize
<1>13. CASE Cleanup
  BY <1>13 DEF Cleanup, Step, DeleteVolume
<1>14. CASE FinalizeCancelled
  BY <1>14 DEF FinalizeCancelled, Step, Finalize
<1>15. CASE KeepSource
  BY <1>15 DEF KeepSource, Step
<1>16. CASE DeleteSource
  BY <1>16 DEF DeleteSource, Step, DeleteVolume
<1>17. CASE Complete
  BY <1>17 DEF Complete, Step, Finalize
<1>18. CASE Except
  BY <1>18 DEF Except, Step, Finalize
<1>19. CASE Finally
  BY <1>19 DEF Finally, Step
<1>20. CASE Refuse
  BY <1>20 DEF Refuse, Step
<1>21. CASE Accept
  BY <1>21 DEF Accept, Step
<1>22. ASSUME NEW f \in Files, RsyncFile(f) PROVE SourceInv' /\ CopyInv' /\ EndInv'
  BY <1>22 DEF RsyncFile, workerVars
<1>23. ASSUME NEW f \in Files, ContainerWrites(f) PROVE SourceInv' /\ CopyInv' /\ EndInv'
  BY <1>23 DEF ContainerWrites, workerVars
<1>24. CASE RsyncOk
  BY <1>24 DEF RsyncOk, workerVars
<1>25. CASE RsyncErr
  BY <1>25 DEF RsyncErr, workerVars
<1>26. CASE Cancel
  BY <1>26 DEF Cancel, workerVars
<1>27. CASE OtherCreates
  BY <1>27 DEF OtherCreates, workerVars
<1>28. CASE UNCHANGED vars
  BY <1>28 DEF vars, workerVars
<1>29. CASE ListFails
  BY <1>29 DEF ListFails, Step
<1>30. CASE Crash
  BY <1>30 DEF Crash, Finalize
<1>q. QED
  BY <1>1, <1>2, <1>3, <1>4, <1>5, <1>6, <1>7, <1>8, <1>9, <1>10, <1>11,
     <1>12, <1>13, <1>14, <1>15, <1>16, <1>17, <1>18, <1>19, <1>20, <1>21,
     <1>22, <1>23, <1>24, <1>25, <1>26, <1>27, <1>28, <1>29, <1>30 DEF Next, WorkerNext

LEMMA NextClean ==
  ASSUME IInv, CleanInv, [Next]_vars
  PROVE  CleanInv'
<1> USE DEF IInv, TypeOK, RsyncInv, OutcomeInv, CleanInv, Clean, Before, Dest, Gone
<1>1. CASE PoolMissing
  BY <1>1 DEF PoolMissing, Step, Finalize
<1>2. CASE Begin
  BY <1>2 DEF Begin, Step
<1>3. ASSUME NEW c \in Containers, StopContainer(c) PROVE CleanInv'
  BY <1>3 DEF StopContainer, Step, workerVars
<1>4. CASE StopRaises
  BY <1>4 DEF StopRaises, Step
<1>5. CASE StopsReturn
  BY <1>5 DEF StopsReturn, Step
<1>6. CASE CopyFails
  BY <1>6 DEF CopyFails, Step
<1>7. CASE StartRsync
  BY <1>7 DEF StartRsync, Step
<1>8. CASE RsyncEnded
  BY <1>8 DEF RsyncEnded, Step
<1>9. CASE PullAbandoned
  BY <1>9 DEF PullAbandoned, Step
<1>10. CASE Verdict
  BY <1>10 DEF Verdict, Step
<1>11. CASE Verify
  BY <1>11 DEF Verify, Step
<1>12. CASE Fail
  BY <1>12 DEF Fail, Step, Finalize
<1>13. CASE Cleanup
  BY <1>13 DEF Cleanup, Step, DeleteVolume
<1>14. CASE FinalizeCancelled
  BY <1>14 DEF FinalizeCancelled, Step, Finalize
<1>15. CASE KeepSource
  BY <1>15 DEF KeepSource, Step
<1>16. CASE DeleteSource
  BY <1>16 DEF DeleteSource, Step, DeleteVolume
<1>17. CASE Complete
  BY <1>17 DEF Complete, Step, Finalize
<1>18. CASE Except
  BY <1>18 DEF Except, Step, Finalize
<1>19. CASE Finally
  BY <1>19 DEF Finally, Step
<1>20. CASE Refuse
  BY <1>20 DEF Refuse, Step
<1>21. CASE Accept
  BY <1>21 DEF Accept, Step
<1>22. ASSUME NEW f \in Files, RsyncFile(f) PROVE CleanInv'
  BY <1>22 DEF RsyncFile, workerVars
<1>23. ASSUME NEW f \in Files, ContainerWrites(f) PROVE CleanInv'
  BY <1>23 DEF ContainerWrites, workerVars
<1>24. CASE RsyncOk
  BY <1>24 DEF RsyncOk, workerVars
<1>25. CASE RsyncErr
  BY <1>25 DEF RsyncErr, workerVars
<1>26. CASE Cancel
  BY <1>26 DEF Cancel, workerVars
<1>27. CASE OtherCreates
  BY <1>27 DEF OtherCreates, workerVars
<1>28. CASE UNCHANGED vars
  BY <1>28 DEF vars, workerVars
<1>29. CASE ListFails
  BY <1>29 DEF ListFails, Step
<1>30. CASE Crash
  BY <1>30 DEF Crash, Finalize
<1>q. QED
  BY <1>1, <1>2, <1>3, <1>4, <1>5, <1>6, <1>7, <1>8, <1>9, <1>10, <1>11,
     <1>12, <1>13, <1>14, <1>15, <1>16, <1>17, <1>18, <1>19, <1>20, <1>21,
     <1>22, <1>23, <1>24, <1>25, <1>26, <1>27, <1>28, <1>29, <1>30 DEF Next, WorkerNext

ContainersInv == ContainersBack /\ (pc \in {"request", "queued"} => held = {})

LEMMA NextContainers ==
  ASSUME IInv, ContainersInv, [Next]_vars
  PROVE  ContainersInv'
<1> USE DEF IInv, TypeOK, ContainersInv, ContainersBack
<1>1. CASE PoolMissing
  BY <1>1 DEF PoolMissing, Step, Finalize
<1>2. CASE Begin
  BY <1>2 DEF Begin, Step
<1>3. ASSUME NEW c \in Containers, StopContainer(c) PROVE ContainersInv'
  BY <1>3 DEF StopContainer, Step, workerVars
<1>4. CASE StopRaises
  BY <1>4 DEF StopRaises, Step
<1>5. CASE StopsReturn
  BY <1>5 DEF StopsReturn, Step
<1>6. CASE CopyFails
  BY <1>6 DEF CopyFails, Step
<1>7. CASE StartRsync
  BY <1>7 DEF StartRsync, Step
<1>8. CASE RsyncEnded
  BY <1>8 DEF RsyncEnded, Step
<1>9. CASE PullAbandoned
  BY <1>9 DEF PullAbandoned, Step
<1>10. CASE Verdict
  BY <1>10 DEF Verdict, Step
<1>11. CASE Verify
  BY <1>11 DEF Verify, Step
<1>12. CASE Fail
  BY <1>12 DEF Fail, Step, Finalize
<1>13. CASE Cleanup
  BY <1>13 DEF Cleanup, Step, DeleteVolume
<1>14. CASE FinalizeCancelled
  BY <1>14 DEF FinalizeCancelled, Step, Finalize
<1>15. CASE KeepSource
  BY <1>15 DEF KeepSource, Step
<1>16. CASE DeleteSource
  BY <1>16 DEF DeleteSource, Step, DeleteVolume
<1>17. CASE Complete
  BY <1>17 DEF Complete, Step, Finalize
<1>18. CASE Except
  BY <1>18 DEF Except, Step, Finalize
<1>19. CASE Finally
  BY <1>19 DEF Finally, Step
<1>20. CASE Refuse
  BY <1>20 DEF Refuse, Step
<1>21. CASE Accept
  BY <1>21 DEF Accept, Step
<1>22. ASSUME NEW f \in Files, RsyncFile(f) PROVE ContainersInv'
  BY <1>22 DEF RsyncFile, workerVars
<1>23. ASSUME NEW f \in Files, ContainerWrites(f) PROVE ContainersInv'
  BY <1>23 DEF ContainerWrites, workerVars
<1>24. CASE RsyncOk
  BY <1>24 DEF RsyncOk, workerVars
<1>25. CASE RsyncErr
  BY <1>25 DEF RsyncErr, workerVars
<1>26. CASE Cancel
  BY <1>26 DEF Cancel, workerVars
<1>27. CASE OtherCreates
  BY <1>27 DEF OtherCreates, workerVars
<1>28. CASE UNCHANGED vars
  BY <1>28 DEF vars, workerVars
<1>29. CASE ListFails
  BY <1>29 DEF ListFails, Step
<1>30. CASE Crash
  BY <1>30 DEF Crash, Finalize
<1>q. QED
  BY <1>1, <1>2, <1>3, <1>4, <1>5, <1>6, <1>7, <1>8, <1>9, <1>10, <1>11,
     <1>12, <1>13, <1>14, <1>15, <1>16, <1>17, <1>18, <1>19, <1>20, <1>21,
     <1>22, <1>23, <1>24, <1>25, <1>26, <1>27, <1>28, <1>29, <1>30 DEF Next, WorkerNext

\* From here no step leads to the deletion of the source.
Stopped ==
  /\ (cancelled \/ pc = "dead") /\ ~req.samePlace
  /\ pc \notin {"request", "queued", "verify", "delete", "complete"}
  /\ \A f \in SourceFiles : vol["src"][f] # "none"

LEMMA NextStopped == ASSUME IInv, Stopped, [Next]_vars PROVE Stopped'
<1> USE DEF IInv, TypeOK, Stopped, Dest, Gone
<1>1. CASE PoolMissing
  BY <1>1 DEF PoolMissing, Step, Finalize
<1>2. CASE Begin
  BY <1>2 DEF Begin, Step
<1>3. ASSUME NEW c \in Containers, StopContainer(c) PROVE Stopped'
  BY <1>3 DEF StopContainer, Step, workerVars
<1>4. CASE StopRaises
  BY <1>4 DEF StopRaises, Step
<1>5. CASE StopsReturn
  BY <1>5 DEF StopsReturn, Step
<1>6. CASE CopyFails
  BY <1>6 DEF CopyFails, Step
<1>7. CASE StartRsync
  BY <1>7 DEF StartRsync, Step
<1>8. CASE RsyncEnded
  BY <1>8 DEF RsyncEnded, Step
<1>9. CASE PullAbandoned
  BY <1>9 DEF PullAbandoned, Step
<1>10. CASE Verdict
  BY <1>10 DEF Verdict, Step
<1>11. CASE Verify
  BY <1>11 DEF Verify, Step
<1>12. CASE Fail
  BY <1>12 DEF Fail, Step, Finalize
<1>13. CASE Cleanup
  BY <1>13 DEF Cleanup, Step, DeleteVolume
<1>14. CASE FinalizeCancelled
  BY <1>14 DEF FinalizeCancelled, Step, Finalize
<1>15. CASE KeepSource
  BY <1>15 DEF KeepSource, Step
<1>16. CASE DeleteSource
  BY <1>16 DEF DeleteSource, Step, DeleteVolume
<1>17. CASE Complete
  BY <1>17 DEF Complete, Step, Finalize
<1>18. CASE Except
  BY <1>18 DEF Except, Step, Finalize
<1>19. CASE Finally
  BY <1>19 DEF Finally, Step
<1>20. CASE Refuse
  BY <1>20 DEF Refuse, Step
<1>21. CASE Accept
  BY <1>21 DEF Accept, Step
<1>22. ASSUME NEW f \in Files, RsyncFile(f) PROVE Stopped'
  BY <1>22 DEF RsyncFile, workerVars
<1>23. ASSUME NEW f \in Files, ContainerWrites(f) PROVE Stopped'
  BY <1>23 DEF ContainerWrites, workerVars
<1>24. CASE RsyncOk
  BY <1>24 DEF RsyncOk, workerVars
<1>25. CASE RsyncErr
  BY <1>25 DEF RsyncErr, workerVars
<1>26. CASE Cancel
  BY <1>26 DEF Cancel, workerVars
<1>27. CASE OtherCreates
  BY <1>27 DEF OtherCreates, workerVars
<1>28. CASE UNCHANGED vars
  BY <1>28 DEF vars, workerVars
<1>29. CASE ListFails
  BY <1>29 DEF ListFails, Step
<1>30. CASE Crash
  BY <1>30 DEF Crash, Finalize
<1>q. QED
  BY <1>1, <1>2, <1>3, <1>4, <1>5, <1>6, <1>7, <1>8, <1>9, <1>10, <1>11,
     <1>12, <1>13, <1>14, <1>15, <1>16, <1>17, <1>18, <1>19, <1>20, <1>21,
     <1>22, <1>23, <1>24, <1>25, <1>26, <1>27, <1>28, <1>29, <1>30 DEF Next, WorkerNext

----------------------------------------------------------------------------
LEMMA NextIInv == ASSUME IInv, [Next]_vars PROVE IInv'
  BY NextTypeOK, NextControl, NextData DEF IInv

LEMMA Invariant == Spec => []IInv
<1>1. Init => IInv
  BY InitIInv
<1>2. IInv /\ [Next]_vars => IInv'
  BY NextIInv
<1> QED
  BY <1>1, <1>2, PTL DEF Spec

\* Type correctness, for every set of files and containers.
THEOREM TypeCorrect == Spec => []TypeOK
<1>1. IInv => TypeOK
  BY DEF IInv
<1>2. Spec => []IInv
  BY Invariant
<1> QED
  BY <1>1, <1>2, PTL

\* A completed migration to another place copied every file of the source
\* whole, whatever containers, cancels and other operations did meanwhile.
THEOREM CompletedCopied == Spec => []CompletedMeansCopied
<1>1. IInv => CompletedMeansCopied
  BY DEF IInv, EndInv, Whole, CompletedMeansCopied, Dest
<1>2. Spec => []IInv
  BY Invariant
<1> QED
  BY <1>1, <1>2, PTL

\* A migration to another place never removes from the source what is not
\* at the destination, as long as nobody writes to the source.
THEOREM SourceIsSafe == Spec => CopiedBeforeDelete
<1> DEFINE Kept == Quiet /\ ~req.samePlace => \A f \in Files :
      vol["src"][f] # "none" /\ vol'["src"][f] = "none" => vol'[Dest][f] = vol["src"][f]
<1>1. ASSUME IInv, [Next]_vars PROVE Kept
  <2>1. CASE DeleteSource
    BY <1>1, <2>1 DEF DeleteSource, Step, DeleteVolume, IInv, TypeOK, RsyncInv, CopyInv,
                    CopyPcs, Dest
  <2>2. ASSUME NEW f \in Files, RsyncFile(f) PROVE Kept
    BY <1>1, <2>2 DEF RsyncFile, IInv, TypeOK, Dest
  <2>3. ASSUME NEW f \in Files, ContainerWrites(f) PROVE Kept
    BY <1>1, <2>3 DEF ContainerWrites, IInv, TypeOK, Dest
  <2>4. CASE RsyncErr
    BY <1>1, <2>4 DEF RsyncErr, IInv, TypeOK, Dest
  <2>5. CASE Cleanup
    BY <1>1, <2>5 DEF Cleanup, DeleteVolume, IInv, TypeOK, Dest
  <2>6. CASE OtherCreates
    BY <1>1, <2>6 DEF OtherCreates, IInv, TypeOK, Dest
  <2>7. CASE UNCHANGED vol
    BY <1>1, <2>7
  <2>8. DeleteSource \/ (\E f \in Files : RsyncFile(f) \/ ContainerWrites(f)) \/ RsyncErr
          \/ Cleanup \/ OtherCreates \/ UNCHANGED vol
    BY <1>1 DEF Next, WorkerNext, vars, Refuse, Accept, PoolMissing, Begin, StopContainer,
         StopRaises, StopsReturn, CopyFails, StartRsync, RsyncEnded, PullAbandoned, Verdict,
         Verify, Fail, FinalizeCancelled, KeepSource, Complete, Except, Finally, RsyncOk, Cancel,
         ListFails, Crash
  <2> QED
    BY <2>1, <2>2, <2>3, <2>4, <2>5, <2>6, <2>7, <2>8
<1>2. IInv /\ [Next]_vars => [Kept]_vars
  BY <1>1
<1>3. Spec => []IInv
  BY Invariant
<1> QED
  BY <1>2, <1>3, PTL DEF Spec, CopiedBeforeDelete

\* When rsync is a child process, a migration to another place that did not
\* complete leaves no copied file behind, unless its log says so.
THEOREM NothingPartialLeft == Spec => []NoPartialDestination
<1>1. Init => CleanInv
  BY InitIInv
<1>2. IInv /\ CleanInv /\ [Next]_vars => CleanInv'
  BY NextClean
<1>3. CleanInv => NoPartialDestination
  BY DEF CleanInv, Clean, NoPartialDestination
<1>4. Spec => []IInv
  BY Invariant
<1> QED
  BY <1>1, <1>2, <1>3, <1>4, PTL DEF Spec

\* Once all of them were stopped, the containers run again however the migration
\* ended, for any number of containers.
THEOREM ContainersComeBack == Spec => []ContainersBack
<1>1. Init => ContainersInv
  BY DEF Init, ContainersInv, ContainersBack
<1>2. IInv /\ ContainersInv /\ [Next]_vars => ContainersInv'
  BY NextContainers
<1>3. ContainersInv => ContainersBack
  BY DEF ContainersInv
<1> QED
  BY <1>1, <1>2, <1>3, Invariant, PTL DEF Spec

\* A cancel that comes before the result of the copy was looked at saves the
\* source, for every set of files.
THEOREM EarlyCancelSavesSource == Spec => EarlyCancelKeepsSource
<1> DEFINE Early == cancelled /\ pc \in {"stop", "copy", "transfer", "verdict"} /\ ~req.samePlace
           Saved == \A f \in SourceFiles : vol["src"][f] # "none"
<1>1. IInv /\ Early => Stopped
  BY DEF IInv, SourceInv, Stopped, CopyPcs, Before
<1>2. IInv /\ Stopped /\ [Next]_vars => Stopped'
  BY NextStopped
<1>3. Stopped => Saved
  BY DEF Stopped
<1>4. Spec => [](Early => []Saved)
  <2> HIDE DEF Early, Saved
  <2> QED
    BY <1>1, <1>2, <1>3, Invariant, PTL DEF Spec
<1> QED
  BY <1>4 DEF EarlyCancelKeepsSource

\* Steps that leave a destination which is not to be overwritten with every file it has.
KeepsFiles ==
  req.resolution # "overwrite" =>
    \A f \in Files : vol["dst"][f] # "none" => vol'["dst"][f] # "none"

\* rsync without --delete and the other steps of a migration; only the cleanup deletes.
LEMMA OnlyCleanupDeletes == ASSUME IInv, [Next]_vars, ~Cleanup PROVE KeepsFiles
<1> USE DEF KeepsFiles
<1>a. vol \in [{"src", "dst"} -> [Files -> Versions]]
  BY DEF IInv, TypeOK
<1>1. CASE DeleteSource
  BY <1>1, <1>a DEF DeleteSource, DeleteVolume
<1>2. ASSUME NEW f \in Files, RsyncFile(f) PROVE KeepsFiles
  BY <1>2, <1>a DEF RsyncFile, Dest
<1>3. ASSUME NEW f \in Files, ContainerWrites(f) PROVE KeepsFiles
  BY <1>3, <1>a DEF ContainerWrites
<1>4. CASE RsyncErr
  BY <1>4, <1>a DEF RsyncErr, Dest
<1>5. CASE OtherCreates
  BY <1>5, <1>a DEF OtherCreates
<1>6. CASE UNCHANGED vol
  BY <1>6
<1>7. DeleteSource \/ (\E f \in Files : RsyncFile(f) \/ ContainerWrites(f)) \/ RsyncErr
        \/ OtherCreates \/ UNCHANGED vol
  BY DEF Next, WorkerNext, vars, Refuse, Accept, PoolMissing, Begin, StopContainer,
       StopRaises, StopsReturn, CopyFails, StartRsync, RsyncEnded, PullAbandoned, Verdict,
       Verify, Fail, FinalizeCancelled, KeepSource, Complete, Except, Finally, RsyncOk, Cancel,
       ListFails, Crash
<1> QED
  BY <1>1, <1>2, <1>3, <1>4, <1>5, <1>6, <1>7

\* A destination that is not to be overwritten has still its files, or the migration is
\* on its way to "cancelled" or has not completed.
StillThere(f) ==
  req.resolution # "overwrite"
  /\ (vol["dst"][f] # "none" \/ pc = "cancelled" \/ outcome \in {"failed", "cancelled"})

\* A merge that completes has lost no file of the destination: what was there before,
\* or was put there while the task waited, is there at the end.  (A merge that fails or
\* is cancelled may lose it: see MergeKeepsUnique.)
MergeCompletesWhole ==
  \A f \in Files :
    []((req.resolution = "merge" /\ vol["dst"][f] # "none" /\ outcome \in {"none", "open"})
       => [](outcome = "completed" => vol["dst"][f] # "none"))

\* migrate_volume with "merge": the files of both volumes, for every set of files.
THEOREM MergesKeepFiles == Spec => MergeCompletesWhole
<1> SUFFICES ASSUME NEW f \in Files
             PROVE  Spec => []((req.resolution = "merge" /\ vol["dst"][f] # "none" /\ outcome \in {"none", "open"})
                               => [](outcome = "completed" => vol["dst"][f] # "none"))
  BY DEF MergeCompletesWhole
<1> DEFINE There == req.resolution = "merge" /\ vol["dst"][f] # "none" /\ outcome \in {"none", "open"}
           Ends == outcome = "completed" => vol["dst"][f] # "none"
<1>1. There => StillThere(f)
  BY DEF StillThere
<1>2. IInv /\ StillThere(f) /\ [Next]_vars => StillThere(f)'
  <2> SUFFICES ASSUME IInv, StillThere(f), [Next]_vars PROVE StillThere(f)'
    OBVIOUS
  <2>1. req' = req
    BY DEF Next, WorkerNext, vars, Refuse, Accept, PoolMissing, Begin, StopContainer,
       StopRaises, StopsReturn, CopyFails, StartRsync, RsyncEnded, PullAbandoned, Verdict,
       Verify, Fail, FinalizeCancelled, KeepSource, Complete, Except, Finally, RsyncOk, Cancel,
       ListFails, Crash, Cleanup, DeleteSource, RsyncFile, ContainerWrites, RsyncErr, OtherCreates, Step
  <2>2. CASE Cleanup
    <3>1. pc' = "cancelled" \/ (outcome = "failed" /\ outcome' = outcome)
      BY <2>2 DEF Cleanup, Step, IInv, OutcomeInv
    <3> QED
      BY <2>1, <3>1 DEF StillThere
  <2>3. CASE outcome \in {"failed", "cancelled"}
    <3>1. outcome' = outcome
      BY <2>3 DEF IInv, OutcomeInv, Next, WorkerNext, vars, Refuse, Accept, PoolMissing, Begin, StopContainer,
       StopRaises, StopsReturn, CopyFails, StartRsync, RsyncEnded, PullAbandoned, Verdict,
       Verify, Fail, FinalizeCancelled, KeepSource, Complete, Except, Finally, RsyncOk, Cancel,
       ListFails, Crash, Cleanup, DeleteSource, RsyncFile, ContainerWrites, RsyncErr, OtherCreates, Step,
       Finalize, workerVars
    <3> QED
      BY <2>1, <2>3, <3>1 DEF StillThere
  <2>4. CASE pc = "cancelled" /\ outcome = "open"
    <3>1. (pc' = "cancelled" /\ outcome' = outcome) \/ outcome' \in {"failed", "cancelled"}
      BY <2>4 DEF Next, WorkerNext, vars, Refuse, Accept, PoolMissing, Begin, StopContainer,
       StopRaises, StopsReturn, CopyFails, StartRsync, RsyncEnded, PullAbandoned, Verdict,
       Verify, Fail, FinalizeCancelled, KeepSource, Complete, Except, Finally, RsyncOk, Cancel,
       ListFails, Crash, Cleanup, DeleteSource, RsyncFile, ContainerWrites, RsyncErr, OtherCreates, Step,
       Finalize, workerVars
    <3> QED
      BY <2>1, <3>1 DEF StillThere
  <2>5. CASE ~Cleanup /\ vol["dst"][f] # "none"
    BY <2>1, <2>5, OnlyCleanupDeletes DEF KeepsFiles, StillThere
  <2>6. pc = "cancelled" => outcome = "open"
    BY DEF IInv, OutcomeInv
  <2> QED
    BY <2>2, <2>3, <2>4, <2>5, <2>6 DEF StillThere
<1>3. StillThere(f) /\ IInv => Ends
  BY DEF StillThere, IInv, OutcomeInv
<1>4. Spec => [](There => []Ends)
  <2> HIDE DEF There, Ends
  <2> QED
    BY <1>1, <1>2, <1>3, Invariant, PTL DEF Spec
<1> QED
  BY <1>4

\* What a merge loses it loses in one place: the cleanup that follows a failure or a
\* cancel takes the destination for its own copy.
UniqueLostInCleanup ==
  [][req.resolution = "merge" => \A f \in Files :
       vol["dst"][f] # "none" /\ vol'["dst"][f] = "none"
         => pc \in {"cleanup", "cancelCleanup"} /\ ~req.samePlace]_vars

\* migrate_volume: no other step, of the worker, of rsync, of a container or of another
\* operation, takes a file away from the destination of a merge.
THEOREM OnlyCleanupLoses == Spec => UniqueLostInCleanup
<1>1. IInv /\ [Next]_vars =>
        [req.resolution = "merge" => \A f \in Files :
           vol["dst"][f] # "none" /\ vol'["dst"][f] = "none"
             => pc \in {"cleanup", "cancelCleanup"} /\ ~req.samePlace]_vars
  <2> SUFFICES ASSUME IInv, Next, req.resolution = "merge", NEW f \in Files,
                      vol["dst"][f] # "none", vol'["dst"][f] = "none"
               PROVE  pc \in {"cleanup", "cancelCleanup"} /\ ~req.samePlace
    OBVIOUS
  <2>1. Cleanup
    BY OnlyCleanupDeletes DEF KeepsFiles
  <2> QED
    BY <2>1 DEF Cleanup, Step, DeleteVolume, Dest, IInv, TypeOK
<1> QED
  BY <1>1, Invariant, PTL DEF Spec, UniqueLostInCleanup

=============================================================================
