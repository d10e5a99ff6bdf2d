--------------------------- MODULE RestoreProofs ---------------------------
(***************************************************************************)
(* Proofs about Restore, for every set of files: a restore to a local pool *)
(* never shows a volume that is restored in part and leaves no extraction  *)
(* directory, a merge there keeps what only the destination has, and a     *)
(* completed restore, local or remote, put everything in place.            *)
(*                                                                         *)
(* The invariant says what the extraction directory holds once tar has     *)
(* succeeded (TempInv), how far a copy or an upload has come (PlaceInv),   *)
(* and what the destination of a local restore can be before and after     *)
(* the rename (VolInv).  The last part is about destinations of any kind,  *)
(* remote ones too: DestInv says what they may hold at which position.     *)
(***************************************************************************)
EXTENDS Restore, TLAPS

USE RestoreAssumption

TempInv ==
  /\ pc = "extracted" /\ ok => temp \in {Gone, Restored}
  /\ pc = "unpacked" => temp \in {Gone, Restored}
  /\ pc \in {"place", "copy", "upload"} => temp = Restored

\* What a copy or an upload has passed is in place.
PlaceInv ==
  /\ pc = "clear" => ~toRemote /\ resolution = "overwrite"
  /\ pc = "copy" => ~toRemote /\ resolution = "merge" /\ todo \subseteq ArchiveFiles
  /\ pc \in {"upload", "uploaded", "dropDest"} => toRemote
  /\ pc = "uploaded" /\ ok => todo = {}
  /\ pc \in {"copy", "upload", "uploaded"} =>
       \A f \in Files \ todo :
         /\ f \in ArchiveFiles => vol[f] = "new"
         /\ resolution = "overwrite" => vol[f] # "old"

BeforePlace == {"request", "queued", "download", "downloaded", "open", "clear", "tar",
                "tarring", "extracted", "unpacked", "place", "discard"}

\* Without a merge a local destination is as it was, or less, until it becomes
\* the restored volume in one step.
VolInv ==
  ~toRemote /\ resolution # "merge" =>
    \/ \A f \in Files : vol[f] \in {"none", "old"}
    \/ pc \notin BeforePlace /\ vol = Restored

EndInv ==
  /\ outcome = "completed" => pc \in {"finally", "done", "down"}
  /\ pc \in {"cleared", "verify", "complete"} \/ outcome = "completed" =>
       \A f \in Files :
         /\ f \in ArchiveFiles => vol[f] = "new"
         /\ resolution = "overwrite" => vol[f] # "old"

HoldPcs == {"clear", "tar", "tarring", "extracted", "unpacked", "discard", "place", "copy",
            "cleared", "except", "down"}

LeftInv ==
  /\ crashes # 0 => pc \in {"down", "done"}
  /\ pc = "down" => crashes > 0
  /\ pc \in {"request", "queued"} => ~hasTemp
  /\ ~toRemote /\ hasTemp /\ ~stuck =>
       pc \in HoldPcs \/ (pc \in {"finally", "done"} /\ raised /\ crashes = 0)
  /\ toRemote /\ hasTemp /\ ~stuck /\ pc = "done" => crashes > 0

IInv == TypeOK /\ TempInv /\ PlaceInv /\ VolInv /\ EndInv /\ LeftInv

----------------------------------------------------------------------------
LEMMA InitIInv == Init => IInv
<1> SUFFICES ASSUME Init PROVE IInv
  OBVIOUS
<1>1. vol \in [Files -> Versions] /\ temp \in [Files -> Versions]
  BY DEF Init, Versions, Gone
<1>2. hasTemp \in BOOLEAN /\ ok \in BOOLEAN /\ cancelled \in BOOLEAN /\ raised \in BOOLEAN /\ stuck \in BOOLEAN
  BY DEF Init
<1>3. pc \in Pcs /\ todo \subseteq Files /\ crashes \in 0..MaxCrashes
        /\ outcome \in {"none", "open", "completed", "failed", "cancelled"}
  BY DEF Init, Pcs
<1>4. TypeOK
  BY <1>1, <1>2, <1>3 DEF Init, TypeOK
<1>5. TempInv /\ PlaceInv /\ VolInv /\ EndInv /\ LeftInv
  BY DEF Init, TempInv, PlaceInv, VolInv, EndInv, LeftInv, BeforePlace, HoldPcs
<1> QED
  BY <1>4, <1>5 DEF IInv

LEMMA NextTypeOK ==
  ASSUME TypeOK, [Next]_vars
  PROVE  TypeOK'
<1> USE DEF TypeOK, Pcs, Versions, Gone, Restored, request, tempVars
<1>1. CASE Refuse
  BY <1>1 DEF Refuse, Step
<1>2. CASE Accept
  BY <1>2 DEF Accept, Step
<1>3. CASE PoolMissing
  BY <1>3 DEF PoolMissing, Step, Finalize
<1>4. CASE Start
  BY <1>4 DEF Start, Step
<1>5. CASE Download
  <2>1. ok' \in BOOLEAN
    BY <1>5 DEF Download
  <2> QED
    BY <1>5, <2>1 DEF Download, Step
<1>6. CASE Downloaded
  BY <1>6 DEF Downloaded, Step
<1>7. CASE ArchiveMissing
  BY <1>7 DEF ArchiveMissing, Step
<1>8. CASE OpenRaises
  BY <1>8 DEF OpenRaises, Step
<1>9. CASE MakeTemp
  BY <1>9 DEF MakeTemp, Step
<1>10. CASE Clear
  BY <1>10 DEF Clear, Step
<1>11. CASE TarMissing
  BY <1>11 DEF TarMissing, Step
<1>12. CASE TarStarts
  BY <1>12 DEF TarStarts, Step
<1>13. CASE TarEnds
  <2>1. Restored \in [Files -> Versions] /\ Gone \in [Files -> Versions]
    OBVIOUS
  <2>2. ASSUME NEW t \in Extractions PROVE t \in [Files -> Versions]
    BY <2>2 DEF Extractions
  <2>3. temp' \in [Files -> Versions]
    BY <1>13, <2>1, <2>2 DEF TarEnds
  <2>4. ok' \in BOOLEAN
    BY <1>13 DEF TarEnds
  <2>5. pc' \in Pcs /\ UNCHANGED <<request, vol, hasTemp, stuck, todo, outcome, raised, cancelled, crashes>>
    BY <1>13 DEF TarEnds, Step
  <2> QED
    BY <2>3, <2>4, <2>5
<1>14. CASE Extracted
  BY <1>14 DEF Extracted, Step, Finalize
<1>15. CASE Unpacked
  BY <1>15 DEF Unpacked, Step, Finalize
<1>16. CASE Discard
  <2>1. temp' \in [Files -> Versions] /\ hasTemp' \in BOOLEAN /\ stuck' \in BOOLEAN
    BY <1>16 DEF Discard, RemoveTemp
  <2> QED
    BY <1>16, <2>1 DEF Discard, Step
<1>17. CASE Rename
  BY <1>17 DEF Rename, Step
<1>18. CASE StartCopy
  BY <1>18 DEF StartCopy, Step
<1>19. ASSUME NEW f \in Files, CopyFile(f) PROVE TypeOK'
  BY <1>19 DEF CopyFile, Step
<1>20. ASSUME NEW f \in Files, UploadFile(f) PROVE TypeOK'
  BY <1>20 DEF UploadFile, Step
<1>21. CASE CopyRaises
  BY <1>21 DEF CopyRaises, Step
<1>22. CASE CopyDone
  BY <1>22 DEF CopyDone, Step
<1>23. CASE StartUpload
  BY <1>23 DEF StartUpload, Step
<1>24. CASE Uploaded
  <2>1. temp' \in [Files -> Versions] /\ hasTemp' \in BOOLEAN /\ stuck' \in BOOLEAN
    BY <1>24 DEF Uploaded, RemoveTemp
  <2>2. ok' \in BOOLEAN
    BY <1>24 DEF Uploaded
  <2>3. pc' \in Pcs /\ UNCHANGED <<request, vol, todo, outcome, raised, cancelled, crashes>>
    BY <1>24 DEF Uploaded, Step
  <2> QED
    BY <2>1, <2>2, <2>3
<1>25. CASE UploadVerdict
  BY <1>25 DEF UploadVerdict, Step
<1>26. CASE DropDest
  BY <1>26 DEF DropDest, Step
<1>27. CASE ClearTemp
  <2>1. temp' \in [Files -> Versions] /\ hasTemp' \in BOOLEAN /\ stuck' \in BOOLEAN
    BY <1>27 DEF ClearTemp, RemoveTemp
  <2> QED
    BY <1>27, <2>1 DEF ClearTemp, Step
<1>28. CASE Verify
  BY <1>28 DEF Verify, Step
<1>29. CASE End
  <2>1. outcome' \in {"none", "open", "completed", "failed", "cancelled"} /\ raised' \in BOOLEAN
    BY <1>29 DEF End, Finalize
  <2>2. pc' \in Pcs /\ UNCHANGED <<request, vol, tempVars, todo, ok, cancelled, crashes>>
    BY <1>29 DEF End, Step
  <2> QED
    BY <2>1, <2>2
<1>30. CASE Finally
  <2>1. temp' \in [Files -> Versions] /\ hasTemp' \in BOOLEAN /\ stuck' \in BOOLEAN
    BY <1>30 DEF Finally, RemoveTemp
  <2> QED
    BY <1>30, <2>1 DEF Finally, Step
<1>31. CASE Cancel
  BY <1>31 DEF Cancel
<1>32. CASE OtherCreates
  BY <1>32 DEF OtherCreates
<1>33. CASE Crash
  BY <1>33 DEF Crash
<1>34. CASE Restart
  <2>1. temp' \in [Files -> Versions] /\ hasTemp' \in BOOLEAN /\ stuck' \in BOOLEAN
    BY <1>34 DEF Restart, RemoveTemp
  <2> QED
    BY <1>34, <2>1 DEF Restart, Step, Finalize
<1>35. CASE UNCHANGED vars
  BY <1>35 DEF vars
<1> QED
  BY <1>1, <1>2, <1>3, <1>4, <1>5, <1>6, <1>7, <1>8, <1>9, <1>10, <1>11, <1>12,
     <1>13, <1>14, <1>15, <1>16, <1>17, <1>18, <1>19, <1>20, <1>21, <1>22, <1>23, <1>24,
     <1>25, <1>26, <1>27, <1>28, <1>29, <1>30, <1>31, <1>32, <1>33, <1>34, <1>35 DEF Next, WorkerNext

LEMMA NextControl ==
  ASSUME IInv, [Next]_vars
  PROVE  TempInv' /\ PlaceInv' /\ EndInv'
<1> USE DEF IInv, TypeOK, TempInv, PlaceInv, EndInv, Gone, Restored, request, tempVars
<1>1. CASE Refuse
  BY <1>1 DEF Refuse, Step
<1>2. CASE Accept
  BY <1>2 DEF Accept, Step
<1>3. CASE PoolMissing
  BY <1>3 DEF PoolMissing, Step, Finalize
<1>4. CASE Start
  BY <1>4 DEF Start, Step
<1>5. CASE Download
  BY <1>5 DEF Download, Step
<1>6. CASE Downloaded
  BY <1>6 DEF Downloaded, Step
<1>7. CASE ArchiveMissing
  BY <1>7 DEF ArchiveMissing, Step
<1>8. CASE OpenRaises
  BY <1>8 DEF OpenRaises, Step
<1>9. CASE MakeTemp
  BY <1>9 DEF MakeTemp, Step
<1>10. CASE Clear
  BY <1>10 DEF Clear, Step
<1>11. CASE TarMissing
  BY <1>11 DEF TarMissing, Step
<1>12. CASE TarStarts
  BY <1>12 DEF TarStarts, Step
<1>13. CASE TarEnds
  BY <1>13 DEF TarEnds, Step, Extractions
<1>14. CASE Extracted
  BY <1>14 DEF Extracted, Step, Finalize
<1>15. CASE Unpacked
  BY <1>15 DEF Unpacked, Step, Finalize
<1>16. CASE Discard
  BY <1>16 DEF Discard, Step, RemoveTemp
<1>17. CASE Rename
  BY <1>17 DEF Rename, Step
<1>18. CASE StartCopy
  BY <1>18 DEF StartCopy, Step
<1>19. ASSUME NEW f \in Files, CopyFile(f) PROVE TempInv' /\ PlaceInv' /\ EndInv'
  BY <1>19 DEF CopyFile, Step
<1>20. ASSUME NEW f \in Files, UploadFile(f) PROVE TempInv' /\ PlaceInv' /\ EndInv'
  BY <1>20 DEF UploadFile, Step
<1>21. CASE CopyRaises
  BY <1>21 DEF CopyRaises, Step
<1>22. CASE CopyDone
  BY <1>22 DEF CopyDone, Step
<1>23. CASE StartUpload
  BY <1>23 DEF StartUpload, Step
<1>24. CASE Uploaded
  BY <1>24 DEF Uploaded, Step, RemoveTemp
<1>25. CASE UploadVerdict
  BY <1>25 DEF UploadVerdict, Step
<1>26. CASE DropDest
  BY <1>26 DEF DropDest, Step
<1>27. CASE ClearTemp
  BY <1>27 DEF ClearTemp, Step, RemoveTemp
<1>28. CASE Verify
  BY <1>28 DEF Verify, Step
<1>29. CASE End
  BY <1>29 DEF End, Step, Finalize
<1>30. CASE Finally
  BY <1>30 DEF Finally, Step, RemoveTemp
<1>31. CASE Cancel
  BY <1>31 DEF Cancel
<1>32. CASE OtherCreates
  BY <1>32 DEF OtherCreates
<1>33. CASE Crash
  BY <1>33 DEF Crash
<1>34. CASE Restart
  BY <1>34 DEF Restart, Step, Finalize, RemoveTemp
<1>35. CASE UNCHANGED vars
  BY <1>35 DEF vars
<1> QED
  BY <1>1, <1>2, <1>3, <1>4, <1>5, <1>6, <1>7, <1>8, <1>9, <1>10, <1>11, <1>12,
     <1>13, <1>14, <1>15, <1>16, <1>17, <1>18, <1>19, <1>20, <1>21, <1>22, <1>23, <1>24,
     <1>25, <1>26, <1>27, <1>28, <1>29, <1>30, <1>31, <1>32, <1>33, <1>34, <1>35 DEF Next, WorkerNext

LEMMA NextVolInv ==
  ASSUME IInv, [Next]_vars
  PROVE  VolInv'
<1> USE DEF IInv, TypeOK, TempInv, PlaceInv, VolInv, BeforePlace, Gone, Restored, request,
            tempVars
<1>1. CASE Refuse
  BY <1>1 DEF Refuse, Step
<1>2. CASE Accept
  BY <1>2 DEF Accept, Step
<1>3. CASE PoolMissing
  BY <1>3 DEF PoolMissing, Step, Finalize
<1>4. CASE Start
  BY <1>4 DEF Start, Step
<1>5. CASE Download
  BY <1>5 DEF Download, Step
<1>6. CASE Downloaded
  BY <1>6 DEF Downloaded, Step
<1>7. CASE ArchiveMissing
  BY <1>7 DEF ArchiveMissing, Step
<1>8. CASE OpenRaises
  BY <1>8 DEF OpenRaises, Step
<1>9. CASE MakeTemp
  BY <1>9 DEF MakeTemp, Step
<1>10. CASE Clear
  BY <1>10 DEF Clear, Step
<1>11. CASE TarMissing
  BY <1>11 DEF TarMissing, Step
<1>12. CASE TarStarts
  BY <1>12 DEF TarStarts, Step
<1>13. CASE TarEnds
  BY <1>13 DEF TarEnds, Step, Extractions
<1>14. CASE Extracted
  BY <1>14 DEF Extracted, Step, Finalize
<1>15. CASE Unpacked
  BY <1>15 DEF Unpacked, Step, Finalize
<1>16. CASE Discard
  BY <1>16 DEF Discard, Step, RemoveTemp
<1>17. CASE Rename
  BY <1>17 DEF Rename, Step
<1>18. CASE StartCopy
  BY <1>18 DEF StartCopy, Step
<1>19. ASSUME NEW f \in Files, CopyFile(f) PROVE VolInv'
  BY <1>19 DEF CopyFile, Step
<1>20. ASSUME NEW f \in Files, UploadFile(f) PROVE VolInv'
  BY <1>20 DEF UploadFile, Step
<1>21. CASE CopyRaises
  BY <1>21 DEF CopyRaises, Step
<1>22. CASE CopyDone
  BY <1>22 DEF CopyDone, Step
<1>23. CASE StartUpload
  BY <1>23 DEF StartUpload, Step
<1>24. CASE Uploaded
  BY <1>24 DEF Uploaded, Step, RemoveTemp
<1>25. CASE UploadVerdict
  BY <1>25 DEF UploadVerdict, Step
<1>26. CASE DropDest
  BY <1>26 DEF DropDest, Step
<1>27. CASE ClearTemp
  BY <1>27 DEF ClearTemp, Step, RemoveTemp
<1>28. CASE Verify
  BY <1>28 DEF Verify, Step
<1>29. CASE End
  BY <1>29 DEF End, Step, Finalize
<1>30. CASE Finally
  BY <1>30 DEF Finally, Step, RemoveTemp
<1>31. CASE Cancel
  BY <1>31 DEF Cancel
<1>32. CASE OtherCreates
  BY <1>32 DEF OtherCreates
<1>33. CASE Crash
  BY <1>33 DEF Crash
<1>34. CASE Restart
  BY <1>34 DEF Restart, Step, Finalize, RemoveTemp
<1>35. CASE UNCHANGED vars
  BY <1>35 DEF vars
<1> QED
  BY <1>1, <1>2, <1>3, <1>4, <1>5, <1>6, <1>7, <1>8, <1>9, <1>10, <1>11, <1>12,
     <1>13, <1>14, <1>15, <1>16, <1>17, <1>18, <1>19, <1>20, <1>21, <1>22, <1>23, <1>24,
     <1>25, <1>26, <1>27, <1>28, <1>29, <1>30, <1>31, <1>32, <1>33, <1>34, <1>35 DEF Next, WorkerNext

LEMMA NextLeftInv ==
  ASSUME IInv, [Next]_vars
  PROVE  LeftInv'
<1> USE DEF IInv, TypeOK, LeftInv, HoldPcs, request, tempVars
<1>1. CASE Refuse
  BY <1>1 DEF Refuse, Step
<1>2. CASE Accept
  BY <1>2 DEF Accept, Step
<1>3. CASE PoolMissing
  BY <1>3 DEF PoolMissing, Step, Finalize
<1>4. CASE Start
  BY <1>4 DEF Start, Step
<1>5. CASE Download
  BY <1>5 DEF Download, Step
<1>6. CASE Downloaded
  BY <1>6 DEF Downloaded, Step
<1>7. CASE ArchiveMissing
  BY <1>7 DEF ArchiveMissing, Step
<1>8. CASE OpenRaises
  BY <1>8 DEF OpenRaises, Step
<1>9. CASE MakeTemp
  BY <1>9 DEF MakeTemp, Step
<1>10. CASE Clear
  BY <1>10 DEF Clear, Step
<1>11. CASE TarMissing
  BY <1>11 DEF TarMissing, Step
<1>12. CASE TarStarts
  BY <1>12 DEF TarStarts, Step
<1>13. CASE TarEnds
  BY <1>13 DEF TarEnds, Step, Extractions
<1>14. CASE Extracted
  BY <1>14 DEF Extracted, Step, Finalize
<1>15. CASE Unpacked
  BY <1>15 DEF Unpacked, Step, Finalize
<1>16. CASE Discard
  BY <1>16 DEF Discard, Step, RemoveTemp
<1>17. CASE Rename
  BY <1>17 DEF Rename, Step
<1>18. CASE StartCopy
  BY <1>18 DEF StartCopy, Step
<1>19. ASSUME NEW f \in Files, CopyFile(f) PROVE LeftInv'
  BY <1>19 DEF CopyFile, Step
<1>20. ASSUME NEW f \in Files, UploadFile(f) PROVE LeftInv'
  BY <1>20 DEF UploadFile, Step
<1>21. CASE CopyRaises
  BY <1>21 DEF CopyRaises, Step
<1>22. CASE CopyDone
  BY <1>22 DEF CopyDone, Step
<1>23. CASE StartUpload
  BY <1>23 DEF StartUpload, Step
<1>24. CASE Uploaded
  BY <1>24 DEF Uploaded, Step, RemoveTemp
<1>25. CASE UploadVerdict
  BY <1>25 DEF UploadVerdict, Step
<1>26. CASE DropDest
  BY <1>26 DEF DropDest, Step
<1>27. CASE ClearTemp
  BY <1>27 DEF ClearTemp, Step, RemoveTemp
<1>28. CASE Verify
  BY <1>28 DEF Verify, Step
<1>29. CASE End
  BY <1>29 DEF End, Step, Finalize
<1>30. CASE Finally
  BY <1>30 DEF Finally, Step, RemoveTemp
<1>31. CASE Cancel
  BY <1>31 DEF Cancel
<1>32. CASE OtherCreates
  BY <1>32 DEF OtherCreates
<1>33. CASE Crash
  BY <1>33 DEF Crash
<1>34. CASE Restart
  BY <1>34 DEF Restart, Step, Finalize, RemoveTemp
<1>35. CASE UNCHANGED vars
  BY <1>35 DEF vars
<1> QED
  BY <1>1, <1>2, <1>3, <1>4, <1>5, <1>6, <1>7, <1>8, <1>9, <1>10, <1>11, <1>12,
     <1>13, <1>14, <1>15, <1>16, <1>17, <1>18, <1>19, <1>20, <1>21, <1>22, <1>23, <1>24,
     <1>25, <1>26, <1>27, <1>28, <1>29, <1>30, <1>31, <1>32, <1>33, <1>34, <1>35 DEF Next, WorkerNext

----------------------------------------------------------------------------
LEMMA Invariant == Spec => []IInv
<1>1. IInv /\ [Next]_vars => IInv'
  BY NextTypeOK, NextControl, NextVolInv, NextLeftInv DEF IInv
<1> QED
  BY <1>1, InitIInv, PTL DEF Spec

\* Type correctness, for every set of files.
THEOREM TypeCorrect == Spec => []TypeOK
<1>1. IInv => TypeOK
  BY DEF IInv
<1> QED
  BY <1>1, Invariant, PTL

\* A completed restore put the whole archive in place and, after an overwrite,
\* left nothing of the old volume: by rename, by copy and by upload.
THEOREM CompletedRestored == Spec => []CompletedMeansRestored
<1>1. IInv => CompletedMeansRestored
  BY DEF IInv, EndInv, CompletedMeansRestored
<1> QED
  BY <1>1, Invariant, PTL

\* A local restore that is not a merge shows the old volume, less of it or the
\* whole new one, at every moment and after every crash.
THEOREM LocalIsAtomic == Spec => []NeverHalfRestored
<1>1. IInv => NeverHalfRestored
  BY DEF IInv, VolInv, NeverHalfRestored, Partial, Restored
<1>2. Spec => []IInv
  BY Invariant
<1> QED
  BY <1>1, <1>2, PTL

\* A local restore without resolution never mixes the archive with a volume that
\* came into being while it waited.
THEOREM LocalNoMixture == Spec => []NoResolutionNoMixture
<1>1. IInv => NoResolutionNoMixture
  BY DEF IInv, VolInv, NoResolutionNoMixture, Restored
<1> QED
  BY <1>1, Invariant, PTL

\* The extraction directory of a local restore stays only after an exception, and
\* then until the next start, that of a remote one only after a crash; and either
\* where it could not be removed.
THEOREM TempIsRemoved == Spec => []NoTempLeft
<1>1. IInv => NoTempLeft
  BY DEF IInv, TypeOK, LeftInv, NoTempLeft, HoldPcs
<1>2. Spec => []IInv
  BY Invariant
<1> QED
  BY <1>1, <1>2, PTL

\* A merge into a local volume never touches the files that only it has.
THEOREM LocalMergeKeeps == Spec => LocalMergeKeepsUnique
<1> DEFINE Kept == ~toRemote /\ resolution = "merge" => \A f \in Files \ ArchiveFiles :
                     vol[f] = "old" => vol'[f] = "old"
<1>1. ASSUME IInv, [Next]_vars PROVE Kept
  <2> USE DEF IInv, TypeOK, PlaceInv, TempInv, Gone, Restored, request, tempVars
  <2>1. CASE Clear
    BY <1>1, <2>1 DEF Clear, Step
  <2>2. CASE Rename
    BY <1>1, <2>2 DEF Rename, Step
  <2>3. ASSUME NEW f \in Files, CopyFile(f) PROVE Kept
    BY <1>1, <2>3 DEF CopyFile, Step
  <2>4. ASSUME NEW f \in Files, UploadFile(f) PROVE Kept
    BY <1>1, <2>4 DEF UploadFile, Step
  <2>5. CASE CopyRaises
    BY <1>1, <2>5 DEF CopyRaises, Step
  <2>6. CASE DropDest
    BY <1>1, <2>6 DEF DropDest, Step
  <2>7. CASE OtherCreates
    BY <1>1, <2>7 DEF OtherCreates
  <2>8. CASE UNCHANGED vol
    BY <1>1, <2>8
  <2>9. Clear \/ Rename \/ (\E f \in Files : CopyFile(f) \/ UploadFile(f)) \/ CopyRaises
          \/ DropDest \/ OtherCreates \/ UNCHANGED vol
    BY <1>1 DEF Next, WorkerNext, vars, Refuse, Accept, PoolMissing, Start, Download,
         Downloaded, ArchiveMissing, OpenRaises, MakeTemp, TarMissing, TarStarts, TarEnds,
         Extracted, Unpacked, Discard, StartCopy, CopyDone, StartUpload, Uploaded,
         UploadVerdict, ClearTemp, Verify, End, Finally, Cancel, Crash, Restart
  <2> QED
    BY <2>1, <2>2, <2>3, <2>4, <2>5, <2>6, <2>7, <2>8, <2>9
<1>2. IInv /\ [Next]_vars => [Kept]_vars
  BY <1>1
<1>3. Spec => []IInv
  BY Invariant
<1> QED
  BY <1>2, <1>3, PTL DEF Spec, LocalMergeKeepsUnique

----------------------------------------------------------------------------
(* What a cancel does, and what a merge keeps.                              *)

\* The destination has nothing of the archive yet.
Untouched == \A f \in Files : vol[f] \in {"none", "old"}

\* Nothing of the archive is in place before the extraction was looked at; a
\* destination is dropped only after a cancel, in a remote pool; and a file that is
\* written in part is one of a local merge.
DestInv ==
  /\ pc \in BeforePlace => Untouched
  /\ pc = "dropDest" => cancelled /\ toRemote
  /\ (\E f \in Files : vol[f] = "part") => ~toRemote /\ resolution = "merge"

\* Steps that do not change the destination.
OtherSteps ==
  \/ Refuse \/ Accept \/ PoolMissing \/ Start \/ Download \/ Downloaded \/ ArchiveMissing \/ OpenRaises
  \/ MakeTemp \/ TarMissing \/ TarStarts \/ TarEnds \/ Extracted \/ Unpacked \/ Discard \/ StartCopy
  \/ CopyDone \/ StartUpload \/ Uploaded \/ UploadVerdict \/ ClearTemp \/ Verify \/ End \/ Finally
  \/ Cancel \/ Crash \/ Restart \/ UNCHANGED vars

\* How the destination and the positions change.
LEMMA StepFacts ==
  ASSUME IInv, [Next]_vars
  PROVE  /\ request' = request
         /\ \/ OtherSteps /\ vol' = vol
            \/ Clear /\ pc = "clear" /\ ~toRemote /\ resolution = "overwrite"
            \/ Rename /\ ~toRemote /\ (resolution = "merge" => vol = Gone) /\ vol' \in {vol, Restored}
            \/ \E f \in ArchiveFiles : CopyFile(f) /\ vol' = [vol EXCEPT ![f] = "new"]
            \/ \E f \in Files : UploadFile(f)
            \/ CopyRaises /\ ~toRemote /\ resolution = "merge"
                 /\ vol' \in {vol} \cup {[vol EXCEPT ![f] = "part"] : f \in ArchiveFiles}
            \/ DropDest
            \/ OtherCreates
<1> USE DEF Step, request, tempVars
<1>1. CASE OtherSteps
  <2>1. vol' = vol /\ request' = request
    BY <1>1 DEF OtherSteps, Refuse, Accept, PoolMissing, Start, Download,
         Downloaded, ArchiveMissing, OpenRaises, MakeTemp, TarMissing, TarStarts, TarEnds,
         Extracted, Unpacked, Discard, StartCopy, CopyDone, StartUpload, Uploaded,
         UploadVerdict, ClearTemp, Verify, End, Finally, Cancel, Crash, Restart, vars
  <2> QED
    BY <1>1, <2>1
<1>2. CASE Clear
  <2>1. request' = request /\ pc = "clear"
    BY <1>2 DEF Clear
  <2> QED
    BY <1>2, <2>1 DEF IInv, PlaceInv
<1>3. CASE Rename
  <2>1. request' = request /\ pc = "place"
    BY <1>3 DEF Rename
  <2>2. vol' \in {vol, Restored}
    BY <1>3, <2>1 DEF Rename, IInv, TempInv
  <2> QED
    BY <1>3, <2>1, <2>2 DEF Rename
<1>4. ASSUME NEW f \in Files, CopyFile(f)
      PROVE  request' = request /\ f \in ArchiveFiles /\ vol' = [vol EXCEPT ![f] = "new"]
  BY <1>4 DEF CopyFile, IInv, PlaceInv, TempInv, Restored
<1>5. ASSUME NEW f \in Files, UploadFile(f) PROVE request' = request
  BY <1>5 DEF UploadFile
<1>6. CASE CopyRaises
  <2>1. request' = request /\ pc = "copy"
    BY <1>6 DEF CopyRaises
  <2>2. ~toRemote /\ resolution = "merge" /\ todo \subseteq ArchiveFiles
    BY <2>1 DEF IInv, PlaceInv
  <2>3. vol' \in {vol} \cup {[vol EXCEPT ![f] = "part"] : f \in ArchiveFiles}
    BY <1>6, <2>2 DEF CopyRaises
  <2> QED
    BY <1>6, <2>1, <2>2, <2>3
<1>7. CASE DropDest
  BY <1>7 DEF DropDest
<1>8. CASE OtherCreates
  BY <1>8 DEF OtherCreates
<1>9. OtherSteps \/ Clear \/ Rename \/ (\E f \in Files : CopyFile(f) \/ UploadFile(f)) \/ CopyRaises
        \/ DropDest \/ OtherCreates
  BY DEF Next, WorkerNext, OtherSteps
<1> HIDE DEF request
<1> QED
  BY <1>1, <1>2, <1>3, <1>4, <1>5, <1>6, <1>7, <1>8, <1>9

LEMMA DestInvHolds == Spec => []DestInv
<1>1. Init => DestInv
  BY DEF Init, DestInv, Untouched
<1>2. ASSUME IInv, DestInv, [Next]_vars PROVE DestInv'
  <2> USE DEF DestInv, Untouched, BeforePlace, Step, request
  <2>a. vol \in [Files -> Versions]
    BY <1>2 DEF IInv, TypeOK
  <2>1. CASE OtherSteps /\ vol' = vol
    <3>1. request' = request
      BY <1>2, StepFacts
    <3>2. pc' \in BeforePlace => pc \in BeforePlace
      BY <2>1 DEF OtherSteps, Refuse, Accept, PoolMissing, Start, Download,
         Downloaded, ArchiveMissing, OpenRaises, MakeTemp, TarMissing, TarStarts, TarEnds,
         Extracted, Unpacked, Discard, StartCopy, CopyDone, StartUpload, Uploaded,
         UploadVerdict, ClearTemp, Verify, End, Finally, Cancel, Crash, Restart, vars
    <3>3. pc' = "dropDest" => cancelled' /\ toRemote'
      BY <1>2, <2>1 DEF OtherSteps, Refuse, Accept, PoolMissing, Start, Download,
         Downloaded, ArchiveMissing, OpenRaises, MakeTemp, TarMissing, TarStarts, TarEnds,
         Extracted, Unpacked, Discard, StartCopy, CopyDone, StartUpload, Uploaded,
         UploadVerdict, ClearTemp, Verify, End, Finally, Cancel, Crash, Restart, vars, IInv, PlaceInv
    <3> QED
      BY <1>2, <2>1, <3>1, <3>2, <3>3
  <2>2. CASE Clear
    BY <1>2, <2>2 DEF Clear
  <2>3. CASE Rename /\ vol' \in {vol, Restored}
    BY <1>2, <2>3 DEF Rename, Restored
  <2>4. ASSUME NEW f \in ArchiveFiles, CopyFile(f), vol' = [vol EXCEPT ![f] = "new"] PROVE DestInv'
    BY <1>2, <2>4, <2>a DEF CopyFile
  <2>5. ASSUME NEW f \in Files, UploadFile(f) PROVE DestInv'
    BY <1>2, <2>5, <2>a DEF UploadFile, IInv, TempInv, Restored
  <2>6. CASE CopyRaises /\ ~toRemote /\ resolution = "merge"
    BY <1>2, <2>6 DEF CopyRaises
  <2>7. CASE DropDest
    BY <1>2, <2>7 DEF DropDest
  <2>8. CASE OtherCreates
    BY <1>2, <2>8, <2>a DEF OtherCreates
  <2> QED
    BY <1>2, <2>1, <2>2, <2>3, <2>4, <2>5, <2>6, <2>7, <2>8, StepFacts
<1> QED
  BY <1>1, <1>2, Invariant, PTL DEF Spec

\* Only a merge into a local volume shows, at some moment, a file of the archive that is
\* not written to its end.
OnlyMergeShowsParts == (\E f \in Files : vol[f] = "part") => ~toRemote /\ resolution = "merge"

\* restore_backup: a rename and an upload by rsync put whole files in place, before and
\* after every cancel, failure and crash.
THEOREM FilesAreWhole == Spec => []OnlyMergeShowsParts
<1>1. DestInv => OnlyMergeShowsParts
  BY DEF DestInv, OnlyMergeShowsParts
<1> QED
  BY <1>1, DestInvHolds, PTL

\* Positions up to the look at the flag that follows tar.
UntilExtracted == {"download", "downloaded", "open", "clear", "tar", "tarring", "extracted"}

\* A restore that is cancelled before its extraction was looked at does not complete,
\* and puts no file of the archive in place, from then on.
EarlyCancelPlacesNothing ==
  []((cancelled /\ pc \in UntilExtracted) => [](outcome # "completed" /\ Untouched))

\* Where a restore that was cancelled so early can be.
Ending ==
  /\ cancelled /\ Untouched /\ outcome # "completed"
  /\ pc \in UntilExtracted \cup {"discard", "cancelled", "failed", "except", "finally", "down", "done"}

\* restore_backup asks after every child process whether it was cancelled: the flag is
\* not lost on the way, whichever of them had ended well, and not over a crash.
THEOREM EarlyCancelHolds == Spec => EarlyCancelPlacesNothing
<1> DEFINE Early == cancelled /\ pc \in UntilExtracted
           Spared == outcome # "completed" /\ Untouched
<1>1. IInv /\ DestInv /\ Early => Ending
  BY DEF IInv, EndInv, DestInv, Ending, UntilExtracted, BeforePlace
<1>2. ASSUME IInv, Ending, [Next]_vars PROVE Ending'
  <2> USE DEF Ending, Untouched, UntilExtracted, Step, Finalize
  <2>1. CASE OtherSteps /\ vol' = vol
    BY <1>2, <2>1 DEF OtherSteps, Refuse, Accept, PoolMissing, Start, Download,
       Downloaded, ArchiveMissing, OpenRaises, MakeTemp, TarMissing, TarStarts, TarEnds,
       Extracted, Unpacked, Discard, StartCopy, CopyDone, StartUpload, Uploaded,
       UploadVerdict, ClearTemp, Verify, End, Finally, Cancel, Crash, Restart, vars
  <2>2. CASE Clear
    BY <1>2, <2>2 DEF Clear
  <2>3. pc \notin {"place", "copy", "upload", "dropDest", "queued"}
    BY <1>2
  <2>4. ~Rename /\ ~CopyRaises /\ ~DropDest /\ ~OtherCreates /\ \A f \in Files : ~CopyFile(f) /\ ~UploadFile(f)
    BY <2>3 DEF Rename, CopyRaises, DropDest, OtherCreates, CopyFile, UploadFile
  <2> QED
    BY <1>2, <2>1, <2>2, <2>4, StepFacts, RestoreAssumption
<1>3. Ending => Spared
  BY DEF Ending
<1>4. Spec => [](Early => []Spared)
  <2> HIDE DEF Early, Spared
  <2> QED
    BY <1>1, <1>2, <1>3, Invariant, DestInvHolds, PTL DEF Spec
<1> QED
  BY <1>4 DEF EarlyCancelPlacesNothing

\* A file that only the destination of a merge has is lost in one place: when the upload
\* to a remote pool is cancelled, the whole volume is dropped.
UniqueLostInDrop ==
  [][resolution = "merge" => \A f \in Files \ ArchiveFiles :
       vol[f] = "old" /\ vol'[f] # "old" => pc = "dropDest" /\ cancelled /\ toRemote]_vars

\* Steps that keep such a file.
LEMMA OnlyDropLoses ==
  ASSUME IInv, [Next]_vars, ~DropDest, resolution = "merge",
         NEW f \in Files \ ArchiveFiles, vol[f] = "old"
  PROVE  vol'[f] = "old"
<1>a. vol \in [Files -> Versions]
  BY DEF IInv, TypeOK
<1>1. ASSUME NEW g \in Files, UploadFile(g) PROVE vol'[f] = "old"
  BY <1>1, <1>a DEF UploadFile, Step, IInv, TempInv, Restored
<1>2. vol # Gone
  BY DEF Gone
<1>3. CASE OtherCreates
  BY <1>2, <1>3 DEF OtherCreates
<1>4. CASE Rename
  BY <1>2, <1>4, StepFacts DEF Rename
<1>5. ASSUME NEW g \in ArchiveFiles, vol' = [vol EXCEPT ![g] = "new"] PROVE vol'[f] = "old"
  BY <1>5, <1>a
<1>6. ASSUME vol' \in {vol} \cup {[vol EXCEPT ![g] = "part"] : g \in ArchiveFiles} PROVE vol'[f] = "old"
  BY <1>6, <1>a
<1> QED
  BY <1>1, <1>3, <1>4, <1>5, <1>6, StepFacts

\* restore_backup with "merge", local or remote, for every set of files.
THEOREM MergeLosesOnlyInDrop == Spec => UniqueLostInDrop
<1>1. IInv /\ DestInv /\ [Next]_vars =>
        [resolution = "merge" => \A f \in Files \ ArchiveFiles :
           vol[f] = "old" /\ vol'[f] # "old" => pc = "dropDest" /\ cancelled /\ toRemote]_vars
  <2> SUFFICES ASSUME IInv, DestInv, Next, resolution = "merge", NEW f \in Files \ ArchiveFiles,
                      vol[f] = "old", vol'[f] # "old"
               PROVE  pc = "dropDest" /\ cancelled /\ toRemote
    OBVIOUS
  <2>1. DropDest
    BY OnlyDropLoses
  <2> QED
    BY <2>1 DEF DropDest, Step, DestInv
<1> QED
  BY <1>1, Invariant, DestInvHolds, PTL DEF Spec, UniqueLostInDrop

\* A merge that completes has lost nothing: with CompletedMeansRestored, the volume then
\* has the files of the archive and, as they were, those that only it had.
MergeCompletesWhole ==
  \A f \in Files \ ArchiveFiles :
    []((resolution = "merge" /\ vol[f] = "old" /\ outcome \in {"none", "open"})
       => [](outcome = "completed" => vol[f] = "old"))

\* The file is there, or the restore ends and does not complete.
StillThere(f) ==
  /\ resolution = "merge"
  /\ vol[f] = "old" \/ (outcome # "completed" /\ pc \in {"cancelled", "finally", "down", "done"})

\* restore_backup with "merge": no path to "completed" leads through the drop.
THEOREM MergesKeepFiles == Spec => MergeCompletesWhole
<1> SUFFICES ASSUME NEW f \in Files \ ArchiveFiles
             PROVE  Spec => []((resolution = "merge" /\ vol[f] = "old" /\ outcome \in {"none", "open"})
                               => [](outcome = "completed" => vol[f] = "old"))
  BY DEF MergeCompletesWhole
<1> DEFINE There == resolution = "merge" /\ vol[f] = "old" /\ outcome \in {"none", "open"}
           Ends == outcome = "completed" => vol[f] = "old"
<1>1. There => StillThere(f)
  BY DEF StillThere
<1>2. IInv /\ StillThere(f) /\ [Next]_vars => StillThere(f)'
  <2> SUFFICES ASSUME IInv, StillThere(f), [Next]_vars PROVE StillThere(f)'
    OBVIOUS
  <2>1. resolution' = resolution
    BY StepFacts DEF request
  <2>2. CASE DropDest
    <3>1. pc = "dropDest" /\ pc' = "cancelled" /\ outcome' = outcome
      BY <2>2 DEF DropDest, Step
    <3> QED
      BY <2>1, <3>1 DEF StillThere, IInv, EndInv
  <2>3. CASE ~DropDest /\ vol[f] = "old"
    BY <2>1, <2>3, OnlyDropLoses DEF StillThere
  <2>4. CASE outcome # "completed" /\ pc \in {"cancelled", "finally", "down", "done"}
    <3>1. outcome' # "completed" /\ pc' \in {"cancelled", "finally", "down", "done"}
      BY <2>4 DEF Next, WorkerNext, vars, Step, Finalize, Refuse, Accept, PoolMissing, Start, Download,
         Downloaded, ArchiveMissing, OpenRaises, MakeTemp, Clear, TarMissing, TarStarts, TarEnds,
         Extracted, Unpacked, Discard, Rename, StartCopy, CopyFile, CopyRaises, CopyDone, StartUpload,
         UploadFile, Uploaded, UploadVerdict, DropDest, ClearTemp, Verify, End, Finally, Cancel,
         OtherCreates, Crash, Restart
    <3> QED
      BY <2>1, <3>1 DEF StillThere
  <2> QED
    BY <2>2, <2>3, <2>4 DEF StillThere
<1>3. StillThere(f) => Ends
  BY DEF StillThere
<1>4. Spec => [](There => []Ends)
  <2> HIDE DEF There, Ends
  <2> QED
    BY <1>1, <1>2, <1>3, Invariant, PTL DEF Spec
<1> QED
  BY <1>4

=============================================================================
