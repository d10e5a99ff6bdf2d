------------------------------ MODULE Restore ------------------------------
(***************************************************************************)
(* One restore of an archive into a volume (services/backup_service.py,    *)
(* restore_backup), from the request (api/routes.py, POST /api/restore) to *)
(* the end of its task, or through a crash to the next start of the        *)
(* program (app.py), which removes orphaned extraction directories.        *)
(*                                                                         *)
(* The archive is extracted into a temporary directory and its contents    *)
(* are then put in place: renamed or, for a merge, copied file by file     *)
(* into a volume of a local pool; uploaded by rsync to a remote one.  Once *)
(* they are in place the archive is verified.                              *)
(*                                                                         *)
(* A volume is the version of each of its files; one without files and no  *)
(* volume at all are the same value.                                       *)
(***************************************************************************)
EXTENDS Naturals

CONSTANTS
  Files,         \* names of files
  ArchiveFiles,  \* the files of the archived volume
  MaxCrashes     \* bound on crashes

ASSUME RestoreAssumption ==
  /\ ArchiveFiles \subseteq Files /\ ArchiveFiles # {}
  /\ MaxCrashes \in Nat

\* "new" is a file of the archive, "old" one of the volume that was there
\* before, "part" one that was not written to its end.
Versions == {"none", "part", "old", "new"}
Gone == [f \in Files |-> "none"]
Restored == [f \in Files |-> IF f \in ArchiveFiles THEN "new" ELSE "none"]

VARIABLES
  resolution,  \* conflict_resolution; "rename" is "none" for another name
  archive,     \* what tar can do with it: "whole", "empty" or "bad"
  fromRemote,  \* the backup pool is an rsync module
  toRemote,    \* the destination pool is one
  vol,         \* the destination
  hasTemp,     \* temp_extract_dir exists
  temp,        \* the volume extracted in it
  stuck,       \* it was to be removed and could not be
  pc,          \* where the worker is
  todo,        \* files that the copy or the upload has not placed yet
  ok,          \* what the last child process or helper returned
  cancelled,   \* the task is in _cancelled
  outcome,     \* the status of the task
  raised,      \* an exception was caught
  crashes

request == <<resolution, archive, fromRemote, toRemote>>
tempVars == <<hasTemp, temp, stuck>>
vars == <<request, vol, tempVars, pc, todo, ok, cancelled, outcome, raised, crashes>>

Pcs == {"request", "queued", "start", "download", "downloaded", "open", "clear", "tar",
        "tarring", "extracted", "unpacked", "place", "copy", "upload", "uploaded",
        "cleared", "dropDest", "verify", "complete", "failed", "cancelled", "discard",
        "except", "finally", "down", "done"}

TypeOK ==
  /\ resolution \in {"none", "overwrite", "merge"} /\ archive \in {"whole", "empty", "bad"}
  /\ fromRemote \in BOOLEAN /\ toRemote \in BOOLEAN
  /\ vol \in [Files -> Versions] /\ temp \in [Files -> Versions]
  /\ hasTemp \in BOOLEAN /\ stuck \in BOOLEAN
  /\ pc \in Pcs /\ todo \subseteq Files
  /\ ok \in BOOLEAN /\ cancelled \in BOOLEAN /\ raised \in BOOLEAN
  /\ outcome \in {"none", "open", "completed", "failed", "cancelled"}
  /\ crashes \in 0..MaxCrashes

Init ==
  /\ resolution \in {"none", "overwrite", "merge"} /\ archive \in {"whole", "empty", "bad"}
  /\ fromRemote \in BOOLEAN /\ toRemote \in BOOLEAN
  /\ vol \in [Files -> {"none", "old"}] /\ hasTemp = FALSE /\ temp = Gone /\ stuck = FALSE
  /\ pc = "request" /\ todo = {} /\ ok = FALSE
  /\ cancelled = FALSE /\ outcome = "none" /\ raised = FALSE
  /\ crashes = 0

Step(from, to) ==
  /\ pc = from
  /\ pc' = to
  /\ UNCHANGED <<request, cancelled, crashes>>

\* First finalize wins (TaskTable).
Finalize(o) == outcome' = IF outcome = "open" THEN o ELSE outcome

----------------------------------------------------------------------------
(* The request handler.                                                    *)

Refuse ==
  /\ Step("request", "done")
  /\ resolution = "none" /\ vol # Gone
  /\ UNCHANGED <<vol, tempVars, todo, ok, outcome, raised>>

Accept ==
  /\ Step("request", "queued")
  /\ resolution = "none" => vol = Gone
  /\ outcome' = "open"
  /\ UNCHANGED <<vol, tempVars, todo, ok, raised>>

----------------------------------------------------------------------------
(* restore_backup, in the worker thread.                                   *)

PoolMissing ==
  /\ Step("queued", "done")
  /\ Finalize("failed")
  /\ UNCHANGED <<vol, tempVars, todo, ok, raised>>

Start ==
  /\ Step("queued", IF fromRemote THEN "download" ELSE "open")
  /\ UNCHANGED <<vol, tempVars, todo, ok, outcome, raised>>

\* _stream_rsync; it returns False when the task is flagged.
Download ==
  /\ Step("download", "downloaded")
  /\ ok' \in {FALSE, ~cancelled}
  /\ UNCHANGED <<vol, tempVars, todo, outcome, raised>>

Downloaded ==
  /\ Step("downloaded", IF ok THEN "open" ELSE IF cancelled THEN "cancelled" ELSE "failed")
  /\ UNCHANGED <<vol, tempVars, todo, ok, outcome, raised>>

\* The archive was removed while the task waited.
ArchiveMissing ==
  /\ Step("open", "failed")
  /\ UNCHANGED <<vol, tempVars, todo, ok, outcome, raised>>

\* A path is refused or a directory cannot be made.
OpenRaises ==
  /\ Step("open", "except")
  /\ hasTemp' \in BOOLEAN
  /\ UNCHANGED <<vol, temp, stuck, todo, ok, outcome, raised>>

\* Variant with a bug: a merge clears its destination too.
MakeTempClearing ==
  /\ Step("open", IF resolution # "none" /\ ~toRemote THEN "clear" ELSE "tar")
  /\ hasTemp' = TRUE
  /\ UNCHANGED <<vol, temp, stuck, todo, ok, outcome, raised>>

MakeTemp ==
  /\ Step("open", IF resolution = "overwrite" /\ ~toRemote THEN "clear" ELSE "tar")
  /\ hasTemp' = TRUE
  /\ UNCHANGED <<vol, temp, stuck, todo, ok, outcome, raised>>

\* shutil.rmtree(dest_path), which raises when something cannot be removed.
Clear ==
  /\ \E kept \in SUBSET Files :
       /\ vol' = [f \in Files |-> IF f \in kept THEN vol[f] ELSE "none"]
       /\ IF kept = {} THEN Step("clear", "tar") ELSE Step("clear", "except")
  /\ UNCHANGED <<tempVars, todo, ok, outcome, raised>>

TarMissing ==
  /\ Step("tar", "except")
  /\ UNCHANGED <<vol, tempVars, todo, ok, outcome, raised>>

TarStarts ==
  /\ Step("tar", "tarring")
  /\ UNCHANGED <<vol, tempVars, todo, ok, outcome, raised>>

\* A tar that fails or is killed has extracted some files, the last in part.
Extractions ==
  {[f \in Files |-> IF f \in part THEN "part" ELSE IF f \in got THEN "new" ELSE "none"] :
     got \in SUBSET ArchiveFiles, part \in {{}} \cup {{f} : f \in ArchiveFiles}}

TarEnds ==
  /\ Step("tarring", "extracted")
  /\ \/ ok' = TRUE /\ archive # "bad" /\ temp' = IF archive = "whole" THEN Restored ELSE Gone
     \/ ok' = FALSE /\ temp' \in Extractions
  /\ UNCHANGED <<vol, hasTemp, stuck, todo, outcome, raised>>

\* Variant with a bug: the exit code of tar is not looked at.
ExtractedUnread ==
  /\ \/ cancelled /\ Step("extracted", "discard")
     \/ ~cancelled /\ Step("extracted", "unpacked")
  /\ UNCHANGED <<vol, tempVars, todo, ok, outcome, raised>>

\* A cancel is looked at before the exit code; then an archive without files.
\* A cancelled task is finalized after the directory is removed, the other two
\* before.
Extracted ==
  /\ \/ cancelled /\ Step("extracted", "discard") /\ UNCHANGED outcome
     \/ ~cancelled /\ ok /\ Step("extracted", "unpacked") /\ UNCHANGED outcome
     \/ ~cancelled /\ ~ok /\ Step("extracted", "discard") /\ Finalize("failed")
  /\ UNCHANGED <<vol, tempVars, todo, ok, raised>>

Unpacked ==
  /\ \/ temp # Gone /\ Step("unpacked", "place") /\ UNCHANGED outcome
     \/ temp = Gone /\ Step("unpacked", "discard") /\ Finalize("failed")
  /\ UNCHANGED <<vol, tempVars, todo, ok, raised>>

\* Variant with a bug: the extraction directory stays after a failure.
DiscardNothing ==
  /\ Step("discard", IF outcome = "open" THEN "cancelled" ELSE "finally")
  /\ UNCHANGED <<vol, tempVars, todo, ok, outcome, raised>>

\* rmtree(temp_extract_dir, ignore_errors=True): what it cannot remove stays, and
\* nobody is told.
RemoveTemp ==
  \/ hasTemp' = FALSE /\ temp' = Gone /\ UNCHANGED stuck
  \/ /\ hasTemp /\ stuck' = TRUE /\ UNCHANGED hasTemp
     /\ \E kept \in SUBSET Files : temp' = [f \in Files |-> IF f \in kept THEN temp[f] ELSE "none"]

Discard ==
  /\ Step("discard", IF outcome = "open" THEN "cancelled" ELSE "finally")
  /\ RemoveTemp
  /\ UNCHANGED <<vol, todo, ok, outcome, raised>>

\* Variant with a bug: the files are moved into whatever is there.
RenameOver ==
  /\ Step("place", "cleared")
  /\ ~toRemote /\ (resolution = "merge" => vol = Gone)
  /\ vol' = [f \in Files |-> IF temp[f] = "none" THEN vol[f] ELSE temp[f]]
  /\ UNCHANGED <<tempVars, todo, ok, outcome, raised>>

\* source_vol.rename(dest_path), when there is nothing to merge with; over a
\* volume with files it raises.
Rename ==
  /\ ~toRemote /\ (resolution = "merge" => vol = Gone)
  /\ \/ vol = Gone /\ Step("place", "cleared") /\ vol' = temp
     \/ Step("place", "except") /\ UNCHANGED vol
  /\ UNCHANGED <<tempVars, todo, ok, outcome, raised>>

\* copytree(dirs_exist_ok=True), also into a volume without files.
StartCopy ==
  /\ Step("place", "copy")
  /\ ~toRemote /\ resolution = "merge"
  /\ todo' = {f \in Files : temp[f] # "none"}
  /\ UNCHANGED <<vol, tempVars, ok, outcome, raised>>

CopyFile(f) ==
  /\ Step("copy", "copy")
  /\ f \in todo
  /\ vol' = [vol EXCEPT ![f] = temp[f]]
  /\ todo' = todo \ {f}
  /\ UNCHANGED <<tempVars, ok, outcome, raised>>

CopyRaises ==
  /\ Step("copy", "except")
  /\ vol' \in {vol} \cup {[vol EXCEPT ![f] = "part"] : f \in todo}
  /\ UNCHANGED <<tempVars, todo, ok, outcome, raised>>

CopyDone ==
  /\ Step("copy", "cleared")
  /\ todo = {}
  /\ UNCHANGED <<vol, tempVars, todo, ok, outcome, raised>>

StartUpload ==
  /\ Step("place", "upload")
  /\ toRemote
  /\ todo' = Files
  /\ UNCHANGED <<vol, tempVars, ok, outcome, raised>>

\* Variant with a bug: no --delete.
UploadFileOnly(f) ==
  /\ Step("upload", "upload")
  /\ f \in todo
  /\ vol' = IF temp[f] # "none" THEN [vol EXCEPT ![f] = temp[f]] ELSE vol
  /\ todo' = todo \ {f}
  /\ UNCHANGED <<tempVars, ok, outcome, raised>>

\* rsync renames each file it has received; --delete, on an overwrite, removes
\* what the archive does not have.
UploadFile(f) ==
  /\ Step("upload", "upload")
  /\ f \in todo
  /\ vol' = IF temp[f] # "none" \/ resolution = "overwrite" THEN [vol EXCEPT ![f] = temp[f]] ELSE vol
  /\ todo' = todo \ {f}
  /\ UNCHANGED <<tempVars, ok, outcome, raised>>

\* rsync ends or is killed; the directory is removed before its result is used.
Uploaded ==
  /\ Step("upload", "uploaded")
  /\ ok' \in {FALSE, todo = {} /\ ~cancelled}
  /\ RemoveTemp
  /\ UNCHANGED <<vol, todo, outcome, raised>>

UploadVerdict ==
  /\ Step("uploaded", IF ok THEN "verify" ELSE IF cancelled THEN "dropDest" ELSE "failed")
  /\ UNCHANGED <<vol, tempVars, todo, ok, outcome, raised>>

\* delete_volume of the destination; its failure is not looked at.
DropDest ==
  /\ Step("dropDest", "cancelled")
  /\ \E kept \in SUBSET Files : vol' = [f \in Files |-> IF f \in kept THEN vol[f] ELSE "none"]
  /\ UNCHANGED <<tempVars, todo, ok, outcome, raised>>

ClearTemp ==
  /\ Step("cleared", "verify")
  /\ RemoveTemp
  /\ UNCHANGED <<vol, todo, ok, outcome, raised>>

\* _verify_backup of the archive; it may fail for a reason of its own.
Verify ==
  /\ Step("verify", "complete") \/ Step("verify", "failed")
  /\ UNCHANGED <<vol, tempVars, todo, ok, outcome, raised>>

End ==
  /\ \/ Step("complete", "finally") /\ Finalize("completed") /\ UNCHANGED raised
     \/ Step("failed", "finally") /\ Finalize("failed") /\ UNCHANGED raised
     \/ Step("cancelled", "finally") /\ Finalize("cancelled") /\ UNCHANGED raised
     \/ Step("except", "finally") /\ Finalize("failed") /\ raised' = TRUE
  /\ UNCHANGED <<vol, tempVars, todo, ok>>

\* The finally block removes the staging directory of a remote destination; of
\* the other one, in the pool, it knows nothing.
Finally ==
  /\ Step("finally", "done")
  /\ IF toRemote THEN RemoveTemp ELSE UNCHANGED tempVars
  /\ UNCHANGED <<vol, todo, ok, outcome, raised>>

WorkerNext ==
  \/ PoolMissing \/ Start \/ Download \/ Downloaded \/ ArchiveMissing \/ OpenRaises
  \/ MakeTemp \/ Clear \/ TarMissing \/ TarStarts \/ TarEnds \/ Extracted \/ Unpacked
  \/ Discard \/ Rename \/ StartCopy \/ (\E f \in Files : CopyFile(f) \/ UploadFile(f))
  \/ CopyRaises \/ CopyDone \/ StartUpload \/ Uploaded \/ UploadVerdict \/ DropDest
  \/ ClearTemp \/ Verify \/ End \/ Finally

----------------------------------------------------------------------------
(* The user, other operations, and crashes.                                *)

Cancel ==
  /\ pc \notin {"request", "queued", "down", "done"} /\ outcome = "open"
  /\ cancelled' = TRUE
  /\ UNCHANGED <<request, vol, tempVars, pc, todo, ok, outcome, raised, crashes>>

\* A task that waits before this one in the queue.
OtherCreates ==
  /\ pc = "queued" /\ vol = Gone
  /\ \E f \in Files : vol' = [vol EXCEPT ![f] = "old"]
  /\ UNCHANGED <<request, tempVars, pc, todo, ok, cancelled, outcome, raised, crashes>>

Crash ==
  /\ crashes < MaxCrashes /\ pc \notin {"request", "down", "done"}
  /\ crashes' = crashes + 1
  /\ pc' = "down"
  /\ UNCHANGED <<request, vol, tempVars, todo, ok, cancelled, outcome, raised>>

\* Variant with a bug: nobody cleans the pools up.
RestartOnly ==
  /\ Step("down", "done")
  /\ Finalize("failed")
  /\ UNCHANGED <<vol, tempVars, todo, ok, raised>>

\* _load_tasks and _cleanup_orphaned_restore_dirs, which only looks for the
\* extraction directories in local pools, and goes on when one cannot be removed.
Restart ==
  /\ Step("down", "done")
  /\ Finalize("failed")
  /\ IF toRemote THEN UNCHANGED tempVars ELSE RemoveTemp
  /\ UNCHANGED <<vol, todo, ok, raised>>

Next == Refuse \/ Accept \/ WorkerNext \/ Cancel \/ OtherCreates \/ Crash \/ Restart

Spec == Init /\ [][Next]_vars

----------------------------------------------------------------------------
(* Properties.                                                             *)

\* A completed restore put every file of the archive in place, and after an
\* overwrite nothing of the volume that was there is left.
CompletedMeansRestored ==
  (pc = "done" /\ outcome = "completed") =>
    \A f \in Files :
      /\ f \in ArchiveFiles => vol[f] = "new"
      /\ resolution = "overwrite" => vol[f] # "old"

\* A restore to a local pool without resolution, or under a new name, does not
\* mix the archive with a volume that came into being while the task waited.
NoResolutionNoMixture ==
  (~toRemote /\ resolution = "none" /\ (\E f \in Files : vol[f] = "old")) =>
    \A f \in Files : vol[f] \in {"none", "old"}

Partial ==
  /\ \E f \in ArchiveFiles : vol[f] \in {"part", "new"}
  /\ \E f \in ArchiveFiles : vol[f] # "new"

\* In a local pool nobody ever sees a volume that is restored in part, not even
\* after a crash: the extraction happens elsewhere and is renamed.  A merge has
\* no such promise.
NeverHalfRestored == ~toRemote /\ resolution # "merge" => ~Partial

\* The extraction directory is gone in the end, after every cancel and failure
\* that is not an exception, and after a restart ("Application now automatically
\* cleans up all .restore_temp_* directories on startup", SKILLS_DEBUGGING.md).
\* For a remote destination it is a staging directory: it goes after an
\* exception, too, but nobody looks for it after a restart.  It may stay when it
\* was to be removed and could not be.
NoTempLeft ==
  pc = "done" /\ hasTemp => stuck \/ IF toRemote THEN crashes > 0 ELSE raised /\ crashes = 0

\* "Keep files unique to the destination" (static/main.js, Merge into target), in
\* a local pool.
LocalMergeKeepsUnique ==
  [][~toRemote /\ resolution = "merge" => \A f \in Files \ ArchiveFiles :
       vol[f] = "old" => vol'[f] = "old"]_vars
=============================================================================
