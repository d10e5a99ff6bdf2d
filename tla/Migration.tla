----------------------------- MODULE Migration -----------------------------
(***************************************************************************)
(* One migration of a volume (services/migration_service.py,               *)
(* migrate_volume) with the containers that use the source volume          *)
(* (services/container_control.py): stop them, copy, verify, clean up or   *)
(* delete the source, start them again.                                    *)
(*                                                                         *)
(* The worker thread runs the procedure.  Beside it run: rsync, a child    *)
(* process or a job of the destination's v-helper; the containers, which   *)
(* go on writing to the source unless they are stopped; a user who         *)
(* cancels; and, while the task waits in the queue, other operations that  *)
(* may create the destination.                                             *)
(*                                                                         *)
(* A volume is the version of each of its files.  A volume without files   *)
(* and no volume at all are the same value.                                *)
(***************************************************************************)
EXTENDS Naturals, FiniteSetsExt

CONSTANTS
  Files,       \* names of files
  SourceFiles, \* the files of the source volume at the start
  Containers   \* the containers that use the source volume

ASSUME MigrationAssumption == SourceFiles \subseteq Files /\ SourceFiles # {}

\* "new" and "newer" are contents of the source, "old" of a volume that was at
\* the destination before; "part" is a file that rsync did not finish.
Versions == {"none", "part", "old", "new", "newer"}
Bytes(v) == CASE v = "none" -> 0 [] v = "part" -> 1 [] OTHER -> 2

Gone == [f \in Files |-> "none"]

VARIABLES
  req,         \* the request, and what is known of its pools
  vol,         \* vol["src"], vol["dst"]: the files of each place
  pc,          \* where the worker is
  outcome,     \* the status of the task
  cancelled,   \* the task is in _cancelled
  rsync,       \* the rsync process or v-helper job
  todo,        \* files rsync has not looked at yet
  success,     \* rsync_success
  running,     \* containers that run
  held,        \* containers stop_running_containers has stopped
  stopped,     \* stopped_containers: what it returned
  warned       \* the log's warnings: a volume not removed, a container not started,
               \* the containers not listed

workerVars == <<pc, outcome, success, stopped>>
vars == <<req, vol, workerVars, cancelled, rsync, todo, running, held, warned>>

\* stop: stop_containers_before, for a pool that has a docker_socket.  samePlace:
\* the destination is the source.  bothRemote: the destination's v-helper copies.
Requests ==
  [resolution : {"none", "overwrite", "merge"}, verify : BOOLEAN, deleteSource : BOOLEAN,
   stop : BOOLEAN, start : BOOLEAN, samePlace : BOOLEAN, bothRemote : BOOLEAN]

Dest == IF req.samePlace THEN "src" ELSE "dst"

Pcs == {"request", "queued", "stop", "copy", "transfer", "verdict", "cancelCleanup",
        "cancelled", "failed", "cleanup", "verify", "delete", "complete", "except",
        "finally", "done", "dead"}

TypeOK ==
  /\ req \in Requests
  /\ vol \in [{"src", "dst"} -> [Files -> Versions]]
  /\ pc \in Pcs
  /\ outcome \in {"none", "open", "completed", "failed", "cancelled"}
  /\ cancelled \in BOOLEAN /\ success \in BOOLEAN
  /\ rsync \in {"none", "live", "ok", "err"} /\ todo \subseteq Files
  /\ running \subseteq Containers /\ held \subseteq Containers /\ stopped \subseteq Containers
  /\ warned \subseteq Containers \cup {"src", "dst", "list"}

Init ==
  /\ req \in Requests
  /\ \E D \in SUBSET Files :
       vol = [src |-> [f \in Files |-> IF f \in SourceFiles THEN "new" ELSE "none"],
              dst |-> [f \in Files |-> IF f \in D THEN "old" ELSE "none"]]
  /\ pc = "request" /\ outcome = "none" /\ success = FALSE
  /\ cancelled = FALSE /\ rsync = "none" /\ todo = {}
  /\ running \in SUBSET Containers /\ held = {} /\ stopped = {}
  /\ warned = {}

Step(from, to) ==
  /\ pc = from
  /\ pc' = to
  /\ UNCHANGED <<req, cancelled>>

\* complete_task and finalize_cancelled: the first to come wins.
Finalize(o) == outcome' = IF outcome = "open" THEN o ELSE outcome

----------------------------------------------------------------------------
(* The request handler: POST /api/migrate.                                 *)

Refuse ==
  /\ Step("request", "done")
  /\ req.resolution = "none" /\ vol[Dest] # Gone
  /\ UNCHANGED <<vol, outcome, success, stopped, rsync, todo, running, held, warned>>

Accept ==
  /\ Step("request", "queued")
  /\ req.resolution = "none" => vol[Dest] = Gone
  /\ outcome' = "open"
  /\ UNCHANGED <<vol, success, stopped, rsync, todo, running, held, warned>>

----------------------------------------------------------------------------
(* The worker thread.                                                      *)

PoolMissing ==
  /\ Step("queued", "done")
  /\ Finalize("failed")
  /\ UNCHANGED <<vol, success, stopped, rsync, todo, running, held, warned>>

Begin ==
  /\ Step("queued", IF req.stop THEN "stop" ELSE "copy")
  /\ UNCHANGED <<vol, outcome, success, stopped, rsync, todo, running, held, warned>>

StopContainer(c) ==
  /\ Step("stop", "stop")
  /\ c \in running
  /\ running' = running \ {c}
  /\ held' = held \cup {c}
  /\ UNCHANGED <<vol, workerVars, rsync, todo, warned>>

\* The containers cannot be listed, by the Docker daemon or the v-helper: that is
\* logged, and taken for a volume that no container uses.
ListFails ==
  /\ Step("stop", "copy")
  /\ held = {}
  /\ warned' = warned \cup {"list"}
  /\ UNCHANGED <<vol, outcome, success, stopped, rsync, todo, running, held>>

\* A container does not stop: the exception leaves stopped_containers empty.
StopRaises ==
  /\ Step("stop", "except")
  /\ running # {}
  /\ UNCHANGED <<vol, outcome, success, stopped, rsync, todo, running, held, warned>>

StopsReturn ==
  /\ Step("stop", "copy")
  /\ running = {}
  /\ stopped' = held
  /\ UNCHANGED <<vol, outcome, success, rsync, todo, running, held, warned>>

\* safe_join refuses a path, Popen fails, or the v-helper does not start a pull.
CopyFails ==
  /\ Step("copy", "except") \/ Step("copy", "verdict")
  /\ success' = FALSE
  /\ UNCHANGED <<vol, outcome, stopped, rsync, todo, running, held, warned>>

StartRsync ==
  /\ Step("copy", "transfer")
  /\ rsync' = "live" /\ todo' = Files
  /\ UNCHANGED <<vol, outcome, success, stopped, running, held, warned>>

\* The end of rsync, or of the job as the v-helper reports it.
RsyncEnded ==
  /\ Step("transfer", "verdict")
  /\ rsync \in {"ok", "err"}
  /\ success' = (rsync = "ok" /\ ~cancelled)
  /\ UNCHANGED <<vol, outcome, stopped, rsync, todo, running, held, warned>>

\* A pull job is given up while it runs: contact is lost, or the cancel call to
\* the v-helper fails ("continuing cleanup").
PullAbandoned ==
  /\ req.bothRemote
  /\ Step("transfer", "verdict")
  /\ rsync = "live"
  /\ success' = FALSE
  /\ UNCHANGED <<vol, outcome, stopped, rsync, todo, running, held, warned>>

\* Variant with a bug: the exit code is not looked at.
VerdictUnread ==
  /\ \/ cancelled /\ Step("verdict", "cancelCleanup")
     \/ ~cancelled /\ Step("verdict", IF req.verify THEN "verify" ELSE "delete")
  /\ UNCHANGED <<vol, outcome, success, stopped, rsync, todo, running, held, warned>>

\* Variant with a bug: the flag is not read once rsync has ended well.
VerdictUnasked ==
  /\ \/ ~success /\ Step("verdict", IF cancelled THEN "cancelCleanup" ELSE "failed")
     \/ success /\ Step("verdict", IF req.verify THEN "verify" ELSE "delete")
  /\ UNCHANGED <<vol, outcome, success, stopped, rsync, todo, running, held, warned>>

Verdict ==
  /\ \/ cancelled /\ Step("verdict", "cancelCleanup")
     \/ ~cancelled /\ ~success /\ Step("verdict", "failed")
     \/ ~cancelled /\ success /\ Step("verdict", IF req.verify THEN "verify" ELSE "delete")
  /\ UNCHANGED <<vol, outcome, success, stopped, rsync, todo, running, held, warned>>

TotalBytes(p) == MapThenSumSet(LAMBDA f : Bytes(vol[p][f]), Files)

\* _verify_migration; it also fails when a side cannot be measured.
Verify ==
  /\ \/ Step("verify", "failed")
     \/ TotalBytes(Dest) = TotalBytes("src") /\ Step("verify", "delete")
  /\ UNCHANGED <<vol, outcome, success, stopped, rsync, todo, running, held, warned>>

\* delete_volume: everything goes, or some of it stays and False is returned.
DeleteVolume(p) ==
  \E kept \in SUBSET Files :
    /\ vol' = [vol EXCEPT ![p] = [f \in Files |-> IF f \in kept THEN @[f] ELSE "none"]]
    /\ warned' = IF kept = {} /\ vol[p] # Gone THEN warned ELSE warned \cup {p}

\* A failure is recorded before the destination is cleaned up, a cancel after.
Fail ==
  /\ Step("failed", "cleanup")
  /\ Finalize("failed")
  /\ UNCHANGED <<vol, success, stopped, rsync, todo, running, held, warned>>

\* Variant with a bug: the destination is left as it is.
CleanupNothing ==
  /\ Step("cleanup", "finally") \/ Step("cancelCleanup", "cancelled")
  /\ UNCHANGED <<vol, warned, outcome, success, stopped, rsync, todo, running, held>>

Cleanup ==
  /\ Step("cleanup", "finally") \/ Step("cancelCleanup", "cancelled")
  /\ DeleteVolume(Dest)
  /\ UNCHANGED <<outcome, success, stopped, rsync, todo, running, held>>

FinalizeCancelled ==
  /\ Step("cancelled", "finally")
  /\ Finalize("cancelled")
  /\ UNCHANGED <<vol, success, stopped, rsync, todo, running, held, warned>>

KeepSource ==
  /\ Step("delete", "complete")
  /\ ~req.deleteSource
  /\ UNCHANGED <<vol, outcome, success, stopped, rsync, todo, running, held, warned>>

DeleteSource ==
  /\ Step("delete", "complete")
  /\ req.deleteSource
  /\ DeleteVolume("src")
  /\ UNCHANGED <<outcome, success, stopped, rsync, todo, running, held>>

Complete ==
  /\ Step("complete", "finally")
  /\ Finalize("completed")
  /\ UNCHANGED <<vol, success, stopped, rsync, todo, running, held, warned>>

Except ==
  /\ Step("except", "finally")
  /\ Finalize("failed")
  /\ UNCHANGED <<vol, success, stopped, rsync, todo, running, held, warned>>

\* Variant with a bug: containers come back only after a success.
FinallyOnSuccess ==
  /\ Step("finally", "done")
  /\ \E broken \in SUBSET stopped :
       IF req.start /\ outcome = "completed"
         THEN running' = running \cup (stopped \ broken) /\ warned' = warned \cup broken
         ELSE UNCHANGED <<running, warned>>
  /\ UNCHANGED <<vol, outcome, success, stopped, rsync, todo, held>>

\* start_containers is best effort: a container that does not start is logged.
Finally ==
  /\ Step("finally", "done")
  /\ \E broken \in SUBSET stopped :
       IF req.start
         THEN running' = running \cup (stopped \ broken) /\ warned' = warned \cup broken
         ELSE UNCHANGED <<running, warned>>
  /\ UNCHANGED <<vol, outcome, success, stopped, rsync, todo, held>>

WorkerNext ==
  \/ PoolMissing \/ Begin \/ (\E c \in Containers : StopContainer(c))
  \/ ListFails \/ StopRaises \/ StopsReturn \/ CopyFails \/ StartRsync \/ RsyncEnded \/ PullAbandoned
  \/ Verdict \/ Verify \/ Fail \/ Cleanup \/ FinalizeCancelled
  \/ KeepSource \/ DeleteSource \/ Complete \/ Except \/ Finally

----------------------------------------------------------------------------
(* rsync, the containers, the user and other operations.                   *)

\* Variant with a bug: no --delete.
RsyncFileOnly(f) ==
  /\ rsync = "live" /\ f \in todo
  /\ todo' = todo \ {f}
  /\ vol' = IF vol["src"][f] = "none" THEN vol ELSE [vol EXCEPT ![Dest][f] = vol["src"][f]]
  /\ UNCHANGED <<req, workerVars, cancelled, rsync, running, held, warned>>

\* --inplace writes into the destination's files; --delete, on an overwrite,
\* removes what the source does not have.
RsyncFile(f) ==
  /\ rsync = "live" /\ f \in todo
  /\ todo' = todo \ {f}
  /\ vol' = IF vol["src"][f] = "none" /\ req.resolution # "overwrite"
              THEN vol ELSE [vol EXCEPT ![Dest][f] = vol["src"][f]]
  /\ UNCHANGED <<req, workerVars, cancelled, rsync, running, held, warned>>

RsyncOk ==
  /\ rsync = "live" /\ todo = {}
  /\ rsync' = "ok"
  /\ UNCHANGED <<req, vol, workerVars, cancelled, todo, running, held, warned>>

\* An error or a signal, between two files or in the middle of one.
RsyncErr ==
  /\ rsync = "live"
  /\ rsync' = "err"
  /\ \/ UNCHANGED vol
     \/ \E f \in todo : /\ vol["src"][f] \notin {"none", vol[Dest][f]}
                         /\ vol' = [vol EXCEPT ![Dest][f] = "part"]
  /\ UNCHANGED <<req, workerVars, cancelled, todo, running, held, warned>>

ContainerWrites(f) ==
  /\ running # {} /\ vol["src"] # Gone /\ pc \notin {"done", "dead"}
  /\ vol' = [vol EXCEPT !["src"][f] = "newer"]
  /\ UNCHANGED <<req, workerVars, cancelled, rsync, todo, running, held, warned>>

\* request_cancel for a running task.
Cancel ==
  /\ pc \notin {"request", "queued", "done", "dead"} /\ outcome = "open"
  /\ cancelled' = TRUE
  /\ UNCHANGED <<req, vol, workerVars, rsync, todo, running, held, warned>>

\* A task that waits before this one in the queue: a create, a rename, a restore.
OtherCreates ==
  /\ pc = "queued" /\ vol["dst"] = Gone
  /\ \E f \in Files : vol' = [vol EXCEPT !["dst"][f] = "old"]
  /\ UNCHANGED <<req, workerVars, cancelled, rsync, todo, running, held, warned>>

\* The program dies, and rsync with it; a pull job of a v-helper goes on.  The
\* next start finds the task open and fails it (_load_tasks), and does no more.
Crash ==
  /\ pc \notin {"request", "done", "dead"}
  /\ pc' = "dead"
  /\ Finalize("failed")
  /\ rsync' = IF rsync = "live" /\ ~req.bothRemote THEN "err" ELSE rsync
  /\ success' = FALSE /\ cancelled' = FALSE /\ stopped' = {} /\ held' = {}
  /\ UNCHANGED <<req, vol, todo, running, warned>>

Next ==
  \/ Refuse \/ Accept
  \/ WorkerNext
  \/ \E f \in Files : RsyncFile(f) \/ ContainerWrites(f)
  \/ RsyncOk \/ RsyncErr \/ Cancel \/ OtherCreates \/ Crash

Spec == Init /\ [][Next]_vars

----------------------------------------------------------------------------
(* Properties.                                                             *)

\* No container writes to the source while it is copied: none runs, or they are
\* to be stopped and could be listed.
Quiet == running = {} \/ (req.stop /\ "list" \notin warned)

\* "Delete source after verification" (static/main.js): a file leaves the source
\* only when its last content is at the destination, whatever was cancelled or
\* failed before, as long as nobody writes to the source and the destination is
\* another volume.
CopiedBeforeDelete ==
  [][Quiet /\ ~req.samePlace => \A f \in Files :
       vol["src"][f] # "none" /\ vol'["src"][f] = "none" => vol'[Dest][f] = vol["src"][f]]_vars

\* A completed migration has every file of the source at the destination, whole,
\* and after an overwrite nothing of the volume that was there; also when the
\* program died after it told so.
CompletedMeansCopied ==
  (pc \in {"done", "dead"} /\ outcome = "completed" /\ ~req.samePlace) =>
    \A f \in Files :
      /\ f \in SourceFiles => vol["dst"][f] \in {"new", "newer"}
      /\ req.resolution = "overwrite" => vol["dst"][f] # "old"

\* After a failure or a cancel no copied file stays at the destination, unless
\* the log says that it could not be removed, a v-helper did the copying, or the
\* program died: nothing cleans up at the next start.
NoPartialDestination ==
  (/\ pc = "done" /\ outcome \in {"failed", "cancelled"} /\ "dst" \notin warned
   /\ ~req.samePlace /\ ~req.bothRemote) =>
    \A f \in Files : vol["dst"][f] \in {"none", "old"}

\* "Containers come back up even when the operation itself failed"
\* (container_control.py): once all of them were stopped, they run again however
\* the migration ended, except those that do not start; a crash leaves them down.
ContainersBack ==
  (pc = "done" /\ req.start /\ stopped = held) => held \subseteq running \cup warned

\* A migration that is cancelled before the result of its copy was looked at
\* keeps its source, even when the copy had ended well.
EarlyCancelKeepsSource ==
  []((cancelled /\ pc \in {"stop", "copy", "transfer", "verdict"} /\ ~req.samePlace)
     => [](\A f \in SourceFiles : vol["src"][f] # "none"))

\* "Keep files unique to the destination" (static/main.js, Merge into target).
MergeKeepsUnique ==
  [][req.resolution = "merge" => \A f \in Files \ SourceFiles :
       vol["dst"][f] = "old" => vol'["dst"][f] # "none"]_vars
=============================================================================
