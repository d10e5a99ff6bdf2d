----------------------------- MODULE BackupPool -----------------------------
(***************************************************************************)
(* The archives of one backup pool: backups that make them, one after the  *)
(* other in the worker thread (services/backup_service.py, backup_volume), *)
(* and the retention that follows every successful scheduled backup        *)
(* (services/scheduler_service.py, _apply_retention).                      *)
(*                                                                         *)
(* An archive's name is {pool}_{volume}_{timestamp}.tar.gz.  A name is a   *)
(* sequence of numbers, one for each part between two underscores, and a   *)
(* timestamp is smaller than any other part, as digits sort before         *)
(* letters.  So patterns, prefixes and the order of names are those of the *)
(* program.  The timestamp is the local time, which may be set back.       *)
(***************************************************************************)
EXTENDS Integers, FiniteSets, SequencesExt

CONSTANTS
  Sources,       \* pairs of a pool and a volume
  Parts,         \* Parts[s]: the parts of "{pool}_{volume}"
  Retention,     \* job['retention']
  MaxTime        \* bound on the clock

Times == 1..MaxTime

ASSUME BackupAssumption ==
  /\ Retention \in Nat \ {0} /\ MaxTime \in Nat \ {0}
  /\ \A s \in Sources : Parts[s] \in Seq(Nat \ 0..MaxTime)

\* archive_name
NameOf(s, t) == Append(Parts[s], t)
NamesOf(s) == {NameOf(s, t) : t \in Times}
Names == UNION {NamesOf(s) : s \in Sources}

\* What an archive holds: everything; not the files of which tar said that it could
\* not read them ("thin"); as far as tar got when it failed ("part").  Of two more tar
\* said nothing that the program knows for an error: one that lacks something and can
\* be listed ("short"), and one that cannot, being damaged or cut ("bad").
Contents == {"none", "whole", "thin", "part", "short", "bad"}
Listable == {"whole", "thin", "short"}

VARIABLES
  remote,     \* the backup pool is an rsync module
  clock,
  pool,       \* pool[n]: the archive of that name in the backup pool
  stage,      \* the archive in staging_dir, for a remote pool
  pc,         \* where the worker is
  src,        \* source of the current backup
  name,       \* archive_name
  ok,         \* what the last helper returned
  verify,     \* the request asks for a verification; a scheduled backup always does
  cancelled,  \* the task is in _cancelled
  outcome,    \* the status of the task
  done,       \* names of the completed backups
  before,     \* before[n]: those that had completed before the backup n did
  left,       \* archives that could not be removed, or were under way at a crash
  regular     \* no name was used twice, nor by a backup that did not complete, nor was
              \* the clock set back

request == <<src, name, verify>>
task == <<request, cancelled>>
ghosts == <<done, before, left, regular>>
world == <<remote, clock>>
vars == <<pool, stage, pc, ok, outcome, task, ghosts, world>>

Pcs == {"idle", "pull", "look", "tar", "tarring", "tarVerdict", "upload", "uploadVerdict",
        "dropRemote", "verify", "complete", "failed", "error", "finally", "retention"}

TypeOK ==
  /\ remote \in BOOLEAN
  /\ clock \in Times
  /\ pool \in [Names -> Contents] /\ stage \in Contents
  /\ ok \in BOOLEAN
  /\ cancelled \in BOOLEAN /\ regular \in BOOLEAN
  /\ pc \in Pcs
  /\ src \in Sources /\ name \in Names \cup {<<>>} /\ verify \in BOOLEAN
  /\ outcome \in {"none", "open", "completed", "failed", "cancelled"}
  /\ done \subseteq Names /\ before \in [Names -> SUBSET Names]
  /\ left \subseteq Names

Init ==
  /\ remote \in BOOLEAN
  /\ clock = 1
  /\ pool = [n \in Names |-> "none"] /\ stage = "none"
  /\ pc = "idle" /\ src \in Sources /\ name = <<>> /\ verify = TRUE
  /\ ok = FALSE /\ cancelled = FALSE /\ outcome = "none"
  /\ done = {} /\ before = [n \in Names |-> {}] /\ left = {} /\ regular = TRUE

Step(from, to) ==
  /\ pc = from
  /\ pc' = to
  /\ UNCHANGED <<task, world>>

\* The task is finalized: nobody looks at its flag and its helpers' results any more.
Close(from) ==
  /\ pc = from
  /\ pc' = "finally"
  /\ cancelled' = FALSE /\ ok' = FALSE
  /\ UNCHANGED <<request, world>>

\* The task is over: what the worker knew of it is gone.
Return(from) ==
  /\ pc = from
  /\ pc' = "idle"
  /\ name' = <<>> /\ verify' = TRUE /\ outcome' = "none"
  /\ cancelled' = FALSE /\ ok' = FALSE
  /\ UNCHANGED src

----------------------------------------------------------------------------
(* backup_volume, in the worker thread.                                    *)

\* A volume of a remote pool is pulled first.
Begin(s) ==
  /\ pc = "idle"
  /\ pc' \in {"pull", "look"}
  /\ src' = s /\ verify' \in BOOLEAN /\ outcome' = "open"
  /\ UNCHANGED <<pool, stage, ok, name, cancelled, ghosts, world>>

\* A container does not stop, or a path is refused.
Raise ==
  /\ \E from \in {"pull", "look"} : Step(from, "error")
  /\ UNCHANGED <<pool, stage, ok, outcome, ghosts>>

\* _stream_rsync for the source; it returns False when the task is flagged.
Pull ==
  /\ \/ ~cancelled /\ Step("pull", "look")
     \/ Step("pull", "failed")
  /\ UNCHANGED <<pool, stage, ok, outcome, ghosts>>

SourceGone ==
  /\ Step("look", "error")
  /\ UNCHANGED <<pool, stage, ok, outcome, ghosts>>

SourceFound ==
  /\ pc = "look"
  /\ pc' = "tar"
  /\ name' = NameOf(src, clock)
  /\ UNCHANGED <<pool, stage, ok, outcome, src, verify, cancelled, ghosts, world>>

\* archive_path: in staging_dir for a remote pool, else in the pool itself.
Target == IF remote THEN stage ELSE pool[name]
SetTarget(c) ==
  IF remote THEN stage' = c /\ UNCHANGED pool
            ELSE pool' = [pool EXCEPT ![name] = c] /\ UNCHANGED stage

\* Popen raises inside _create_archive.
TarMissing ==
  /\ Step("tar", "tarVerdict")
  /\ ok' = FALSE
  /\ UNCHANGED <<pool, stage, outcome, ghosts>>

\* tar truncates an archive that has the same name.
TarStarts ==
  /\ Step("tar", "tarring")
  /\ SetTarget("part")
  /\ regular' = (regular /\ pool[name] = "none")
  /\ left' = left \ {name}
  /\ UNCHANGED <<ok, outcome, done, before>>

\* Variant with a bug: exit code 1 is always taken for a warning.
TarEndsWarned ==
  /\ Step("tarring", "tarVerdict")
  /\ \E c \in Contents \ {"none"} :
       /\ SetTarget(c)
       /\ ok' = (c # "part" /\ ~cancelled)
  /\ UNCHANGED <<outcome, ghosts>>

\* Exit code 0, or 1 with no line of _FATAL_TAR_STDERR_PATTERNS, is a success; that
\* everything was read is what the program makes of it.  Exit code 1 with such a line:
\* files are missing.  Another code, or a signal, of a cancel for instance: the archive
\* stops somewhere.
TarEnds ==
  /\ Step("tarring", "tarVerdict")
  /\ \E c \in Contents \ {"none"} :
       /\ SetTarget(c)
       /\ ok' = (c \in {"whole", "short", "bad"} /\ ~cancelled)
  /\ UNCHANGED <<outcome, ghosts>>

\* Variant with a bug: the archive of a tar that failed stays.
TarKept ==
  /\ Step("tarVerdict", "failed")
  /\ ~ok
  /\ UNCHANGED <<pool, stage, ok, outcome, ghosts>>

\* unlink(missing_ok=True), whose OSError is swallowed.
TarFailed ==
  /\ Step("tarVerdict", "failed")
  /\ ~ok
  /\ \/ SetTarget("none") /\ UNCHANGED left
     \/ left' = (IF remote THEN left ELSE left \cup {name}) /\ UNCHANGED <<pool, stage>>
  /\ UNCHANGED <<ok, outcome, done, before, regular>>

TarDone ==
  /\ Step("tarVerdict", IF remote THEN "upload" ELSE "verify")
  /\ ok
  /\ UNCHANGED <<pool, stage, ok, outcome, ghosts>>

\* _transfer_to_remote_backup.  rsync renames a file it has received whole; it
\* may still end with an error, or be killed, after that.
Upload ==
  /\ Step("upload", "uploadVerdict")
  /\ \/ pool' = [pool EXCEPT ![name] = stage] /\ ok' = ~cancelled
     \/ pool' \in {pool, [pool EXCEPT ![name] = stage]} /\ ok' = FALSE
  /\ UNCHANGED <<stage, outcome, ghosts>>

UploadDone ==
  /\ Step("uploadVerdict", "verify")
  /\ ok
  /\ UNCHANGED <<pool, stage, ok, outcome, ghosts>>

UploadFailed ==
  /\ Step("uploadVerdict", IF cancelled THEN "dropRemote" ELSE "error")
  /\ ~ok
  /\ stage' \in {"none", stage}
  /\ UNCHANGED <<pool, ok, outcome, ghosts>>

\* _cleanup_remote_backup_archive, best effort.
DropRemote ==
  /\ Step("dropRemote", "failed")
  /\ pool' \in {pool, [pool EXCEPT ![name] = "none"]}
  /\ UNCHANGED <<stage, ok, outcome, ghosts>>

\* _verify_backup, if it was asked for, lists the archive; it may also fail for a reason
\* of its own.  Nothing removes an archive that is refused.
Verify ==
  /\ \/ Step("verify", "complete") /\ (verify => Target \in Listable)
     \/ Step("verify", "error") /\ verify
  /\ UNCHANGED <<pool, stage, ok, outcome, ghosts>>

\* complete_task(success=True); no cancel is looked at any more.
Complete ==
  /\ Close("complete")
  /\ outcome' = "completed"
  /\ done' = done \cup {name}
  /\ before' = [n \in Names |-> IF n = name THEN done \ {name} ELSE before[n] \ {name}]
  /\ UNCHANGED <<pool, stage, left, regular>>

\* After a child process the flag tells a cancel from a failure.
Failed ==
  /\ \/ Close("failed") /\ outcome' = IF cancelled THEN "cancelled" ELSE "failed"
     \/ Close("error") /\ outcome' = "failed"
  /\ regular' = (regular /\ (name = <<>> \/ pool[name] = "none"))
  /\ UNCHANGED <<pool, stage, done, before, left>>

\* The staging areas are emptied; a backup that succeeded goes on to the retention when
\* it is an item of a scheduled one.
Finally ==
  /\ \/ Return("finally")
     \/ outcome = "completed" /\ verify /\ Step("finally", "retention") /\ UNCHANGED <<ok, outcome>>
  /\ stage' = "none"
  /\ UNCHANGED <<pool, ghosts, world>>

----------------------------------------------------------------------------
(* _apply_retention and _apply_retention_remote.                           *)

\* fnmatch and glob with {pool}_{volume}_*.tar.gz
Matches(s, n) == Len(n) > Len(Parts[s]) /\ IsPrefix(Parts[s], n)

\* The order of the names.
Less(m, n) ==
  \E i \in 1..Len(m) :
    /\ i <= Len(n)
    /\ \A j \in 1..i - 1 : m[j] = n[j]
    /\ m[i] < n[i]

Archives(s) == {n \in Names : pool[n] # "none" /\ Matches(s, n)}

\* The k first of the sorted archives.
First(A, k) == {n \in A : Cardinality({m \in A : Less(m, n)}) < k}

\* Variant with a bug: one archive too many.
ToDeleteOneMore(s) == First(Archives(s), Cardinality(Archives(s)) - Retention + 1)

\* archives[:max(0, len(archives) - retention)]
ToDelete(s) == First(Archives(s), Cardinality(Archives(s)) - Retention)

\* A local pool: the first archive that cannot be removed ends it.  A remote
\* pool: it may not be listed, and every removal may fail by itself.
ApplyRetention ==
  /\ Return("retention")
  /\ \E kept \in SUBSET ToDelete(src) :
       /\ ~remote => \A m \in kept : \A n \in ToDelete(src) : Less(m, n) => n \in kept
       /\ pool' = [n \in Names |-> IF n \in ToDelete(src) \ kept THEN "none" ELSE pool[n]]
       /\ left' = left \ (ToDelete(src) \ kept)
  /\ UNCHANGED <<stage, done, before, regular, world>>

WorkerNext ==
  \/ \E s \in Sources : Begin(s)
  \/ Raise \/ Pull \/ SourceGone \/ SourceFound \/ TarMissing \/ TarStarts \/ TarEnds
  \/ TarFailed \/ TarDone \/ Upload \/ UploadDone \/ UploadFailed \/ DropRemote
  \/ Verify \/ Complete \/ Failed \/ Finally \/ ApplyRetention

----------------------------------------------------------------------------
(* The user, the clock and crashes.                                        *)

Cancel ==
  /\ outcome = "open"
  /\ cancelled' = TRUE
  /\ UNCHANGED <<pool, stage, pc, ok, outcome, request, ghosts, world>>

Tick ==
  /\ clock < MaxTime
  /\ clock' = clock + 1
  /\ UNCHANGED <<pool, stage, pc, ok, outcome, task, ghosts, remote>>

\* The end of daylight saving time.
SetBack ==
  /\ clock > 1
  /\ clock' = clock - 1
  /\ regular' = FALSE
  /\ UNCHANGED <<pool, stage, pc, ok, outcome, task, done, before, left, remote>>

\* /api/delete removes an archive of the pool; the task waits for its turn.
Delete(n) ==
  /\ pc = "idle" /\ pool[n] # "none"
  /\ pool' = [pool EXCEPT ![n] = "none"]
  /\ done' = done \ {n}
  /\ before' = [m \in Names |-> IF m = n THEN {} ELSE before[m] \ {n}]
  /\ left' = left \ {n}
  /\ UNCHANGED <<stage, pc, ok, outcome, task, regular, world>>

\* The pool is not looked at when the program starts again, and what is left in
\* the staging areas has a name that is never used again.
Crash ==
  /\ \E from \in Pcs \ {"idle"} : Return(from)
  /\ stage' = "none"
  /\ left' = left \cup {n \in {name} : pc \in {"tarring", "tarVerdict"} /\ ~remote}
  /\ regular' = (regular /\ (name = <<>> \/ pool[name] = "none" \/ outcome = "completed"))
  /\ UNCHANGED <<pool, done, before, world>>

Next == WorkerNext \/ Cancel \/ Tick \/ SetBack \/ (\E n \in Names : Delete(n)) \/ Crash

Spec == Init /\ [][Next]_vars

----------------------------------------------------------------------------
(* Properties.                                                             *)

\* A backup is "completed" only when the pool holds its archive, also when it travelled
\* through the staging area: with every file, but for what tar left out without a word
\* that the program knows, and listable if a verification was asked for.
CompletedMeansWhole ==
  (pc \in {"finally", "retention"} /\ outcome = "completed") =>
    \/ pool[name] \in {"whole", "short"}
    \/ pool[name] = "bad" /\ ~verify

\* State invariant: the types, and what a completed backup has in the pool.
PoolInv == TypeOK /\ CompletedMeansWhole

\* "Drop the partial/incomplete archive so it can't be mistaken for a good
\* backup" (backup_volume): between backups no archive is in the pool of which tar said
\* that files are missing, or that it stopped, unless it could not be removed or the
\* program died while tar wrote it.
NoPartialArchive ==
  pc = "idle" => \A n \in Names : pool[n] \in {"part", "thin"} => n \in left

\* The completed backups of s that are newer than n.
Newer(s, n) == {m \in done \cap NamesOf(s) : n \in before[m]}

LastKept(s) ==
  \A n \in done \cap NamesOf(s) :
    Cardinality(Newer(s, n)) < Retention /\ pool[n] = "whole" => pool'[n] = "whole"

\* Retention leaves the last backups of every volume, as many as it was asked
\* to keep, as long as nothing but complete backups is in the pool and the clock
\* goes forward.
RetentionKeepsLast == [][pc = "retention" /\ regular => \A s \in Sources : LastKept(s)]_vars

\* "Retention (backups to keep per volume)" (static/main.js): it does not touch
\* the archives of another volume.
RetentionPerVolume ==
  [][pc = "retention" => \A n \in Names :
       pool[n] # "none" /\ pool'[n] = "none" => n \in NamesOf(src)]_vars
=============================================================================
