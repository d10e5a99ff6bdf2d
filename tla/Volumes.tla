------------------------------- MODULE Volumes -------------------------------
(***************************************************************************)
(* The volumes of one pool: the tasks that create, rename and delete them  *)
(* and change their permissions (services/volume_service.py), one after    *)
(* the other in the worker thread, and the size cache, which listings read *)
(* and a background thread fills (_start_volume_size_refresh).             *)
(*                                                                         *)
(* A local pool is a directory; the volumes of a remote one are changed by *)
(* its v-helper, or by an rsync that deletes.  A call to either is waited  *)
(* for no longer than its timeout and may take effect after that.          *)
(*                                                                         *)
(* A volume is the number of the request that created it, and that is also *)
(* its size; a measurement that fails gives 0.  A volume that was there at *)
(* the start counts as made by the first request.                          *)
(***************************************************************************)
EXTENDS Naturals, SequencesExt, Functions

CONSTANTS
  Names,       \* names of volumes
  Containers,  \* containers
  Mounts,      \* Mounts[k]: the name of the volume container k uses
  Asks,        \* the requests that are made
  MaxRequests, \* bound on their number
  MaxWaiting   \* bound on the queue

Changes == {"mode", "owner"}

\* RenameRequest, DeleteRequest, PermissionsRequest, VolumeCreateRequest.  stop:
\* stop_containers_before, in a pool with a docker_socket.
Requests ==
  [op : {"create"}, name : Names]
  \cup [op : {"rename"}, name : Names, to : Names, stop : BOOLEAN]
  \cup [op : {"delete"}, name : Names, stop : BOOLEAN]
  \cup [op : {"permissions"}, name : Names, stop : BOOLEAN, start : BOOLEAN,
        change : (SUBSET Changes) \ {{}}]

ASSUME VolumesAssumption ==
  /\ Mounts \in [Containers -> Names]
  /\ Asks \subseteq Requests
  /\ MaxRequests \in Nat \ {0} /\ MaxWaiting \in Nat

Ids == 1..MaxRequests
Sizes == 0..MaxRequests

VARIABLES
  kind,     \* how the pool is reached: "local", "helper", "rsync"
  dir,      \* dir[n]: the volume of that name, or 0
  asked,    \* how many requests were accepted
  queue,    \* tasks not finished, the first may be running: number and request
  pc,       \* where the worker is
  verdict,  \* success, as the operation returns it
  applied,  \* the changes of permissions that the task has made
  locked,   \* its lock file is there
  running, stopped, \* containers that run; stopped_containers
  warned,   \* containers that did not start again, in the log
  late,     \* tasks reported as failed that the remote side still works on
  cache,    \* size_cache[pool]
  listing,  \* missing_sizes of a listing under way
  todo,     \* volume_names the refresh thread has not come to
  measured, \* what it has measured and not stored: at most one name and size
  trace     \* trace[n]: volumes whose size the entry of n may show (history)

task == <<queue, pc, verdict, applied, locked>>
containers == <<running, stopped, warned>>
refresher == <<listing, todo, measured>>
vars == <<kind, dir, asked, task, containers, late, cache, refresher, trace>>

Number == queue[1][1]
Request == queue[1][2]

TypeOK ==
  /\ kind \in {"local", "helper", "rsync"}
  /\ dir \in [Names -> Sizes]
  /\ asked \in 0..MaxRequests
  /\ queue \in Seq(Ids \X Requests)
  /\ pc \in {"idle", "stop", "call", "mode", "owner", "forget", "finally"}
  /\ verdict \in BOOLEAN /\ locked \in BOOLEAN /\ applied \subseteq Changes
  /\ running \subseteq Containers /\ stopped \subseteq Containers /\ warned \subseteq Containers
  /\ late \subseteq Ids \X Requests
  /\ DOMAIN cache \subseteq Names /\ Range(cache) \subseteq Sizes
  /\ listing \subseteq Names /\ todo \subseteq Names
  /\ measured \subseteq Names \X Sizes
  /\ trace \in [Names -> SUBSET Ids]

Init ==
  /\ kind \in {"local", "helper", "rsync"}
  /\ \E N \in {{}} \cup {{n} : n \in Names} :
       /\ dir = [n \in Names |-> IF n \in N THEN 1 ELSE 0]
       /\ trace = [n \in Names |-> IF n \in N THEN {1} ELSE {}]
       /\ asked = IF N = {} THEN 0 ELSE 1
  /\ queue = <<>>
  /\ pc = "idle" /\ verdict = FALSE /\ applied = {} /\ locked = FALSE
  /\ running = Containers /\ stopped = {} /\ warned = {}
  /\ late = {} /\ cache = <<>>
  /\ listing = {} /\ todo = {} /\ measured = {}

----------------------------------------------------------------------------
(* The endpoints.  A volume of a local pool must be there for its           *)
(* permissions to be changed and for a delete; whether a backup or a        *)
(* confirmation lets the delete pass is not modelled.                       *)

Submit(r) ==
  /\ asked < MaxRequests /\ Len(queue) < MaxWaiting
  /\ r.op \in {"delete", "permissions"} /\ kind = "local" => dir[r.name] # 0
  /\ asked' = asked + 1
  /\ queue' = Append(queue, <<asked + 1, r>>)
  /\ UNCHANGED <<kind, dir, pc, verdict, applied, locked, containers, late, cache, refresher, trace>>

----------------------------------------------------------------------------
(* The pool's directory, wherever it is.                                   *)

\* Variant with a bug: a rename does not look whether the new name is taken.
PossibleUnchecked(r) ==
  CASE r.op = "create" -> dir[r.name] = 0
    [] r.op = "rename" -> dir[r.name] # 0
    [] r.op = "delete" -> dir[r.name] # 0
    [] OTHER -> FALSE

Possible(r) ==
  CASE r.op = "create" -> dir[r.name] = 0
    [] r.op = "rename" -> dir[r.name] # 0 /\ dir[r.to] = 0
    [] r.op = "delete" -> dir[r.name] # 0
    [] OTHER -> FALSE

Perform(i, r) ==
  /\ Possible(r)
  /\ dir' = CASE r.op = "create" -> [dir EXCEPT ![r.name] = i]
               [] r.op = "rename" -> [dir EXCEPT ![r.to] = dir[r.name], ![r.name] = 0]
               [] r.op = "delete" -> [dir EXCEPT ![r.name] = 0]
  /\ trace' = [n \in Names |-> trace[n] \cup ({dir'[n]} \ {0})]

\* A call that was given up takes effect, or it never arrived.
LateEffect(i, r) ==
  /\ <<i, r>> \in late
  /\ late' = late \ {<<i, r>>}
  /\ Perform(i, r) \/ UNCHANGED <<dir, trace>>
  /\ UNCHANGED <<kind, asked, task, containers, cache, refresher>>

----------------------------------------------------------------------------
(* The worker thread.                                                      *)

AfterStop(r) ==
  IF r.op # "permissions" THEN "call" ELSE IF "mode" \in r.change THEN "mode" ELSE "owner"

Step(from, to) ==
  /\ queue # <<>>
  /\ pc = from
  /\ pc' = to
  /\ UNCHANGED <<kind, asked, refresher>>

\* change_permissions takes the lock file before anything else.
Begin ==
  /\ Step("idle", IF Request.op # "create" /\ Request.stop THEN "stop" ELSE AfterStop(Request))
  /\ locked' = (Request.op = "permissions")
  /\ UNCHANGED <<dir, queue, verdict, applied, containers, late, cache, trace>>

Users == {k \in running : Mounts[k] = Request.name}

\* stop_running_containers.  Only change_permissions keeps the names it returns.
Stop ==
  /\ Step("stop", AfterStop(Request))
  /\ running' = running \ Users
  /\ stopped' = IF Request.op = "permissions" THEN Users ELSE {}
  /\ UNCHANGED <<dir, queue, verdict, applied, locked, warned, late, cache, trace>>

\* The containers cannot be listed: none is stopped.
ListFails ==
  /\ Step("stop", AfterStop(Request))
  /\ UNCHANGED <<dir, queue, verdict, applied, locked, containers, late, cache, trace>>

\* A container does not stop; those before it have, and their names are lost.
StopRaises ==
  /\ Step("stop", "finally")
  /\ \E down \in SUBSET Users : down # Users /\ running' = running \ down
  /\ UNCHANGED <<dir, queue, verdict, applied, locked, stopped, warned, late, cache, trace>>

\* rename_volume needs a v-helper in a remote pool, and so does create_volume.
Reached(r) == kind # "rsync" \/ r.op = "delete"

\* A local rename leaves the size cache alone.
Answered ==
  /\ Step("call", IF Request.op = "delete" \/ (Request.op = "rename" /\ kind = "helper")
                    THEN "forget" ELSE "finally")
  /\ Reached(Request)
  /\ Perform(Number, Request)
  /\ verdict' = TRUE
  /\ UNCHANGED <<queue, applied, locked, containers, late, cache>>

\* An rsync that finds nothing to delete ends well.
NothingToDelete ==
  /\ Step("call", "forget")
  /\ kind = "rsync" /\ Request.op = "delete" /\ dir[Request.name] = 0
  /\ verdict' = TRUE
  /\ UNCHANGED <<dir, queue, applied, locked, containers, late, cache, trace>>

\* Not there, already there, not reached, an error of the file system.
Refused ==
  /\ Step("call", "finally") \/ Step("mode", "finally") \/ Step("owner", "finally")
  /\ UNCHANGED <<dir, queue, verdict, applied, locked, containers, late, cache, trace>>

\* The timeout of the v-helper client (10 s) or of communicate (60 s).
Lost ==
  /\ Step("call", "finally") \/ Step("mode", "finally") \/ Step("owner", "finally")
  /\ kind # "local" /\ Reached(Request)
  /\ late' = late \cup {<<Number, Request>>}
  /\ UNCHANGED <<dir, queue, verdict, applied, locked, containers, cache, trace>>

\* chmod comes first, chown second (_permission_commands).
Apply(c) ==
  /\ pc = c /\ kind # "rsync" /\ dir[Request.name] # 0
  /\ IF c = "mode" /\ "owner" \in Request.change
       THEN Step("mode", "owner") /\ UNCHANGED verdict
       ELSE Step(c, "finally") /\ verdict' = TRUE
  /\ applied' = applied \cup {c}
  /\ UNCHANGED <<dir, queue, locked, containers, late, cache, trace>>

\* Nothing measured under this name waits to be stored.
Settled(n) == \A s \in Sizes : <<n, s>> \notin measured

Here(n) == {dir[n]} \ {0}

\* size_cache[pool][n] = s, in the cache c.
WithSize(c, n, s) == [m \in DOMAIN c \cup {n} |-> IF m = n THEN s ELSE c[m]]

\* Variant with a bug: the entry of a deleted volume stays.
ForgetNothing ==
  /\ Step("forget", "finally")
  /\ LET n == Request.name IN
       /\ cache' = cache
       /\ trace' = [trace EXCEPT ![n] = IF Settled(n) THEN Here(n) ELSE @]
  /\ UNCHANGED <<dir, queue, verdict, applied, locked, containers, late>>

\* A deleted volume loses its entry, a renamed one takes it along.
Forget ==
  /\ Step("forget", "finally")
  /\ LET n == Request.name
         left == Restrict(cache, DOMAIN cache \ {n})
         moves == Request.op = "rename" /\ n \in DOMAIN cache
         cleared == [trace EXCEPT ![n] = IF Settled(n) THEN Here(n) ELSE @]
     IN IF moves
          THEN /\ cache' = WithSize(left, Request.to, cache[n])
               /\ trace' = [cleared EXCEPT ![Request.to] = @ \cup trace[n]]
          ELSE cache' = left /\ trace' = cleared
  /\ UNCHANGED <<dir, queue, verdict, applied, locked, containers, late>>

\* Variant with a bug: a task that fails returns before the finally block.
FinishOnSuccess ==
  /\ Step("finally", "idle")
  /\ \E broken \in SUBSET stopped :
       IF Request.op = "permissions" /\ Request.start /\ verdict
         THEN running' = running \cup (stopped \ broken) /\ warned' = warned \cup broken
         ELSE UNCHANGED <<running, warned>>
  /\ queue' = Tail(queue)
  /\ stopped' = {} /\ locked' = FALSE /\ verdict' = FALSE /\ applied' = {}
  /\ UNCHANGED <<dir, late, cache, trace>>

\* The finally block of change_permissions, and complete_task.
Finish ==
  /\ Step("finally", "idle")
  /\ \E broken \in SUBSET stopped :
       IF Request.op = "permissions" /\ Request.start
         THEN running' = running \cup (stopped \ broken) /\ warned' = warned \cup broken
         ELSE UNCHANGED <<running, warned>>
  /\ queue' = Tail(queue)
  /\ stopped' = {} /\ locked' = FALSE /\ verdict' = FALSE /\ applied' = {}
  /\ UNCHANGED <<dir, late, cache, trace>>

WorkerNext ==
  \/ Begin \/ Stop \/ ListFails \/ StopRaises
  \/ Answered \/ NothingToDelete \/ Refused \/ Lost \/ (\E c \in Changes : Apply(c))
  \/ Forget \/ Finish

----------------------------------------------------------------------------
(* Listings, and the refresh thread.                                       *)

Missing == {n \in Names : dir[n] # 0 /\ n \notin DOMAIN cache}

aside == <<kind, dir, asked, task, containers, late, trace>>

\* list_volumes finds volumes without a size ...
List ==
  /\ listing = {} /\ Missing # {}
  /\ listing' = Missing
  /\ UNCHANGED <<aside, cache, todo, measured>>

Alive == todo # {} \/ measured # {}

\* ... and has them measured, unless the thread of a listing before it runs.
StartRefresh ==
  /\ listing # {}
  /\ listing' = {}
  /\ todo' = IF Alive THEN todo ELSE listing
  /\ UNCHANGED <<aside, cache, measured>>

\* Variant with a bug: a measurement that fails is left out.
MeasureOrSkip(n) ==
  /\ measured = {} /\ n \in todo
  /\ todo' = todo \ {n}
  /\ \/ dir[n] # 0 /\ measured' = {<<n, dir[n]>>}
     \/ (dir[n] = 0 \/ kind # "local") /\ measured' = {}
  /\ UNCHANGED <<aside, cache, listing>>

\* A local volume that is gone is left out.  A measurement that fails, or that a
\* delete overtakes, gives 0.
Measure(n) ==
  /\ measured = {} /\ n \in todo
  /\ todo' = todo \ {n}
  /\ \/ dir[n] # 0 /\ measured' = {<<n, dir[n]>>}
     \/ dir[n] = 0 /\ kind = "local" /\ measured' = {}
     \/ measured' = {<<n, 0>>}
  /\ UNCHANGED <<aside, cache, listing>>

Store ==
  /\ \E n \in Names, s \in Sizes :
       <<n, s>> \in measured /\ cache' = WithSize(cache, n, s)
  /\ measured' = {}
  /\ UNCHANGED <<aside, listing, todo>>

Next ==
  \/ \E r \in Asks : Submit(r)
  \/ \E i \in 1..asked, r \in Asks : LateEffect(i, r)
  \/ WorkerNext
  \/ List \/ StartRefresh \/ (\E n \in Names : Measure(n)) \/ Store

\* The web interface lists the pool every 2.5 seconds while a size is missing
\* (static/main.js, startVolumeSizePolling); the refresh thread is a thread.
Fairness ==
  /\ WF_vars(List) /\ WF_vars(StartRefresh)
  /\ WF_vars(\E n \in Names : Measure(n)) /\ WF_vars(Store)

Spec == Init /\ [][Next]_vars /\ Fairness

----------------------------------------------------------------------------
(* Properties.                                                             *)

\* A size that is shown was measured from the volume it is shown for, or could not
\* be measured, unless the name was another volume's before and its entry survived:
\* a local rename leaves it, a delete or rename whose answer was lost does, and so
\* does one that overtakes a measurement.
OwnSize ==
  \A n \in DOMAIN cache : trace[n] \subseteq {dir[n]} => cache[n] \in {0, dir[n]}

\* State invariant: the types, and that the size cache shows a volume's own size.
SizeInv == TypeOK /\ OwnSize

\* However a change of permissions ends, its lock file goes and the containers that
\* stop_running_containers returned are started again; and it is "completed" only
\* when every command it was asked for was run (change_permissions).
PermissionsRestore ==
  [][(pc = "finally" /\ pc' = "idle" /\ Request.op = "permissions") =>
       /\ ~locked'
       /\ Request.start => stopped \subseteq running' \cup warned'
       /\ verdict => applied = Request.change]_vars

\* A size that is being loaded is loaded some time, whatever tasks and listings do
\* meanwhile, unless the volume goes or loses its name again and again.
SizesSettle == \A n \in Names : []<>(dir[n] = 0 \/ n \in DOMAIN cache)

\* The pool changes as the requests say, each once, also when an answer is lost.
Promise == INSTANCE VolumePool WITH
  Requests <- Asks,
  open <- late \cup Range(IF pc \in {"forget", "finally"} THEN Tail(queue) ELSE queue)

ImplementsVolumePool == Promise!PoolSpec
=============================================================================
