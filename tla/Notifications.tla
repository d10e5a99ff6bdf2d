---------------------------- MODULE Notifications ----------------------------
(***************************************************************************)
(* The notification configurations (services/notification_service.py), the *)
(* endpoints that change them, and the messages that a finalized task      *)
(* sends (notify_task_completion).                                         *)
(*                                                                         *)
(* Every finalized task has a thread of its own, and a second one when a   *)
(* cancel finalized it while the worker was about to start it: then it is  *)
(* started all the same and finalized again.  A thread takes the list of   *)
(* configurations once, and the list holds the dictionaries themselves:    *)
(* toggle changes one in place, update puts another in its place.  Sending *)
(* may take ten seconds for each configuration, and everything may happen  *)
(* meanwhile.                                                              *)
(*                                                                         *)
(* A job is one task, or the summary task of a batch and its sub-tasks.    *)
(***************************************************************************)
EXTENDS Naturals, Functions, FiniteSets

CONSTANTS
  Ids,          \* ids of configurations
  Forms,        \* what the endpoints are sent: topics and on_failure_only
  Types,        \* types of tasks, without the prefix "bulk_", which a topic ignores
  Jobs,         \* jobs
  Items,        \* the sub-tasks of a job, when it is a batch
  MaxVersions,  \* bound on the dictionaries made for one configuration
  MaxChanges,   \* bound on the requests that change configurations
  MaxRestarts   \* bound on restarts

\* _ITEM_TOPICS, and the topics of the form.
ItemTopics == {"backup", "migrate", "restore", "delete", "rename", "create", "permissions"}
Topics == ItemTopics \cup {"schedule"}

ASSUME NotificationsAssumption ==
  /\ "summary" \notin Items
  /\ Forms \subseteq [topics : SUBSET Topics, onFailureOnly : BOOLEAN]
  /\ Types \subseteq ItemTopics \cup {"scheduled_backup"}
  /\ MaxVersions \in Nat \ {0} /\ MaxChanges \in Nat /\ MaxRestarts \in Nat

Status == {"completed", "failed", "cancelled"}
Parts == Items \cup {"summary"}

\* The ends of tasks: a job, a task of it, and whether this is its first or second end.
Ends == Jobs \X Parts \X {1, 2}
Round(x) == <<x[1], x[3]>>

\* A dictionary: the configuration it is for, and which of those made for it.
Refs == Ids \X (1..MaxVersions)

Contents == [form : Forms, enabled : BOOLEAN]

VARIABLES
  heap,      \* heap[r]: what the dictionary holds; a partial function
  configs,   \* _configs: the dictionary of each configuration; a partial function
  file,      \* vshipper_notifications.json; a partial function
  threads,   \* the threads of finalized tasks: topic, status, dictionaries to come,
             \* the one that a message is being sent for, the task may end again
  sent,      \* sent[<<j, n>>][c]: messages for the n-th ends of the tasks of a job that
             \* a configuration was sent (history)
  unsaved,   \* the last _save failed (history)
  edited,    \* configurations updated or deleted since a task ended (history)
  changes, restarts

store == <<heap, configs, file, unsaved>>
bounds == <<changes, restarts>>
vars == <<store, threads, sent, edited, bounds>>

Init ==
  /\ heap = <<>> /\ configs = <<>> /\ file = <<>> /\ unsaved = FALSE
  /\ threads = <<>>
  /\ sent = [q \in Jobs \X {1, 2} |-> [c \in Ids |-> 0]]
  /\ edited = [x \in Ends |-> {}]
  /\ changes = 0 /\ restarts = 0

Thread ==
  [topic : Topics, status : Status, todo : SUBSET Refs, at : SUBSET Refs, again : BOOLEAN]

TypeOK ==
  /\ DOMAIN heap \subseteq Refs /\ Range(heap) \subseteq Contents
  /\ DOMAIN configs \subseteq Ids /\ \A c \in DOMAIN configs : configs[c] \in DOMAIN heap
  /\ DOMAIN file \subseteq Ids /\ Range(file) \subseteq Contents
  /\ DOMAIN threads \subseteq Ends /\ Range(threads) \subseteq Thread
  /\ sent \in [Jobs \X {1, 2} -> [Ids -> Nat]]
  /\ edited \in [Ends -> SUBSET Ids]
  /\ unsaved \in BOOLEAN
  /\ changes \in 0..MaxChanges /\ restarts \in 0..MaxRestarts

----------------------------------------------------------------------------
(* The endpoints, each under the service's lock.                           *)

\* d[k] = v, for a dictionary d of the program.
With(d, k, v) == [x \in DOMAIN d \cup {k} |-> IF x = k THEN v ELSE d[x]]

\* _save of configurations k in dictionaries h.  A failure is logged; the file may
\* have been truncated by then, and is then read as no configurations.
Save(k, h) ==
  \/ file' = [c \in DOMAIN k |-> h[k[c]]] /\ unsaved' = FALSE
  \/ file' \in {file, <<>>} /\ unsaved' = TRUE

Change ==
  /\ changes < MaxChanges
  /\ changes' = changes + 1
  /\ UNCHANGED restarts

Put(c, content) ==
  /\ \E v \in 1..MaxVersions :
       /\ v = 1 + Cardinality({r \in DOMAIN heap : r[1] = c})
       /\ heap' = With(heap, <<c, v>>, content)
       /\ configs' = With(configs, c, <<c, v>>)
  /\ Save(configs', heap')

Edit(c) == edited' = [x \in DOMAIN edited |->
                        IF x \in DOMAIN threads THEN edited[x] \cup {c} ELSE edited[x]]

Create(c, form) ==
  /\ Change /\ \A r \in DOMAIN heap : r[1] # c
  /\ Put(c, [form |-> form, enabled |-> TRUE])
  /\ UNCHANGED <<threads, sent, edited>>

\* Variant with a bug: the form's default is taken, not what was stored.
UpdateEnabling(c, form) ==
  /\ Change /\ c \in DOMAIN configs
  /\ Put(c, [form |-> form, enabled |-> TRUE])
  /\ Edit(c)
  /\ UNCHANGED <<threads, sent>>

\* A new dictionary; "enabled", which the form does not have, is kept.
Update(c, form) ==
  /\ Change /\ c \in DOMAIN configs
  /\ Put(c, [form |-> form, enabled |-> heap[configs[c]].enabled])
  /\ Edit(c)
  /\ UNCHANGED <<threads, sent>>

Delete(c) ==
  /\ Change /\ c \in DOMAIN configs
  /\ configs' = Restrict(configs, DOMAIN configs \ {c})
  /\ Save(configs', heap)
  /\ Edit(c)
  /\ UNCHANGED <<heap, threads, sent>>

\* Variant with a bug: the new state is put into a copy of the dictionary.
ToggleCopy(c) ==
  /\ Change /\ c \in DOMAIN configs
  /\ Put(c, [heap[configs[c]] EXCEPT !.enabled = ~@])
  /\ UNCHANGED <<threads, sent, edited>>

\* The dictionary is changed in place.
Toggle(c) ==
  /\ Change /\ c \in DOMAIN configs
  /\ heap' = [heap EXCEPT ![configs[c]].enabled = ~@]
  /\ Save(configs, heap')
  /\ UNCHANGED <<configs, threads, sent, edited>>

\* _load.  The threads are gone, and with them their messages; so is the work queue.
Restart ==
  /\ restarts < MaxRestarts
  /\ restarts' = restarts + 1
  /\ configs' = [c \in DOMAIN file |-> <<c, 1>>]
  /\ heap' = [r \in {<<c, 1>> : c \in DOMAIN file} |-> file[r[1]]]
  /\ threads' = [x \in DOMAIN threads |-> [threads[x] EXCEPT !.todo = {}, !.at = {}, !.again = FALSE]]
  /\ unsaved' = FALSE
  /\ UNCHANGED <<file, sent, edited, changes>>

----------------------------------------------------------------------------
(* The messages.                                                           *)

\* Variant with a bug: sub-tasks report themselves, too.
TopicsOfEvery(part, type) ==
  IF type = "scheduled_backup" THEN {"schedule"} ELSE {type} \cap ItemTopics

\* _task_to_topic: sub-tasks are reported by their summary.
TopicsOf(part, type) ==
  IF part # "summary" THEN {}
  ELSE IF type = "scheduled_backup" THEN {"schedule"} ELSE {type} \cap ItemTopics

\* _fire_notification, at the n-th end of a task.
Fire(j, part, n, topic, status) ==
  /\ <<j, part, n>> \notin DOMAIN threads
  /\ threads' = With(threads, <<j, part, n>>,
                     [topic |-> topic, status |-> status, todo |-> Range(configs), at |-> {},
                      again |-> n = 1 /\ status = "cancelled"])
  /\ UNCHANGED <<store, sent, edited, bounds>>

\* A task is finalized.  Of a scheduled run, the sub-tasks are of type backup.
Finalized(j, part, type, status) ==
  \E topics \in {TopicsOf(part, IF part # "summary" /\ type = "scheduled_backup"
                                  THEN "backup" ELSE type)} :
    \E topic \in topics : Fire(j, part, 1, topic, status)

\* Variant with a bug: a task that was started comes to its end twice.
FinalizedTwice(j, part, status) ==
  /\ <<j, part, 1>> \in DOMAIN threads
  /\ Fire(j, part, 2, threads[<<j, part, 1>>].topic, status)

\* The worker had found the task pending before the cancel finalized it; start_task makes
\* it running and it is finalized again.
FinalizedAgain(j, part, status) ==
  /\ <<j, part, 1>> \in DOMAIN threads /\ threads[<<j, part, 1>>].again
  /\ Fire(j, part, 2, threads[<<j, part, 1>>].topic, status)

Wants(r, th) ==
  /\ heap[r].enabled
  /\ th.topic \in heap[r].form.topics
  /\ heap[r].form.onFailureOnly => th.status = "failed"

\* The next configuration of the list is looked at; if it wants the message, that
\* is built and on its way.
Consider(x, r) ==
  /\ x \in DOMAIN threads /\ threads[x].at = {} /\ r \in threads[x].todo
  /\ threads' = [threads EXCEPT ![x].todo = @ \ {r},
                                ![x].at = IF Wants(r, threads[x]) THEN {r} ELSE {}]
  /\ UNCHANGED <<store, sent, edited, bounds>>

\* Variant with a bug: a failure ends the thread.
SendRaises(x, r) ==
  /\ x \in DOMAIN threads /\ r \in threads[x].at
  /\ \/ threads' = [threads EXCEPT ![x].at = {}]
     \/ threads' = [threads EXCEPT ![x].at = {}, ![x].todo = {}]
  /\ sent' = [sent EXCEPT ![Round(x)][r[1]] = @ + 1]
  /\ UNCHANGED <<store, edited, bounds>>

\* _send: whatever comes of it, the next configuration has its turn.
Send(x, r) ==
  /\ x \in DOMAIN threads /\ r \in threads[x].at
  /\ threads' = [threads EXCEPT ![x].at = {}]
  /\ sent' = [sent EXCEPT ![Round(x)][r[1]] = @ + 1]
  /\ UNCHANGED <<store, edited, bounds>>

Dispatch(x) ==
  /\ x \in DOMAIN threads
  /\ \E r \in threads[x].todo \cup threads[x].at : Consider(x, r) \/ Send(x, r)

Next ==
  \/ \E c \in Ids, form \in Forms : Create(c, form) \/ Update(c, form)
  \/ \E c \in Ids : Delete(c) \/ Toggle(c)
  \/ Restart
  \/ \E j \in Jobs, part \in Parts, type \in Types, status \in Status :
       Finalized(j, part, type, status)
  \/ \E j \in Jobs, part \in Parts, status \in Status : FinalizedAgain(j, part, status)
  \/ \E x \in Ends : Dispatch(x)

\* A thread of a finalized task goes on: a send gives up when the server is silent for
\* ten seconds.
Fairness == \A x \in Ends : WF_vars(Dispatch(x))

Spec == Init /\ [][Next]_vars /\ Fairness

----------------------------------------------------------------------------
(* Properties.                                                             *)

\* A configuration is sent one message for a job: one for a batch, not one for each
\* of its items, and none again when the answer is lost.  It is sent a second one only
\* when a cancel had finalized the job's task before it was started.
OneMessageEach ==
  \A j \in Jobs, c \in Ids :
    /\ sent[<<j, 1>>][c] <= 1
    /\ sent[<<j, 2>>][c] <= 1
    /\ sent[<<j, 2>>][c] = 1 =>
         <<j, "summary", 1>> \in DOMAIN threads /\ threads[<<j, "summary", 1>>].status = "cancelled"

\* State invariant: the types, and that notify_task_completion sends one message.
MessageInv == TypeOK /\ OneMessageEach

\* Once the toggle that disables a configuration is answered no message for it is
\* begun, not even by a thread that took the list before, unless the configuration
\* was edited or deleted after that: then the thread has the dictionary of before.
QuietAfterToggle ==
  [][\A x \in DOMAIN threads \cap DOMAIN threads', c \in Ids :
       (/\ threads[x].at = {} /\ \E r \in threads'[x].at : r[1] = c
        /\ c \notin edited[x])
         => c \in DOMAIN configs /\ heap[configs[c]].enabled]_vars

\* An edit does not switch on what was switched off, and a restart has what was
\* answered before, unless it could not be saved.
StaysAsSet ==
  [][\A c \in DOMAIN configs :
       /\ (c \in DOMAIN configs' /\ configs'[c] # configs[c] /\ restarts' = restarts)
            => heap'[configs'[c]].enabled = heap[configs[c]].enabled
       /\ (restarts' # restarts /\ ~unsaved)
            => c \in DOMAIN configs' /\ heap'[configs'[c]] = heap[configs[c]]]_vars

Enabled(r) == r \in DOMAIN heap /\ heap[r].enabled

\* A configuration that wants the message of a finalized task is sent it, whatever
\* comes of the messages to the others, unless it is disabled or the program ends.
EveryoneTold ==
  \A x \in Jobs \X {"summary"} \X {1, 2}, r \in Refs :
    (x \in DOMAIN threads /\ r \in threads[x].todo /\ Wants(r, threads[x]))
      ~> (sent[Round(x)][r[1]] > 0 \/ restarts > 0 \/ ~Enabled(r))
=============================================================================
