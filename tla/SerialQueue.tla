---------------------------- MODULE SerialQueue ----------------------------
(***************************************************************************)
(* What the task queue promises to the endpoints that submit work          *)
(* (services/task_queue.py, submit and _worker_loop): a task is submitted  *)
(* once, the tasks begin in the order they were submitted, one at a time,  *)
(* and each at most once; one that was finalized while it waited is        *)
(* passed over.  A restart forgets the work that was waiting.              *)
(***************************************************************************)
EXTENDS Sequences

CONSTANTS Tasks, None

VARIABLES
  known,    \* tasks in the table
  waiting,  \* tasks submitted and not yet begun, oldest first
  current   \* the task that runs, or None

serialVars == <<known, waiting, current>>

SerialInit == known = {} /\ waiting = <<>> /\ current = None

Submit(t) ==
  /\ t \notin known
  /\ known' = known \cup {t}
  /\ waiting' = Append(waiting, t)
  /\ UNCHANGED current

Begin ==
  /\ current = None
  /\ waiting # <<>>
  /\ current' = Head(waiting)
  /\ waiting' = Tail(waiting)
  /\ UNCHANGED known

PassOver ==
  /\ current = None
  /\ waiting # <<>>
  /\ waiting' = Tail(waiting)
  /\ UNCHANGED <<known, current>>

End ==
  /\ current # None
  /\ current' = None
  /\ UNCHANGED <<known, waiting>>

Forget ==
  /\ known' \in SUBSET known
  /\ waiting' = <<>>
  /\ current' = None

SerialNext == (\E t \in Tasks : Submit(t)) \/ Begin \/ PassOver \/ End \/ Forget

SerialSpec == SerialInit /\ [][SerialNext]_serialVars
=============================================================================
