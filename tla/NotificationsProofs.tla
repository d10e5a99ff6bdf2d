------------------------ MODULE NotificationsProofs ------------------------
(***************************************************************************)
(* Proofs about Notifications, for every set of configurations, forms,     *)
(* types of tasks, jobs and items, and every bound.                        *)
(*                                                                         *)
(* IInv says of which dictionaries a thread still has to look at one: they *)
(* are the current ones of their configurations, but for those edited      *)
(* since; none was sent a message; only summaries have threads.  And it    *)
(* says that the file holds what the dictionaries do, unless the last save *)
(* failed.  The last part shows that nobody who is to be told is forgotten *)
(* on the way.                                                             *)
(***************************************************************************)
EXTENDS Notifications, FiniteSetTheorems, TLAPS

USE NotificationsAssumption

\* The current dictionary of a configuration is one made for it.
ConfigsInv == \A c \in DOMAIN configs : configs[c][1] = c

\* What a thread has still to look at is current, or was edited since it started.
CurrentInv ==
  \A x \in DOMAIN threads : \A r \in threads[x].todo :
    r[1] \in edited[x] \/ (r[1] \in DOMAIN configs /\ configs[r[1]] = r)

\* The file holds what the dictionaries do.
SavedInv ==
  ~unsaved => DOMAIN file = DOMAIN configs /\ \A c \in DOMAIN configs : file[c] = heap[configs[c]]

\* A job has one thread, or a second one once the first end was a cancel, and a
\* configuration has one turn in each.
UnsentInv ==
  \A x \in Ends : x[2] = "summary" /\ x \notin DOMAIN threads => \A c \in Ids : sent[Round(x)][c] = 0
TurnInv(x) ==
  /\ \A r, q \in threads[x].todo \cup threads[x].at : r[1] = q[1] => r = q
  /\ threads[x].todo \cap threads[x].at = {}
  /\ \A r \in threads[x].todo \cup threads[x].at : sent[Round(x)][r[1]] = 0
AgainInv(x) ==
  /\ threads[x].again => threads[x].status = "cancelled"
  /\ x[3] = 2 => /\ <<x[1], "summary", 1>> \in DOMAIN threads
                 /\ threads[<<x[1], "summary", 1>>].status = "cancelled"
OnceInv ==
  /\ \A x \in DOMAIN threads : x[2] = "summary" /\ TurnInv(x) /\ AgainInv(x)
  /\ UnsentInv

IInv == TypeOK /\ ConfigsInv /\ CurrentInv /\ SavedInv /\ OnceInv /\ OneMessageEach

\* What holds of the values of a partial function, one by one.
LEMMA RangeFacts ==
  ASSUME NEW f, NEW S
  PROVE  Range(f) \subseteq S <=> \A x \in DOMAIN f : f[x] \in S
  BY DEF Range

\* The type invariant, with the values one by one.
Types1 ==
  /\ DOMAIN heap \subseteq Refs /\ \A r \in DOMAIN heap : heap[r] \in Contents
  /\ DOMAIN configs \subseteq Ids /\ \A c \in DOMAIN configs : configs[c] \in DOMAIN heap
  /\ DOMAIN file \subseteq Ids /\ \A c \in DOMAIN file : file[c] \in Contents
  /\ DOMAIN threads \subseteq Ends /\ \A x \in DOMAIN threads : threads[x] \in Thread
  /\ sent \in [Jobs \X {1, 2} -> [Ids -> Nat]]
  /\ edited \in [Ends -> SUBSET Ids]
  /\ unsaved \in BOOLEAN
  /\ changes \in 0..MaxChanges /\ restarts \in 0..MaxRestarts

LEMMA TypeFacts == TypeOK <=> Types1
  BY RangeFacts DEF TypeOK, Types1

LEMMA NextTypeFacts == Types1' => TypeOK'
  BY RangeFacts DEF TypeOK, Types1

\* A thread's dictionaries are dictionaries.
LEMMA DispatchFacts ==
  ASSUME Types1, NEW x \in Ends, Dispatch(x)
  PROVE  \E r \in Refs : Consider(x, r) \/ Send(x, r)
<1>1. PICK r \in threads[x].todo \cup threads[x].at : Consider(x, r) \/ Send(x, r)
  BY DEF Dispatch
<1>2. r \in Refs
  BY <1>1 DEF Dispatch, Types1, Thread
<1> QED
  BY <1>1, <1>2

LEMMA InitIInv == Init => IInv
<1> SUFFICES ASSUME Init PROVE IInv
  OBVIOUS
<1> USE DEF Init
<1>1. DOMAIN heap = {} /\ DOMAIN configs = {} /\ DOMAIN file = {} /\ DOMAIN threads = {}
  OBVIOUS
<1>2. Types1
  <2>1. sent \in [Jobs \X {1, 2} -> [Ids -> Nat]] /\ edited \in [Ends -> SUBSET Ids]
    OBVIOUS
  <2>2. changes \in 0..MaxChanges /\ restarts \in 0..MaxRestarts
    OBVIOUS
  <2>3. unsaved \in BOOLEAN
    OBVIOUS
  <2> QED
    BY ONLY <1>1, <2>1, <2>2, <2>3 DEF Types1
<1>3. ConfigsInv /\ CurrentInv /\ SavedInv
  BY <1>1 DEF ConfigsInv, CurrentInv, SavedInv
<1>4. OnceInv /\ OneMessageEach
  BY <1>1 DEF OnceInv, UnsentInv, Ends, Round, OneMessageEach
<1> QED
  BY <1>2, <1>3, <1>4, TypeFacts DEF IInv

-----------------------------------------------------------------------------
(* The endpoints.                                                            *)

\* What a save leaves: the file is of the types, and up to date unless it failed.
LEMMA SaveFacts ==
  ASSUME Types1, Save(configs', heap'),
         DOMAIN configs' \subseteq Ids,
         \A c \in DOMAIN configs' : heap'[configs'[c]] \in Contents
  PROVE  /\ DOMAIN file' \subseteq Ids /\ \A c \in DOMAIN file' : file'[c] \in Contents
         /\ unsaved' \in BOOLEAN
         /\ SavedInv'
<1>1. CASE file' = [c \in DOMAIN configs' |-> heap'[configs'[c]]] /\ unsaved' = FALSE
  BY <1>1 DEF SavedInv
<1>2. CASE file' \in {file, <<>>} /\ unsaved' = TRUE
  BY <1>2 DEF SavedInv, Types1
<1> QED
  BY <1>1, <1>2 DEF Save

\* A configuration gets a new dictionary.
LEMMA PutFacts ==
  ASSUME Types1, ConfigsInv, NEW c \in Ids, NEW content \in Contents, Put(c, content)
  PROVE  /\ DOMAIN heap' \subseteq Refs
         /\ DOMAIN configs' = DOMAIN configs \cup {c}
         /\ heap'[configs'[c]] = content
         /\ \A d \in DOMAIN configs : d # c => configs'[d] = configs[d]
         /\ \A r \in DOMAIN heap' : heap'[r] \in Contents
         /\ \A d \in DOMAIN configs' : configs'[d] \in DOMAIN heap'
         /\ ConfigsInv'
         /\ DOMAIN file' \subseteq Ids /\ \A d \in DOMAIN file' : file'[d] \in Contents
         /\ unsaved' \in BOOLEAN
         /\ SavedInv'
<1>1. PICK v \in 1..MaxVersions : /\ heap' = With(heap, <<c, v>>, content)
                                  /\ configs' = With(configs, c, <<c, v>>)
  BY DEF Put
<1>2. <<c, v>> \in Refs /\ <<c, v>>[1] = c
  BY DEF Refs
<1> DEFINE r == <<c, v>>
<1>5. r \in Refs /\ r[1] = c /\ heap' = With(heap, r, content) /\ configs' = With(configs, c, r)
  BY <1>1, <1>2
<1> HIDE DEF r
<1>3. /\ DOMAIN heap' = DOMAIN heap \cup {r} /\ heap'[r] = content
      /\ \A q \in DOMAIN heap : q # r => heap'[q] = heap[q]
  BY <1>5 DEF With
<1>4. /\ DOMAIN configs' = DOMAIN configs \cup {c} /\ configs'[c] = r
      /\ \A d \in DOMAIN configs : d # c => configs'[d] = configs[d]
  BY <1>5 DEF With
<1>6. \A q \in DOMAIN heap' : heap'[q] \in Contents
  BY <1>3 DEF Types1
<1>7. \A d \in DOMAIN configs' : configs'[d] \in DOMAIN heap'
  BY <1>3, <1>4 DEF Types1
<1>8. ConfigsInv'
  BY <1>4, <1>5 DEF ConfigsInv
<1>9. Save(configs', heap') /\ DOMAIN configs' \subseteq Ids
  BY <1>4 DEF Put, Types1
<1>10. /\ DOMAIN file' \subseteq Ids /\ \A d \in DOMAIN file' : file'[d] \in Contents
       /\ unsaved' \in BOOLEAN /\ SavedInv'
  BY <1>6, <1>7, <1>9, SaveFacts
<1>11. DOMAIN heap' \subseteq Refs
  BY <1>3, <1>5 DEF Types1
<1> QED
  BY <1>3, <1>4, <1>6, <1>7, <1>8, <1>10, <1>11

\* What update, toggle and create leave of the invariant, without the threads.
StoreInv ==
  /\ DOMAIN heap \subseteq Refs /\ \A r \in DOMAIN heap : heap[r] \in Contents
  /\ DOMAIN configs \subseteq Ids /\ \A c \in DOMAIN configs : configs[c] \in DOMAIN heap
  /\ DOMAIN file \subseteq Ids /\ \A c \in DOMAIN file : file[c] \in Contents
  /\ unsaved \in BOOLEAN
  /\ changes \in 0..MaxChanges /\ restarts \in 0..MaxRestarts
  /\ ConfigsInv /\ SavedInv

LEMMA ChangeFacts ==
  ASSUME Types1, Change
  PROVE  changes' \in 0..MaxChanges /\ restarts' = restarts /\ restarts' \in 0..MaxRestarts
  BY DEF Change, Types1

LEMMA PutStore ==
  ASSUME Types1, ConfigsInv, NEW c \in Ids, NEW content \in Contents, Put(c, content), Change
  PROVE  StoreInv'
<1>1. /\ DOMAIN heap' \subseteq Refs /\ \A r \in DOMAIN heap' : heap'[r] \in Contents
      /\ DOMAIN configs' = DOMAIN configs \cup {c} /\ \A d \in DOMAIN configs' : configs'[d] \in DOMAIN heap'
      /\ DOMAIN file' \subseteq Ids /\ \A d \in DOMAIN file' : file'[d] \in Contents
      /\ unsaved' \in BOOLEAN /\ SavedInv' /\ ConfigsInv'
  BY PutFacts
<1>2. DOMAIN configs \subseteq Ids
  BY DEF Types1
<1>3. changes' \in 0..MaxChanges /\ restarts' \in 0..MaxRestarts
  BY ChangeFacts
<1> QED
  BY <1>1, <1>2, <1>3 DEF StoreInv

\* edited after a request for configuration c.
LEMMA EditFacts ==
  ASSUME Types1, NEW c \in Ids, Edit(c)
  PROVE  /\ edited' \in [Ends -> SUBSET Ids]
         /\ \A x \in Ends : edited[x] \subseteq edited'[x]
         /\ \A x \in DOMAIN threads : c \in edited'[x]
  BY DEF Edit, Types1

LEMMA CreateStep ==
  ASSUME Types1, IInv, NEW c \in Ids, NEW form \in Forms, Create(c, form)
  PROVE  StoreInv' /\ CurrentInv' /\ UNCHANGED <<threads, sent, edited>>
<1>1. [form |-> form, enabled |-> TRUE] \in Contents
  BY DEF Contents
<1>2. /\ Put(c, [form |-> form, enabled |-> TRUE]) /\ Change /\ \A r \in DOMAIN heap : r[1] # c
      /\ UNCHANGED <<threads, sent, edited>>
  BY DEF Create
<1>3. StoreInv'
  BY <1>1, <1>2, PutStore DEF IInv
<1>4. c \notin DOMAIN configs
  BY <1>2 DEF IInv, ConfigsInv, Types1
<1>5. \A d \in DOMAIN configs : d \in DOMAIN configs' /\ configs'[d] = configs[d]
  BY <1>1, <1>2, <1>4, PutFacts DEF IInv
<1>6. CurrentInv'
  BY <1>2, <1>5 DEF IInv, CurrentInv
<1> QED
  BY <1>2, <1>3, <1>6

LEMMA UpdateStep ==
  ASSUME Types1, IInv, NEW c \in Ids, NEW form \in Forms, Update(c, form)
  PROVE  /\ StoreInv' /\ CurrentInv' /\ UNCHANGED <<threads, sent>>
         /\ edited' \in [Ends -> SUBSET Ids]
<1> DEFINE content == [form |-> form, enabled |-> heap[configs[c]].enabled]
<1>1. content \in Contents
  BY DEF Contents, Update, Types1
<1> HIDE DEF content
<1>2. Put(c, content) /\ Change /\ Edit(c) /\ c \in DOMAIN configs /\ UNCHANGED <<threads, sent>>
  BY DEF Update, content
<1>3. StoreInv'
  BY <1>1, <1>2, PutStore DEF IInv
<1>4. \A d \in DOMAIN configs : d # c => d \in DOMAIN configs' /\ configs'[d] = configs[d]
  BY <1>1, <1>2, PutFacts DEF IInv
<1>5. CurrentInv'
  BY <1>2, <1>4, EditFacts DEF IInv, CurrentInv, Types1
<1> QED
  BY <1>2, <1>3, <1>5, EditFacts

LEMMA DeleteStep ==
  ASSUME Types1, IInv, NEW c \in Ids, Delete(c)
  PROVE  /\ StoreInv' /\ CurrentInv' /\ UNCHANGED <<threads, sent>>
         /\ edited' \in [Ends -> SUBSET Ids]
<1>1. /\ configs' = Restrict(configs, DOMAIN configs \ {c}) /\ Save(configs', heap) /\ Edit(c) /\ Change
      /\ UNCHANGED <<heap, threads, sent>>
  BY DEF Delete
<1>2. DOMAIN configs' = DOMAIN configs \ {c} /\ \A d \in DOMAIN configs' : configs'[d] = configs[d]
  BY <1>1 DEF Restrict
<1>3. Save(configs', heap') /\ DOMAIN configs' \subseteq Ids /\ \A d \in DOMAIN configs' : heap'[configs'[d]] \in Contents
  BY <1>1, <1>2 DEF Types1
<1>4. StoreInv'
  BY <1>1, <1>2, <1>3, SaveFacts, ChangeFacts DEF StoreInv, IInv, Types1, ConfigsInv
<1>5. CurrentInv'
  <2>1. \A x \in DOMAIN threads : edited[x] \subseteq edited'[x] /\ c \in edited'[x]
    BY <1>1, EditFacts DEF Types1
  <2>2. \A d \in DOMAIN configs : d # c => d \in DOMAIN configs' /\ configs'[d] = configs[d]
    BY <1>2
  <2> QED
    BY <1>1, <2>1, <2>2 DEF IInv, CurrentInv
<1> QED
  BY <1>1, <1>4, <1>5, EditFacts

LEMMA ToggleStep ==
  ASSUME Types1, IInv, NEW c \in Ids, Toggle(c)
  PROVE  StoreInv' /\ CurrentInv' /\ UNCHANGED <<threads, sent, edited>>
<1>1. /\ heap' = [heap EXCEPT ![configs[c]].enabled = ~@] /\ Save(configs, heap') /\ Change
      /\ c \in DOMAIN configs /\ UNCHANGED <<configs, threads, sent, edited>>
  BY DEF Toggle
<1>2. DOMAIN heap' = DOMAIN heap /\ \A r \in DOMAIN heap' : heap'[r] \in Contents
  <2>1. configs[c] \in DOMAIN heap /\ heap[configs[c]] \in Contents
    BY <1>1 DEF Types1
  <2>2. [heap[configs[c]] EXCEPT !.enabled = ~@] \in Contents
    BY <2>1 DEF Contents
  <2>3. heap' = [heap EXCEPT ![configs[c]] = [heap[configs[c]] EXCEPT !.enabled = ~@]]
    BY <1>1
  <2> QED
    BY <2>1, <2>2, <2>3 DEF Types1
<1>3. Save(configs', heap') /\ DOMAIN configs' \subseteq Ids /\ \A d \in DOMAIN configs' : heap'[configs'[d]] \in Contents
  BY <1>1, <1>2 DEF Types1
<1>4. StoreInv'
  BY <1>1, <1>2, <1>3, SaveFacts, ChangeFacts DEF StoreInv, IInv, Types1, ConfigsInv
<1>5. CurrentInv'
  BY <1>1 DEF IInv, CurrentInv
<1> QED
  BY <1>1, <1>4, <1>5

\* A restart has the file's configurations, and no thread goes on.
LEMMA RestartStep ==
  ASSUME Types1, IInv, Restart
  PROVE  /\ StoreInv' /\ CurrentInv' /\ UNCHANGED <<sent, edited>>
         /\ DOMAIN threads' = DOMAIN threads
         /\ \A x \in DOMAIN threads : threads'[x] \in Thread /\ threads'[x].todo = {} /\ threads'[x].at = {}
              /\ threads'[x].status = threads[x].status /\ ~threads'[x].again
<1>1. /\ configs' = [c \in DOMAIN file |-> <<c, 1>>]
      /\ heap' = [r \in {<<c, 1>> : c \in DOMAIN file} |-> file[r[1]]]
      /\ threads' = [x \in DOMAIN threads |-> [threads[x] EXCEPT !.todo = {}, !.at = {}, !.again = FALSE]]
      /\ unsaved' = FALSE /\ UNCHANGED <<file, sent, edited, changes>>
      /\ restarts < MaxRestarts /\ restarts' = restarts + 1
  BY DEF Restart
<1>2. 1 \in 1..MaxVersions /\ restarts' \in 0..MaxRestarts
  <2>1. restarts \in 0..MaxRestarts
    BY DEF Types1
  <2>0. MaxRestarts \in Nat
    BY NotificationsAssumption
  <2>2. restarts' \in 0..MaxRestarts
    <3>1. restarts < MaxRestarts /\ restarts' = restarts + 1
      BY <1>1
    <3> QED
      BY ONLY <2>0, <2>1, <3>1
  <2> QED
    BY ONLY <2>2, NotificationsAssumption
<1>3. DOMAIN heap' \subseteq Refs /\ \A r \in DOMAIN heap' : heap'[r] \in Contents
  <2>1. DOMAIN heap' = {<<c, 1>> : c \in DOMAIN file}
    BY <1>1
  <2>2. \A c \in DOMAIN file : <<c, 1>> \in Refs
    BY <1>2 DEF Types1, Refs
  <2>3. \A c \in DOMAIN file : heap'[<<c, 1>>] = file[c] /\ file[c] \in Contents
    BY <1>1 DEF Types1
  <2> QED
    BY <2>1, <2>2, <2>3
<1>4. /\ DOMAIN configs' = DOMAIN file
      /\ \A c \in DOMAIN configs' : configs'[c] \in DOMAIN heap' /\ configs'[c][1] = c /\ file'[c] = heap'[configs'[c]]
  BY <1>1
<1>5. /\ DOMAIN threads' = DOMAIN threads
      /\ \A x \in DOMAIN threads : threads'[x] \in Thread /\ threads'[x].todo = {} /\ threads'[x].at = {}
              /\ threads'[x].status = threads[x].status /\ ~threads'[x].again
  BY <1>1 DEF Types1, Thread
<1>6. StoreInv'
  <2>1. ConfigsInv' /\ SavedInv'
    BY <1>1, <1>4 DEF ConfigsInv, SavedInv
  <2> QED
    BY <1>1, <1>2, <1>3, <1>4, <2>1 DEF StoreInv, Types1
<1>7. CurrentInv'
  BY <1>5 DEF CurrentInv
<1> QED
  BY <1>1, <1>5, <1>6, <1>7

-----------------------------------------------------------------------------
(* The messages.                                                             *)

\* A thread for the end of a job's task; for a second end, after a cancel.
LEMMA FireStep ==
  ASSUME Types1, IInv, NEW j \in Jobs, NEW n \in {1, 2}, NEW topic \in Topics, NEW st \in Status,
         Fire(j, "summary", n, topic, st),
         n = 2 => <<j, "summary", 1>> \in DOMAIN threads /\ threads[<<j, "summary", 1>>].status = "cancelled"
  PROVE  IInv'
<1> DEFINE y == <<j, "summary", n>>
           th == [topic |-> topic, status |-> st, todo |-> Range(configs), at |-> {},
                  again |-> n = 1 /\ st = "cancelled"]
<1>2. <<j, "summary", n>> \notin DOMAIN threads /\ UNCHANGED <<store, sent, edited, bounds>>
  BY DEF Fire
<1>3. y \in Ends /\ y[2] = "summary" /\ y[1] = j /\ y[3] = n /\ y = <<j, "summary", n>> /\ Round(y) = <<j, n>>
  BY DEF Ends, Parts, Round
<1>4. Range(configs) \subseteq Refs /\ \A r \in Range(configs) : r[1] \in DOMAIN configs /\ configs[r[1]] = r /\ r[1] \in Ids
  BY DEF Range, Types1, IInv, ConfigsInv
<1>5. /\ th \in Thread /\ th.todo = Range(configs) /\ th.at = {} /\ th.status = st
      /\ th.again => th.status = "cancelled"
  BY <1>4 DEF Thread
<1>b. threads' = With(threads, y, th) /\ y \notin DOMAIN threads
  BY <1>2 DEF Fire
<1> HIDE DEF y, th
<1>6. /\ DOMAIN threads' = DOMAIN threads \cup {y} /\ threads'[y] = th
      /\ \A x \in DOMAIN threads : threads'[x] = threads[x]
  BY <1>b DEF With
<1>7. Types1'
  BY <1>2, <1>3, <1>5, <1>6 DEF Types1, store, bounds
<1>8. ConfigsInv' /\ SavedInv'
  BY <1>2 DEF IInv, ConfigsInv, SavedInv, store
<1>11. OneMessageEach'
  BY <1>2, <1>6 DEF IInv, OneMessageEach
<1>9. CurrentInv'
  BY <1>2, <1>4, <1>5, <1>6 DEF IInv, CurrentInv, store
<1>10. OnceInv'
  <2>1. \A c \in Ids : sent[Round(y)][c] = 0
    BY <1>b, <1>3 DEF IInv, OnceInv, UnsentInv
  <2>2. TurnInv(y)'
    BY <1>2, <1>4, <1>5, <1>6, <2>1 DEF TurnInv
  <2>3. \A x \in DOMAIN threads : TurnInv(x)'
    BY <1>2, <1>6 DEF IInv, OnceInv, TurnInv
  <2>4. ASSUME NEW x \in DOMAIN threads' PROVE AgainInv(x)'
    <3>1. CASE x = y
      BY <1>3, <1>5, <1>6, <3>1 DEF AgainInv
    <3>2. CASE x \in DOMAIN threads
      BY <1>6, <3>2 DEF IInv, OnceInv, AgainInv
    <3> QED
      BY <1>6, <2>4, <3>1, <3>2
  <2>5. UnsentInv'
    BY <1>2, <1>6 DEF IInv, OnceInv, UnsentInv
  <2> QED
    BY <1>3, <1>6, <2>2, <2>3, <2>4, <2>5 DEF IInv, OnceInv
<1> QED
  BY <1>7, <1>8, <1>9, <1>10, <1>11, NextTypeFacts DEF IInv

LEMMA FinalizedStep ==
  ASSUME Types1, IInv, NEW j \in Jobs, NEW part \in Parts, NEW type \in Types, NEW st \in Status,
         Finalized(j, part, type, st)
  PROVE  IInv'
<1>1. PICK topic \in Topics : part = "summary" /\ Fire(j, "summary", 1, topic, st)
  BY DEF Finalized, TopicsOf, Topics
<1>2. 1 \in {1, 2} /\ 1 # 2
  OBVIOUS
<1> QED
  BY <1>1, <1>2, FireStep

LEMMA FinalizedAgainStep ==
  ASSUME Types1, IInv, NEW j \in Jobs, NEW part \in Parts, NEW st \in Status, FinalizedAgain(j, part, st)
  PROVE  IInv'
<1>1. <<j, part, 1>> \in DOMAIN threads /\ threads[<<j, part, 1>>].again
      /\ Fire(j, part, 2, threads[<<j, part, 1>>].topic, st)
  BY DEF FinalizedAgain
<1>2. part = "summary" /\ threads[<<j, part, 1>>].status = "cancelled"
  BY <1>1 DEF IInv, OnceInv, AgainInv
<1>3. threads[<<j, part, 1>>].topic \in Topics
  BY <1>1 DEF Types1, Thread
<1> QED
  BY <1>1, <1>2, <1>3, FireStep

\* A thread moves on to its next dictionary, or has sent its message.
LEMMA DispatchStep ==
  ASSUME Types1, IInv, NEW x \in Ends, NEW r \in Refs, Consider(x, r) \/ Send(x, r)
  PROVE  IInv'
<1>1. CASE Consider(x, r)
  <2> DEFINE at == IF Wants(r, threads[x]) THEN {r} ELSE {}
  <2>1. /\ x \in DOMAIN threads /\ threads[x].at = {} /\ r \in threads[x].todo
        /\ threads' = [threads EXCEPT ![x].todo = @ \ {r}, ![x].at = at]
        /\ UNCHANGED <<store, sent, edited, bounds>>
    BY <1>1 DEF Consider
  <2>2. at \subseteq {r}
    OBVIOUS
  <2> HIDE DEF at
  <2>3. threads[x] \in Thread
    BY <2>1 DEF Types1
  <2>4. /\ DOMAIN threads' = DOMAIN threads /\ threads'[x] \in Thread
        /\ threads'[x].todo = threads[x].todo \ {r} /\ threads'[x].at = at
        /\ threads'[x].status = threads[x].status /\ threads'[x].again = threads[x].again
        /\ \A y \in DOMAIN threads \ {x} : threads'[y] = threads[y]
    BY <2>1, <2>2, <2>3 DEF Thread
  <2>5. Types1'
    BY <2>1, <2>4 DEF Types1, store, bounds
  <2>a. \A y \in DOMAIN threads : threads'[y].status = threads[y].status
    BY <2>4
  <2>6. ConfigsInv' /\ SavedInv' /\ OneMessageEach'
    BY <2>1, <2>4, <2>a DEF IInv, ConfigsInv, SavedInv, OneMessageEach, store
  <2>7. CurrentInv'
    BY <2>1, <2>4 DEF IInv, CurrentInv, store
  <2>8. OnceInv'
    <3>1. \A y \in DOMAIN threads :
            /\ threads'[y].todo \subseteq threads[y].todo
            /\ threads'[y].todo \cup threads'[y].at \subseteq threads[y].todo \cup threads[y].at
            /\ threads'[y].todo \cap threads'[y].at \subseteq threads[y].todo \cap threads[y].at
            /\ threads'[y].again = threads[y].again /\ threads'[y].status = threads[y].status
      BY <2>1, <2>2, <2>4
    <3>2. ASSUME NEW y \in DOMAIN threads PROVE y[2] = "summary" /\ TurnInv(y) /\ AgainInv(y)
      BY DEF IInv, OnceInv
    <3>3. ASSUME NEW y \in DOMAIN threads PROVE TurnInv(y)'
      BY <2>1, <3>1, <3>2 DEF TurnInv
    <3>4. ASSUME NEW y \in DOMAIN threads PROVE AgainInv(y)'
      BY <2>4, <3>1, <3>2 DEF AgainInv
    <3>5. UnsentInv'
      BY <2>1, <2>4 DEF IInv, OnceInv, UnsentInv
    <3> QED
      BY <2>4, <3>2, <3>3, <3>4, <3>5 DEF OnceInv
  <2> QED
    BY <2>5, <2>6, <2>7, <2>8, NextTypeFacts DEF IInv
<1>2. CASE Send(x, r)
  <2>1. /\ x \in DOMAIN threads /\ r \in threads[x].at
        /\ threads' = [threads EXCEPT ![x].at = {}]
        /\ sent' = [sent EXCEPT ![Round(x)][r[1]] = @ + 1]
        /\ UNCHANGED <<store, edited, bounds>>
    BY <1>2 DEF Send
  <2>2. threads[x] \in Thread
    BY <2>1 DEF Types1
  <2>3. /\ DOMAIN threads' = DOMAIN threads /\ threads'[x] \in Thread
        /\ threads'[x].todo = threads[x].todo /\ threads'[x].at = {}
        /\ threads'[x].status = threads[x].status /\ threads'[x].again = threads[x].again
        /\ \A y \in DOMAIN threads \ {x} : threads'[y] = threads[y]
    BY <2>1, <2>2 DEF Thread
  <2>4. Round(x) \in Jobs \X {1, 2} /\ r[1] \in Ids
    BY DEF Refs, Ends, Round
  <2>5. /\ sent' \in [Jobs \X {1, 2} -> [Ids -> Nat]]
        /\ sent'[Round(x)][r[1]] = sent[Round(x)][r[1]] + 1
        /\ \A k \in Jobs \X {1, 2}, c \in Ids : k # Round(x) \/ c # r[1] => sent'[k][c] = sent[k][c]
    BY <2>1, <2>4 DEF Types1
  <2>6. sent[Round(x)][r[1]] = 0 /\ \A q \in threads[x].todo : q[1] # r[1]
    BY <2>1 DEF IInv, OnceInv, TurnInv
  <2>7. Types1'
    BY <2>1, <2>3, <2>5 DEF Types1, store, bounds
  <2>8. ConfigsInv' /\ SavedInv'
    BY <2>1 DEF IInv, ConfigsInv, SavedInv, store
  <2>9. OneMessageEach'
    <3>1. \A y \in DOMAIN threads : threads'[y].status = threads[y].status
      BY <2>3
    <3>2. \A k \in Jobs \X {1, 2}, c \in Ids : sent'[k][c] <= 1
      <4>1. ASSUME NEW k \in Jobs \X {1, 2}, NEW c \in Ids PROVE sent[k][c] <= 1
        <5>1. k = <<k[1], 1>> \/ k = <<k[1], 2>>
          OBVIOUS
        <5>2. \A j \in Jobs, d \in Ids : sent[<<j, 1>>][d] <= 1 /\ sent[<<j, 2>>][d] <= 1
          BY DEF IInv, OneMessageEach
        <5> QED
          BY <5>1, <5>2
      <4>2. sent'[Round(x)][r[1]] = 1
        BY <2>5, <2>6
      <4> QED
        BY <2>5, <4>1, <4>2
    <3>3. ASSUME NEW j \in Jobs, NEW c \in Ids, sent'[<<j, 2>>][c] = 1
          PROVE  <<j, "summary", 1>> \in DOMAIN threads /\ threads[<<j, "summary", 1>>].status = "cancelled"
      <4>1. CASE sent[<<j, 2>>][c] = 1
        BY <4>1 DEF IInv, OneMessageEach
      <4>2. CASE sent[<<j, 2>>][c] # 1
        <5>1. Round(x) = <<j, 2>>
          BY <2>5, <3>3, <4>2
        <5>2. x[3] = 2 /\ x[1] = j
          BY <5>1 DEF Round
        <5> QED
          BY <2>1, <5>2 DEF IInv, OnceInv, AgainInv
      <4> QED
        BY <4>1, <4>2
    <3> QED
      BY <2>3, <3>1, <3>2, <3>3 DEF OneMessageEach
  <2>10. CurrentInv'
    BY <2>1, <2>3 DEF IInv, CurrentInv, store
  <2>11. OnceInv'
    <3>1. ASSUME NEW y \in DOMAIN threads
          PROVE  /\ y = <<y[1], "summary", y[3]>> /\ Round(y) \in Jobs \X {1, 2} /\ y[2] = "summary"
                 /\ TurnInv(y) /\ AgainInv(y) /\ \A q \in threads[y].todo \cup threads[y].at : q[1] \in Ids
      <4>1. y \in Ends /\ y[2] = "summary" /\ TurnInv(y) /\ AgainInv(y)
        BY DEF IInv, OnceInv, Types1
      <4>2. \A q \in threads[y].todo \cup threads[y].at : q[1] \in Ids
        BY DEF Types1, Thread, Refs
      <4> QED
        BY <4>1, <4>2 DEF Ends, Round
    <3>2. \A y \in DOMAIN threads : y # x => Round(y) # Round(x)
      BY <2>1, <3>1 DEF Round
    <3>3. UnsentInv'
      <4> SUFFICES ASSUME NEW y \in Ends, y[2] = "summary", y \notin DOMAIN threads, NEW c \in Ids
                   PROVE  sent'[Round(y)][c] = 0
        BY <2>3 DEF UnsentInv
      <4>1. sent[Round(y)][c] = 0
        BY DEF IInv, OnceInv, UnsentInv
      <4>2. Round(y) \in Jobs \X {1, 2} /\ Round(y) # Round(x)
        BY <2>1, <3>1 DEF Round, Ends
      <4> QED
        BY <2>5, <4>1, <4>2
    <3>4. TurnInv(x)'
      <4>1. threads'[x].todo = threads[x].todo /\ threads'[x].at = {}
        BY <2>3
      <4>2. /\ \A p, q \in threads[x].todo : p[1] = q[1] => p = q
            /\ \A q \in threads[x].todo : sent[Round(x)][q[1]] = 0 /\ q[1] \in Ids /\ q[1] # r[1]
        BY <2>1, <2>6, <3>1 DEF TurnInv
      <4>3. \A q \in threads[x].todo : sent'[Round(x)][q[1]] = 0
        BY <2>4, <2>5, <4>2
      <4> QED
        BY <4>1, <4>2, <4>3 DEF TurnInv
    <3>5. ASSUME NEW y \in DOMAIN threads, y # x PROVE TurnInv(y)'
      <4>1. threads'[y] = threads[y] /\ Round(y) \in Jobs \X {1, 2} /\ Round(y) # Round(x)
        BY <2>3, <3>1, <3>2, <3>5
      <4>2. \A c \in Ids : sent'[Round(y)][c] = sent[Round(y)][c]
        BY <2>5, <4>1
      <4>3. TurnInv(y) /\ \A q \in threads[y].todo \cup threads[y].at : q[1] \in Ids
        BY <3>1
      <4> QED
        BY <4>1, <4>2, <4>3 DEF TurnInv
    <3>6. ASSUME NEW y \in DOMAIN threads PROVE AgainInv(y)'
      <4>1. \A z \in DOMAIN threads : threads'[z].status = threads[z].status /\ threads'[z].again = threads[z].again
        BY <2>3
      <4> QED
        BY <2>3, <3>1, <4>1 DEF AgainInv
    <3> QED
      BY <2>3, <3>1, <3>3, <3>4, <3>5, <3>6 DEF OnceInv
  <2> QED
    BY <2>7, <2>8, <2>9, <2>10, <2>11, NextTypeFacts DEF IInv
<1> QED
  BY <1>1, <1>2

\* Every step preserves the inductive invariant.
LEMMA NextIInv == ASSUME IInv, [Next]_vars PROVE IInv'
<1>a. Types1
  BY TypeFacts DEF IInv
<1>b. ASSUME StoreInv', CurrentInv', UNCHANGED <<threads, sent>>, edited' \in [Ends -> SUBSET Ids]
      PROVE  IInv'
  <2>1. Types1'
    BY <1>a, <1>b DEF Types1, StoreInv
  <2>2. OnceInv' /\ OneMessageEach'
    BY <1>b DEF IInv, OnceInv, UnsentInv, TurnInv, AgainInv, OneMessageEach
  <2> QED
    BY <1>b, <2>1, <2>2, NextTypeFacts DEF IInv, StoreInv
<1>c. edited \in [Ends -> SUBSET Ids]
  BY <1>a DEF Types1
<1>1. ASSUME NEW c \in Ids, NEW form \in Forms, Create(c, form) PROVE IInv'
  BY <1>1, <1>a, <1>b, <1>c, CreateStep
<1>2. ASSUME NEW c \in Ids, NEW form \in Forms, Update(c, form) PROVE IInv'
  BY <1>2, <1>a, <1>b, UpdateStep
<1>3. ASSUME NEW c \in Ids, Delete(c) PROVE IInv'
  BY <1>3, <1>a, <1>b, DeleteStep
<1>4. ASSUME NEW c \in Ids, Toggle(c) PROVE IInv'
  BY <1>4, <1>a, <1>b, <1>c, ToggleStep
<1>5. CASE Restart
  <2>1. Types1'
    BY <1>5, <1>a, RestartStep DEF Types1, StoreInv
  <2>0. /\ DOMAIN threads' = DOMAIN threads /\ sent' = sent
        /\ \A x \in DOMAIN threads : /\ threads'[x].todo = {} /\ threads'[x].at = {} /\ ~threads'[x].again
                                      /\ threads'[x].status = threads[x].status
    BY <1>5, <1>a, RestartStep
  <2>2. OnceInv'
    <3>1. UnsentInv'
      BY <2>0 DEF IInv, OnceInv, UnsentInv
    <3>2. \A x \in DOMAIN threads : TurnInv(x)'
      BY <2>0 DEF TurnInv
    <3>3. \A x \in DOMAIN threads : AgainInv(x)'
      BY <2>0 DEF IInv, OnceInv, AgainInv
    <3> QED
      BY <2>0, <3>1, <3>2, <3>3 DEF IInv, OnceInv
  <2>3. OneMessageEach'
    BY <2>0 DEF IInv, OneMessageEach
  <2> QED
    BY <1>5, <1>a, <2>1, <2>2, <2>3, RestartStep, NextTypeFacts DEF IInv, StoreInv
<1>6. ASSUME NEW j \in Jobs, NEW part \in Parts, NEW type \in Types, NEW st \in Status,
             Finalized(j, part, type, st)
      PROVE  IInv'
  BY <1>6, <1>a, FinalizedStep
<1>9. ASSUME NEW j \in Jobs, NEW part \in Parts, NEW st \in Status, FinalizedAgain(j, part, st) PROVE IInv'
  BY <1>9, <1>a, FinalizedAgainStep
<1>7. ASSUME NEW x \in Ends, Dispatch(x) PROVE IInv'
  BY <1>7, <1>a, DispatchFacts, DispatchStep
<1>8. CASE UNCHANGED vars
  <2>1. Types1'
    BY <1>8, <1>a DEF Types1, vars, store, bounds
  <2>2. ConfigsInv' /\ CurrentInv' /\ SavedInv' /\ OnceInv' /\ OneMessageEach'
    BY <1>8 DEF IInv, vars, store, bounds, ConfigsInv, CurrentInv, SavedInv, OnceInv, UnsentInv, TurnInv, AgainInv, OneMessageEach
  <2> QED
    BY <2>1, <2>2, NextTypeFacts DEF IInv
<1> QED
  BY <1>1, <1>2, <1>3, <1>4, <1>5, <1>6, <1>7, <1>8, <1>9 DEF Next

\* The inductive invariant is one.
LEMMA IInvHolds == Spec => []IInv
  BY InitIInv, NextIInv, PTL DEF Spec

\* The types, and that a configuration is sent one message for a job: one for a batch, not
\* one for each of its items, and none again after a restart.
THEOREM OneMessage == Spec => []MessageInv
<1>1. IInv => MessageInv
  BY DEF IInv, MessageInv
<1> QED
  BY <1>1, IInvHolds, PTL

-----------------------------------------------------------------------------
(* Action properties.                                                        *)

\* No message is begun for a configuration that is disabled, by whichever thread, unless it
\* was edited or deleted since the thread took the list.
THEOREM ToggleSilences == Spec => QuietAfterToggle
<1> DEFINE Quiet == \A x \in DOMAIN threads \cap DOMAIN threads', c \in Ids :
             (/\ threads[x].at = {} /\ \E r \in threads'[x].at : r[1] = c
              /\ c \notin edited[x])
               => c \in DOMAIN configs /\ heap[configs[c]].enabled
<1>1. ASSUME IInv, Next PROVE Quiet
  <2>a. Types1
    BY <1>1, TypeFacts DEF IInv
  <2>1. ASSUME \A x \in DOMAIN threads \cap DOMAIN threads' : threads'[x].at \subseteq threads[x].at PROVE Quiet
    BY <2>1
  <2>2. ASSUME NEW c \in Ids, NEW form \in Forms, Create(c, form) \/ Update(c, form) \/ Delete(c) \/ Toggle(c)
        PROVE  Quiet
    BY <2>1, <2>2 DEF Create, Update, Delete, Toggle
  <2>3. ASSUME NEW c \in Ids, Delete(c) \/ Toggle(c) PROVE Quiet
    BY <2>1, <2>3 DEF Delete, Toggle
  <2>4. CASE Restart
    BY <1>1, <2>a, <2>1, <2>4, RestartStep
  <2>5. ASSUME NEW j \in Jobs, NEW part \in Parts, NEW type \in Types, NEW st \in Status,
               Finalized(j, part, type, st)
        PROVE  Quiet
    <3>1. \A x \in DOMAIN threads : threads'[x] = threads[x]
      BY <2>5 DEF Finalized, Fire, With
    <3> QED
      BY <2>1, <3>1
  <2>8. ASSUME NEW j \in Jobs, NEW part \in Parts, NEW st \in Status, FinalizedAgain(j, part, st) PROVE Quiet
    <3>1. \A x \in DOMAIN threads : threads'[x] = threads[x]
      BY <2>8 DEF FinalizedAgain, Fire, With
    <3> QED
      BY <2>1, <3>1
  <2>6. ASSUME NEW x \in Ends, NEW r \in Refs, Consider(x, r) PROVE Quiet
    <3>1. /\ x \in DOMAIN threads /\ r \in threads[x].todo
          /\ threads' = [threads EXCEPT ![x].todo = @ \ {r},
                                        ![x].at = IF Wants(r, threads[x]) THEN {r} ELSE {}]
      BY <2>6 DEF Consider
    <3>2. /\ \A y \in DOMAIN threads \ {x} : threads'[y] = threads[y]
          /\ threads'[x].at = IF Wants(r, threads[x]) THEN {r} ELSE {}
      BY <2>a, <3>1 DEF Types1, Thread
    <3>3. r[1] \in edited[x] \/ (r[1] \in DOMAIN configs /\ configs[r[1]] = r)
      BY <1>1, <3>1 DEF IInv, CurrentInv
    <3> QED
      BY <3>1, <3>2, <3>3 DEF Wants
  <2>7. ASSUME NEW x \in Ends, NEW r \in Refs, Send(x, r) PROVE Quiet
    <3>1. \A y \in DOMAIN threads : threads'[y].at \subseteq threads[y].at
      BY <2>a, <2>7 DEF Send, Types1, Thread
    <3> QED
      BY <2>1, <3>1
  <2> QED
    BY <1>1, <2>a, <2>2, <2>3, <2>4, <2>5, <2>6, <2>7, <2>8, DispatchFacts DEF Next
<1>2. IInv /\ [Next]_vars => [Quiet]_vars
  BY <1>1
<1> QED
  BY <1>2, IInvHolds, PTL DEF Spec, QuietAfterToggle

\* An edit does not switch on what was switched off, and a restart has what was answered
\* before, unless it could not be saved.
THEOREM ConfigurationsStay == Spec => StaysAsSet
<1> DEFINE Stays == \A c \in DOMAIN configs :
       /\ (c \in DOMAIN configs' /\ configs'[c] # configs[c] /\ restarts' = restarts)
            => heap'[configs'[c]].enabled = heap[configs[c]].enabled
       /\ (restarts' # restarts /\ ~unsaved)
            => c \in DOMAIN configs' /\ heap'[configs'[c]] = heap[configs[c]]
<1>1. ASSUME IInv, Next PROVE Stays
  <2>a. Types1 /\ ConfigsInv /\ SavedInv
    BY <1>1, TypeFacts DEF IInv
  <2>1. ASSUME UNCHANGED restarts, \A c \in DOMAIN configs \cap DOMAIN configs' : configs'[c] = configs[c]
        PROVE  Stays
    BY <2>1
  <2>2. ASSUME NEW c \in Ids, NEW form \in Forms, Create(c, form) PROVE Stays
    <3>1. [form |-> form, enabled |-> TRUE] \in Contents /\ Put(c, [form |-> form, enabled |-> TRUE])
      BY <2>2 DEF Create, Contents
    <3>2. c \notin DOMAIN configs
      BY <2>2, <2>a DEF Create, ConfigsInv, Types1
    <3>3. \A d \in DOMAIN configs : configs'[d] = configs[d]
      BY <2>a, <3>1, <3>2, PutFacts
    <3> QED
      BY <2>1, <2>2, <3>3 DEF Create, Change
  <2>3. ASSUME NEW c \in Ids, NEW form \in Forms, Update(c, form) PROVE Stays
    <3> DEFINE content == [form |-> form, enabled |-> heap[configs[c]].enabled]
    <3>1. content \in Contents /\ content.enabled = heap[configs[c]].enabled
      BY <2>3, <2>a DEF Contents, Update, Types1
    <3>2. Put(c, content)
      BY <2>3 DEF Update
    <3> HIDE DEF content
    <3>3. heap'[configs'[c]] = content /\ \A d \in DOMAIN configs : d # c => configs'[d] = configs[d]
      BY <2>a, <3>1, <3>2, PutFacts
    <3>4. restarts' = restarts
      BY <2>3 DEF Update, Change
    <3> QED
      BY <3>1, <3>3, <3>4
  <2>4. ASSUME NEW c \in Ids, Delete(c) \/ Toggle(c) PROVE Stays
    BY <2>1, <2>4 DEF Delete, Toggle, Change, Restrict
  <2>5. CASE Restart
    <3>1. /\ configs' = [c \in DOMAIN file |-> <<c, 1>>]
          /\ heap' = [r \in {<<c, 1>> : c \in DOMAIN file} |-> file[r[1]]]
          /\ restarts' = restarts + 1
      BY <2>5 DEF Restart
    <3>2. \A c \in DOMAIN file : c \in DOMAIN configs' /\ heap'[configs'[c]] = file[c]
      BY <3>1
    <3>3. restarts' # restarts
      BY <2>a, <3>1 DEF Types1
    <3> QED
      BY <2>a, <3>2, <3>3 DEF SavedInv
  <2>6. ASSUME NEW j \in Jobs, NEW part \in Parts, NEW type \in Types, NEW st \in Status,
               Finalized(j, part, type, st)
        PROVE  Stays
    BY <2>1, <2>6 DEF Finalized, Fire, store, bounds
  <2>8. ASSUME NEW j \in Jobs, NEW part \in Parts, NEW st \in Status, FinalizedAgain(j, part, st) PROVE Stays
    BY <2>1, <2>8 DEF FinalizedAgain, Fire, store, bounds
  <2>7. ASSUME NEW x \in Ends, NEW r \in Refs, Consider(x, r) \/ Send(x, r) PROVE Stays
    BY <2>1, <2>7 DEF Consider, Send, store, bounds
  <2> QED
    BY <1>1, <2>a, <2>2, <2>3, <2>4, <2>5, <2>6, <2>7, <2>8, DispatchFacts DEF Next
<1>2. IInv /\ [Next]_vars => [Stays]_vars
  BY <1>1
<1> QED
  BY <1>2, IInvHolds, PTL DEF Spec, StaysAsSet

-----------------------------------------------------------------------------
(* No configuration is forgotten.                                            *)

\* The dictionaries of a configuration are numbered without a gap, and a thread sends one
\* message at a time.
TellInv ==
  /\ \A r \in DOMAIN heap : \A v \in 1..r[2] : <<r[1], v>> \in DOMAIN heap
  /\ \A x \in DOMAIN threads : \A r, q \in threads[x].at : r = q

\* The number of a new dictionary is the next one, so it is not the number of another.
LEMMA NewIsNew ==
  ASSUME Types1, TellInv, NEW c \in Ids, NEW v \in 1..MaxVersions,
         v = 1 + Cardinality({r \in DOMAIN heap : r[1] = c})
  PROVE  <<c, v>> \notin DOMAIN heap /\ \A w \in 1..v - 1 : <<c, w>> \in DOMAIN heap
<1> DEFINE S == {r \in DOMAIN heap : r[1] = c}
<1>1. \A r \in S : r = <<c, r[2]>> /\ r[2] \in 1..MaxVersions
  BY DEF Types1, Refs
<1>2. IsFiniteSet(S)
  <2> DEFINE f == [r \in S |-> r[2]]
  <2>1. f \in Injection(S, 1..MaxVersions)
    BY <1>1 DEF Injection, IsInjective
  <2>2. IsFiniteSet(1..MaxVersions)
    <3>1. 1 \in Int /\ MaxVersions \in Int
      BY NotificationsAssumption
    <3> QED
      BY <3>1, FS_Interval
  <2> HIDE DEF f, S
  <2> QED
    BY <2>1, <2>2, FS_Injection
<1>3. Cardinality(S) \in Nat /\ v = 1 + Cardinality(S)
  BY <1>2, FS_CardinalityType
<1>4. <<c, v>> \notin DOMAIN heap
  <2> SUFFICES ASSUME <<c, v>> \in DOMAIN heap PROVE FALSE
    OBVIOUS
  <2> DEFINE g == [u \in 1..v |-> <<c, u>>]
  <2>1. \A u \in 1..v : <<c, u>> \in S
    BY DEF TellInv
  <2>2. g \in Injection(1..v, S)
    BY <2>1 DEF Injection, IsInjective
  <2>3. Cardinality(1..v) = v
    <3>1. 1 \in Int /\ v \in Int /\ ~(1 > v) /\ v - 1 + 1 = v
      OBVIOUS
    <3> QED
      BY <3>1, FS_Interval
  <2> HIDE DEF g, S
  <2>4. Cardinality(1..v) <= Cardinality(S)
    BY <1>2, <2>2, FS_Injection
  <2> QED
    BY <1>3, <2>3, <2>4
<1>5. ASSUME NEW w \in 1..v - 1, <<c, w>> \notin DOMAIN heap PROVE FALSE
  <2> DEFINE f == [r \in S |-> r[2]]
  <2>1. \A r \in S : r[2] \in 1..w - 1
    <3> SUFFICES ASSUME NEW r \in S, ~(r[2] < w) PROVE FALSE
      BY <1>1
    <3>1. w \in 1..r[2] /\ r[1] = c
      BY <1>1
    <3> QED
      BY <1>5, <3>1 DEF TellInv
  <2>2. f \in Injection(S, 1..w - 1)
    BY <1>1, <2>1 DEF Injection, IsInjective
  <2>3. IsFiniteSet(1..w - 1) /\ Cardinality(1..w - 1) = w - 1
    <3>1. 1 \in Int /\ w - 1 \in Int /\ (IF 1 > w - 1 THEN 0 ELSE (w - 1) - 1 + 1) = w - 1
      OBVIOUS
    <3> QED
      BY <3>1, FS_Interval
  <2> HIDE DEF f, S
  <2>4. Cardinality(S) <= w - 1
    BY <2>2, <2>3, FS_Injection
  <2> QED
    BY <1>3, <2>4
<1> QED
  BY <1>4, <1>5

\* A new dictionary leaves the others as they are.
LEMMA PutKeeps ==
  ASSUME Types1, TellInv, NEW c \in Ids, NEW content, Put(c, content)
  PROVE  /\ DOMAIN heap \subseteq DOMAIN heap' /\ \A r \in DOMAIN heap : heap'[r] = heap[r]
         /\ \A r \in DOMAIN heap' : \A v \in 1..r[2] : <<r[1], v>> \in DOMAIN heap'
<1>1. PICK v \in 1..MaxVersions : /\ v = 1 + Cardinality({r \in DOMAIN heap : r[1] = c})
                                  /\ heap' = With(heap, <<c, v>>, content)
  BY DEF Put
<1>2. <<c, v>> \notin DOMAIN heap /\ \A w \in 1..v - 1 : <<c, w>> \in DOMAIN heap
  BY <1>1, NewIsNew
<1>3. DOMAIN heap' = DOMAIN heap \cup {<<c, v>>} /\ \A r \in DOMAIN heap : heap'[r] = heap[r]
  BY <1>1, <1>2 DEF With
<1>4. ASSUME NEW r \in DOMAIN heap', NEW w \in 1..r[2] PROVE <<r[1], w>> \in DOMAIN heap'
  <2>1. CASE r \in DOMAIN heap
    BY <1>3, <1>4, <2>1 DEF TellInv
  <2>2. CASE r = <<c, v>>
    BY <1>2, <1>3, <1>4, <2>2
  <2> QED
    BY <1>3, <2>1, <2>2
<1> QED
  BY <1>3, <1>4

\* How a step changes the threads that there are, and the dictionaries.
LEMMA StepFacts ==
  ASSUME IInv, TellInv, [Next]_vars
  PROVE  \/ Restart
         \/ /\ \A x \in DOMAIN threads : x \in DOMAIN threads' /\ threads'[x] = threads[x]
            /\ sent' = sent
            /\ \A r \in DOMAIN heap : r \in DOMAIN heap' /\ heap'[r].form = heap[r].form
         \/ heap' = heap /\ \E y \in DOMAIN threads, q \in Refs : Consider(y, q) \/ Send(y, q)
<1> USE DEF Types1
<1>a. Types1
  BY TypeFacts DEF IInv
<1>1. ASSUME NEW c \in Ids, NEW form \in Forms, Create(c, form) \/ Update(c, form)
      PROVE  threads' = threads /\ sent' = sent /\ \A r \in DOMAIN heap : r \in DOMAIN heap' /\ heap'[r] = heap[r]
  BY <1>1, <1>a, PutKeeps DEF Create, Update
<1>2. ASSUME NEW c \in Ids, Delete(c) PROVE threads' = threads /\ sent' = sent /\ heap' = heap
  BY <1>2 DEF Delete
<1>3. ASSUME NEW c \in Ids, Toggle(c)
      PROVE  threads' = threads /\ sent' = sent
             /\ \A r \in DOMAIN heap : r \in DOMAIN heap' /\ heap'[r].form = heap[r].form
  <2>1. heap' = [heap EXCEPT ![configs[c]].enabled = ~@] /\ threads' = threads /\ sent' = sent
    BY <1>3 DEF Toggle
  <2>2. \A r \in DOMAIN heap : heap[r] \in Contents
    BY <1>a
  <2>3. \A r \in DOMAIN heap : r \in DOMAIN heap' /\ heap'[r].form = heap[r].form
    BY <2>1, <2>2 DEF Contents
  <2> QED
    BY <2>1, <2>3
<1>4. ASSUME NEW j \in Jobs, NEW part \in Parts, NEW type \in Types, NEW st \in Status,
             Finalized(j, part, type, st)
      PROVE  heap' = heap /\ sent' = sent /\ \A x \in DOMAIN threads : x \in DOMAIN threads' /\ threads'[x] = threads[x]
  BY <1>4 DEF Finalized, Fire, With, store
<1>7. ASSUME NEW j \in Jobs, NEW part \in Parts, NEW st \in Status, FinalizedAgain(j, part, st)
      PROVE  heap' = heap /\ sent' = sent /\ \A x \in DOMAIN threads : x \in DOMAIN threads' /\ threads'[x] = threads[x]
  BY <1>7 DEF FinalizedAgain, Fire, With, store
<1>5. ASSUME NEW x \in Ends, NEW r \in Refs, Consider(x, r) \/ Send(x, r)
      PROVE  heap' = heap /\ x \in DOMAIN threads
  BY <1>5 DEF Consider, Send, store
<1>6. CASE UNCHANGED vars
  BY <1>6 DEF vars, store
<1> QED
  BY <1>a, <1>1, <1>2, <1>3, <1>4, <1>5, <1>6, <1>7, DispatchFacts DEF Next

LEMMA TellInvHolds == Spec => []TellInv
<1>1. Init => TellInv
  BY DEF Init, TellInv
<1>2. ASSUME IInv, TellInv, [Next]_vars PROVE TellInv'
  <2>a. Types1
    BY <1>2, TypeFacts DEF IInv
  <2>1. ASSUME NEW c \in Ids, NEW form \in Forms, Create(c, form) \/ Update(c, form) PROVE TellInv'
    <3>1. /\ \A r \in DOMAIN heap' : \A v \in 1..r[2] : <<r[1], v>> \in DOMAIN heap'
          /\ threads' = threads
      BY <1>2, <2>a, <2>1, PutKeeps DEF Create, Update
    <3> QED
      BY <1>2, <3>1 DEF TellInv
  <2>2. ASSUME NEW c \in Ids, Delete(c) \/ Toggle(c) PROVE TellInv'
    <3>1. DOMAIN heap' = DOMAIN heap /\ threads' = threads
      BY <2>2 DEF Delete, Toggle
    <3> QED
      BY <1>2, <3>1 DEF TellInv
  <2>3. CASE Restart
    <3>1. /\ DOMAIN heap' = {<<c, 1>> : c \in DOMAIN file}
          /\ threads' = [x \in DOMAIN threads |-> [threads[x] EXCEPT !.todo = {}, !.at = {}, !.again = FALSE]]
      BY <2>3 DEF Restart
    <3>2. ASSUME NEW r \in DOMAIN heap', NEW v \in 1..r[2] PROVE <<r[1], v>> \in DOMAIN heap'
      <4>1. PICK c \in DOMAIN file : r = <<c, 1>>
        BY <3>1
      <4>2. v = 1 /\ <<r[1], v>> = r
        BY <3>2, <4>1
      <4> QED
        BY <4>2
    <3>3. \A x \in DOMAIN threads' : threads'[x].at = {}
      BY <2>a, <3>1 DEF Types1, Thread
    <3> QED
      BY <3>2, <3>3 DEF TellInv
  <2>4. ASSUME NEW j \in Jobs, NEW part \in Parts, NEW type \in Types, NEW st \in Status,
               Finalized(j, part, type, st)
        PROVE  TellInv'
    <3>1. /\ heap' = heap
          /\ \A x \in DOMAIN threads' : (x \in DOMAIN threads /\ threads'[x] = threads[x]) \/ threads'[x].at = {}
      BY <2>4 DEF Finalized, Fire, With, store
    <3> QED
      BY <1>2, <3>1 DEF TellInv
  <2>7. ASSUME NEW j \in Jobs, NEW part \in Parts, NEW st \in Status, FinalizedAgain(j, part, st) PROVE TellInv'
    <3>1. /\ heap' = heap
          /\ \A x \in DOMAIN threads' : (x \in DOMAIN threads /\ threads'[x] = threads[x]) \/ threads'[x].at = {}
      BY <2>7 DEF FinalizedAgain, Fire, With, store
    <3> QED
      BY <1>2, <3>1 DEF TellInv
  <2>5. ASSUME NEW x \in Ends, NEW r \in Refs, Consider(x, r) \/ Send(x, r) PROVE TellInv'
    <3>1. /\ heap' = heap /\ DOMAIN threads' = DOMAIN threads
          /\ \A y \in DOMAIN threads : threads'[y].at \in {threads[y].at, {}, {r}}
      BY <2>a, <2>5 DEF Consider, Send, store, Types1, Thread
    <3> QED
      BY <1>2, <3>1 DEF TellInv
  <2>6. CASE UNCHANGED vars
    BY <1>2, <2>6 DEF TellInv, vars, store
  <2> QED
    BY <1>2, <2>a, <2>1, <2>2, <2>3, <2>4, <2>5, <2>6, <2>7, DispatchFacts DEF Next
<1> QED
  BY <1>1, <1>2, IInvHolds, PTL DEF Spec

\* A message for the configuration is still to be sent, is on its way, or was sent.
Due(x, r) == x \in DOMAIN threads /\ r \in threads[x].todo /\ Wants(r, threads[x])
OnItsWay(x, r) == x \in DOMAIN threads /\ r \in threads[x].at
ToldOnce(x, r) == x \in DOMAIN threads /\ sent[Round(x)][r[1]] = 1

\* notify_task_completion and toggle: a task's thread that is to tell a configuration has
\* the message to send, is sending it or has sent it once, as long as the program runs and
\* the configuration is not switched off, whatever other requests change meanwhile and
\* whatever comes of the other messages.  (That the thread gets there is EveryoneTold, which
\* rests on fairness.)
THEOREM NobodyForgotten ==
  ASSUME NEW x \in Jobs \X {"summary"} \X {1, 2}, NEW r \in Refs
  PROVE  Spec => [](Due(x, r) /\ []Enabled(r) /\ [][UNCHANGED restarts]_vars
                    => [](Due(x, r) \/ OnItsWay(x, r) \/ ToldOnce(x, r)))
<1> DEFINE Lives == Enabled(r)
           Told == Due(x, r) \/ OnItsWay(x, r) \/ ToldOnce(x, r)
<1>1. ASSUME IInv, TellInv, Lives, Lives', Told, [Next]_vars, [UNCHANGED restarts]_vars PROVE Told'
  <2>a. /\ Types1 /\ x[2] = "summary" /\ x \in Ends /\ Round(x) \in Jobs \X {1, 2} /\ r[1] \in Ids
        /\ x = <<x[1], "summary", x[3]>>
    BY <1>1, TypeFacts DEF IInv, Parts, Refs, Ends, Round
  <2>1. ~Restart
    <3>1. restarts \in Nat
      BY <2>a DEF Types1
    <3>2. UNCHANGED restarts
      BY <1>1 DEF vars, bounds
    <3> HIDE DEF Told, Lives
    <3> SUFFICES ASSUME Restart PROVE FALSE
      OBVIOUS
    <3>3. restarts' = restarts + 1
      BY DEF Restart
    <3> QED
      BY ONLY <3>1, <3>2, <3>3
  <2>2. CASE /\ \A y \in DOMAIN threads : y \in DOMAIN threads' /\ threads'[y] = threads[y]
             /\ sent' = sent
             /\ \A q \in DOMAIN heap : q \in DOMAIN heap' /\ heap'[q].form = heap[q].form
    BY <1>1, <2>2 DEF Due, OnItsWay, ToldOnce, Wants, Enabled
  <2>3. ASSUME heap' = heap, NEW y \in DOMAIN threads, NEW q \in Refs, Consider(y, q) PROVE Told'
    <3>1. /\ threads[y].at = {} /\ q \in threads[y].todo /\ sent' = sent
          /\ threads' = [threads EXCEPT ![y].todo = @ \ {q}, ![y].at = IF Wants(q, threads[y]) THEN {q} ELSE {}]
      BY <2>3 DEF Consider
    <3>2. /\ DOMAIN threads' = DOMAIN threads /\ \A z \in DOMAIN threads \ {y} : threads'[z] = threads[z]
          /\ threads'[y].todo = threads[y].todo \ {q} /\ threads'[y].at = IF Wants(q, threads[y]) THEN {q} ELSE {}
          /\ threads'[y].topic = threads[y].topic /\ threads'[y].status = threads[y].status
      BY <2>a, <3>1 DEF Types1, Thread
    <3>3. CASE ToldOnce(x, r)
      BY <3>1, <3>2, <3>3 DEF ToldOnce
    <3>4. CASE y # x /\ (Due(x, r) \/ OnItsWay(x, r))
      BY <2>3, <3>2, <3>4 DEF Due, OnItsWay, Wants
    <3>5. CASE y = x /\ Due(x, r)
      BY <2>3, <3>2, <3>5 DEF Due, OnItsWay, Wants
    <3>6. CASE y = x /\ OnItsWay(x, r)
      BY <3>1, <3>6 DEF OnItsWay
    <3> QED
      BY <1>1, <3>3, <3>4, <3>5, <3>6
  <2>4. ASSUME heap' = heap, NEW y \in DOMAIN threads, NEW q \in Refs, Send(y, q) PROVE Told'
    <3>1. /\ q \in threads[y].at /\ threads' = [threads EXCEPT ![y].at = {}]
          /\ sent' = [sent EXCEPT ![Round(y)][q[1]] = @ + 1]
      BY <2>4 DEF Send
    <3>2. /\ DOMAIN threads' = DOMAIN threads /\ \A z \in DOMAIN threads \ {y} : threads'[z] = threads[z]
          /\ threads'[y].todo = threads[y].todo
          /\ threads'[y].topic = threads[y].topic /\ threads'[y].status = threads[y].status
      BY <2>a, <3>1 DEF Types1, Thread
    <3>3. /\ y \in Ends /\ y = <<y[1], "summary", y[3]>> /\ Round(y) \in Jobs \X {1, 2}
          /\ q[1] \in Ids /\ sent[Round(y)][q[1]] = 0
      <4>1. y \in Ends /\ q[1] \in Ids
        BY <2>a DEF Types1, Refs
      <4>2. sent[Round(y)][q[1]] = 0 /\ y[2] = "summary"
        BY <1>1, <3>1 DEF IInv, OnceInv, TurnInv
      <4> QED
        BY <4>1, <4>2 DEF Ends, Round
    <3>4. /\ \A k \in Jobs \X {1, 2}, c \in Ids : <<k, c>> # <<Round(y), q[1]>> => sent'[k][c] = sent[k][c]
          /\ sent'[Round(y)][q[1]] = 1
      BY <2>a, <3>1, <3>3 DEF Types1
    <3>6. CASE ToldOnce(x, r)
      <4>1. <<Round(x), r[1]>> # <<Round(y), q[1]>>
        BY <3>3, <3>6 DEF ToldOnce
      <4> QED
        BY <2>a, <3>2, <3>4, <3>6, <4>1 DEF ToldOnce
    <3>7. CASE Due(x, r)
      BY <2>4, <3>2, <3>7 DEF Due, Wants
    <3>8. CASE OnItsWay(x, r) /\ y # x
      BY <3>2, <3>8 DEF OnItsWay
    <3>9. CASE OnItsWay(x, r) /\ y = x
      <4>1. q = r
        BY <1>1, <3>1, <3>9 DEF OnItsWay, TellInv
      <4> QED
        BY <2>4, <3>2, <3>4, <3>9, <4>1 DEF ToldOnce
    <3> QED
      BY <1>1, <3>6, <3>7, <3>8, <3>9
  <2> QED
    BY <1>1, <2>1, <2>2, <2>3, <2>4, StepFacts
<1>2. Spec => [](Due(x, r) /\ []Lives /\ [][UNCHANGED restarts]_vars => []Told)
  <2> DEFINE Is == Due(x, r)
  <2>1. Is => Told
    OBVIOUS
  <2> HIDE DEF Lives, Told, Is
  <2>2. Spec => [](Is /\ []Lives /\ [][UNCHANGED restarts]_vars => []Told)
    BY <1>1, <2>1, IInvHolds, TellInvHolds, PTL DEF Spec
  <2> QED
    BY <2>2 DEF Is
<1> QED
  BY <1>2

=============================================================================
