--------------------------- MODULE VolumesProofs ---------------------------
(***************************************************************************)
(* Proofs about Volumes, for every set of names, containers and requests   *)
(* and every bound on their number.                                        *)
(*                                                                         *)
(* IInv says which requests may still take effect (the queue holds each    *)
(* number once, and a task the remote side may still work on has left the  *)
(* queue or is ending), what the worker has done at each position, and     *)
(* that every size, stored or about to be, is that of a volume that had    *)
(* the name.                                                               *)
(***************************************************************************)
EXTENDS Volumes, SequenceTheorems, TLAPS

USE VolumesAssumption

\* Each request is in the queue once.
QueueInv ==
  /\ \A j \in 1..Len(queue) : queue[j][1] \in 1..asked /\ queue[j][2] \in Asks
  /\ \A j, l \in 1..Len(queue) : queue[j][1] = queue[l][1] => j = l

\* A request that was given up has been made, and its task is over or ending.
LateInv ==
  \A p \in late :
    /\ p[1] \in 1..asked /\ p[2] \in Asks
    /\ \A j \in 1..Len(queue) : p[1] = queue[j][1] => j = 1 /\ pc = "finally"

WorkerInv ==
  /\ pc # "idle" => queue # <<>>
  /\ pc \in {"idle", "stop", "call", "mode"} => applied = {}
  /\ pc \in {"idle", "stop", "call", "mode", "owner"} => ~verdict
  /\ pc \in {"call", "forget"} => Request.op # "permissions"
  /\ pc \in {"mode", "owner"} => Request.op = "permissions" /\ pc \in Request.change
  /\ pc = "owner" => applied = Request.change \ {"owner"}
  /\ pc = "forget" /\ Request.op = "rename" => Request.to # Request.name
  /\ pc = "finally" /\ Request.op = "permissions" /\ verdict => applied = Request.change

SizesInv ==
  /\ \A n \in Names : dir[n] # 0 => dir[n] \in trace[n]
  /\ \A n \in DOMAIN cache : cache[n] \in {0} \cup trace[n]
  /\ \A n \in Names, s \in Sizes : <<n, s>> \in measured => s \in {0} \cup trace[n]

IInv == TypeOK /\ QueueInv /\ LateInv /\ WorkerInv /\ SizesInv

\* What a request looks like.
LEMMA RequestFacts ==
  ASSUME NEW r \in Requests
  PROVE  /\ r.op \in {"create", "rename", "delete", "permissions"}
         /\ r.name \in Names
         /\ r.op = "rename" => r.to \in Names
         /\ r.op = "permissions" => r.change \subseteq Changes /\ r.change # {}
  BY DEF Requests

\* The request at the head of the queue.
LEMMA HeadFacts ==
  ASSUME TypeOK, QueueInv, queue # <<>>
  PROVE  /\ Len(queue) \in Nat \ {0} /\ 1 \in 1..Len(queue)
         /\ queue[1] = <<Number, Request>>
         /\ Number \in 1..asked /\ Number \in Ids
         /\ Request \in Asks /\ Request \in Requests
<1>1. Len(queue) \in Nat \ {0} /\ queue[1] \in Ids \X Requests
  BY ElementOfSeq, EmptySeq DEF TypeOK
<1>2. 1 \in 1..Len(queue)
  BY <1>1
<1> QED
  BY <1>1, <1>2 DEF QueueInv, Number, Request

\* The queue behind a new task, and the queue behind a finished one.
LEMMA AppendFacts ==
  ASSUME NEW S, NEW s \in Seq(S), NEW e \in S
  PROVE  /\ Append(s, e) \in Seq(S) /\ Append(s, e) # <<>>
         /\ Len(Append(s, e)) = Len(s) + 1
         /\ \A j \in 1..Len(s) : Append(s, e)[j] = s[j]
         /\ Append(s, e)[Len(s) + 1] = e
         /\ s # <<>> => Tail(Append(s, e)) = Append(Tail(s), e)
         /\ Range(Append(s, e)) = Range(s) \cup {e}
<1>1. /\ Append(s, e) \in Seq(S) /\ Append(s, e) # <<>>
      /\ Len(s) \in Nat /\ Len(Append(s, e)) = Len(s) + 1
      /\ \A j \in 1..Len(s) : Append(s, e)[j] = s[j]
      /\ Append(s, e)[Len(s) + 1] = e
  OBVIOUS
<1>2. s # <<>> => Tail(Append(s, e)) = Append(Tail(s), e)
  OBVIOUS
<1>3. DOMAIN s = 1..Len(s) /\ DOMAIN Append(s, e) = 1..Len(s) + 1
  BY <1>1
<1>4. 1..Len(s) + 1 = (1..Len(s)) \cup {Len(s) + 1}
  BY <1>1
<1>5. Range(Append(s, e)) = Range(s) \cup {e}
  BY <1>1, <1>3, <1>4 DEF Range
<1> QED
  BY <1>1, <1>2, <1>5

LEMMA TailFacts ==
  ASSUME NEW S, NEW s \in Seq(S), s # <<>>
  PROVE  /\ Tail(s) \in Seq(S) /\ Len(Tail(s)) \in Nat /\ Len(s) = Len(Tail(s)) + 1
         /\ \A j \in 1..Len(Tail(s)) : Tail(s)[j] = s[j + 1] /\ j + 1 \in 1..Len(s)
         /\ Range(s) = Range(Tail(s)) \cup {s[1]}
         /\ (\A j, l \in 1..Len(s) : s[j] = s[l] => j = l) => s[1] \notin Range(Tail(s))
<1>1. Tail(s) \in Seq(S) /\ Len(Tail(s)) \in Nat /\ Len(s) = Len(Tail(s)) + 1
      /\ \A j \in 1..Len(Tail(s)) : Tail(s)[j] = s[j + 1]
  BY HeadTailProperties, EmptySeq
<1>2. DOMAIN s = 1..Len(s) /\ DOMAIN Tail(s) = 1..Len(Tail(s))
  BY <1>1
<1>3. \A j \in 1..Len(Tail(s)) : j + 1 \in 1..Len(s)
  BY <1>1
<1>4. Range(s) = Range(Tail(s)) \cup {s[1]}
  <2>1. ASSUME NEW j \in 1..Len(s) PROVE j = 1 \/ (j - 1 \in 1..Len(Tail(s)) /\ Tail(s)[j - 1] = s[j])
    BY <1>1
  <2>2. Range(s) \subseteq Range(Tail(s)) \cup {s[1]}
    <3>1. SUFFICES ASSUME NEW j \in 1..Len(s) PROVE s[j] \in Range(Tail(s)) \cup {s[1]}
      BY <1>2 DEF Range
    <3>2. CASE j = 1
      BY <3>2
    <3>3. CASE j # 1
      BY <1>2, <2>1, <3>3 DEF Range
    <3> QED
      BY <3>2, <3>3
  <2>3. Range(Tail(s)) \subseteq Range(s)
    BY <1>1, <1>2, <1>3 DEF Range
  <2>4. s[1] \in Range(s)
    BY <1>1, <1>2 DEF Range
  <2> QED
    BY <2>2, <2>3, <2>4
<1>5. ASSUME \A j, l \in 1..Len(s) : s[j] = s[l] => j = l PROVE s[1] \notin Range(Tail(s))
  <2>1. SUFFICES ASSUME NEW j \in 1..Len(Tail(s)), Tail(s)[j] = s[1] PROVE FALSE
    BY <1>2 DEF Range
  <2>2. s[j + 1] = s[1] /\ j + 1 \in 1..Len(s) /\ 1 \in 1..Len(s)
    BY <1>1, <1>3, <2>1
  <2>3. j + 1 = 1
    BY <1>5, <2>2
  <2> QED
    BY <2>3
<1> QED
  BY <1>1, <1>3, <1>4, <1>5

\* Any operation on the directory changes it for a possible request only, and what a name
\* has got is in its history.
LEMMA PerformFacts ==
  ASSUME TypeOK, SizesInv, NEW i \in Ids, NEW r \in Requests, Perform(i, r)
  PROVE  /\ dir' \in [Names -> Sizes]
         /\ trace' \in [Names -> SUBSET Ids]
         /\ \A n \in Names : dir'[n] # 0 => dir'[n] \in trace'[n]
         /\ \A n \in Names : trace[n] \subseteq trace'[n]
         /\ r.op = "rename" => r.to # r.name
         /\ r.op # "permissions"
<1>0. trace' = [n \in Names |-> trace[n] \cup ({dir'[n]} \ {0})]
  BY DEF Perform
<1>1. dir' \in [Names -> Sizes]
  BY RequestFacts DEF Perform, Possible, TypeOK, Ids, Sizes
<1>2. trace' \in [Names -> SUBSET Ids]
  BY <1>1, <1>0 DEF TypeOK, Ids, Sizes
<1>3. /\ \A n \in Names : dir'[n] # 0 => dir'[n] \in trace'[n]
      /\ \A n \in Names : trace[n] \subseteq trace'[n]
  BY <1>1, <1>0 DEF TypeOK
<1>4. (r.op = "rename" => r.to # r.name) /\ r.op # "permissions"
  BY DEF Perform, Possible
<1> QED
  BY <1>1, <1>2, <1>3, <1>4

\* An entry of the cache takes the size it is given, and the others keep theirs.
LEMMA WithSizeFacts ==
  ASSUME NEW c, DOMAIN c \subseteq Names, NEW n \in Names, NEW s
  PROVE  /\ DOMAIN WithSize(c, n, s) = DOMAIN c \cup {n}
         /\ DOMAIN WithSize(c, n, s) \subseteq Names
         /\ WithSize(c, n, s)[n] = s
         /\ \A m \in DOMAIN c \ {n} : WithSize(c, n, s)[m] = c[m]
  BY DEF WithSize

LEMMA InitIInv == Init => IInv
<1> SUFFICES ASSUME Init PROVE IInv
  OBVIOUS
<1> USE DEF Init, Ids, Sizes
<1>1. TypeOK
  <2>1. DOMAIN cache = {} /\ Range(cache) = {}
    BY DEF Range
  <2>2. dir \in [Names -> Sizes] /\ trace \in [Names -> SUBSET Ids] /\ asked \in 0..MaxRequests
    OBVIOUS
  <2>3. late = {} /\ queue \in Seq(Ids \X Requests)
    OBVIOUS
  <2>6. verdict \in BOOLEAN /\ locked \in BOOLEAN
    OBVIOUS
  <2>7. kind \in {"local", "helper", "rsync"} /\ pc = "idle"
    OBVIOUS
  <2>4. running \subseteq Containers /\ stopped \subseteq Containers /\ warned \subseteq Containers
    OBVIOUS
  <2>5. applied \subseteq Changes /\ listing \subseteq Names /\ todo \subseteq Names /\ measured \subseteq Names \X Sizes
    OBVIOUS
  <2> HIDE DEF Ids, Sizes
  <2> QED
    BY ONLY <2>1, <2>2, <2>3, <2>4, <2>5, <2>6, <2>7 DEF TypeOK
<1>2. QueueInv /\ LateInv
  BY DEF QueueInv, LateInv
<1>3. WorkerInv
  BY DEF WorkerInv
<1>4. SizesInv
  BY DEF SizesInv
<1> QED
  BY <1>1, <1>2, <1>3, <1>4 DEF IInv

-----------------------------------------------------------------------------
(* The queue and the worker.                                                 *)

\* A step that leaves the queue and the late requests alone.
LEMMA NextQueue == ASSUME IInv, [Next]_vars PROVE QueueInv' /\ LateInv'
<1> USE DEF IInv, vars, task, containers, refresher, aside, Step
<1>a. TypeOK /\ QueueInv /\ LateInv /\ WorkerInv
  OBVIOUS
<1>1. CASE UNCHANGED <<asked, queue, pc, late>>
  BY <1>1 DEF QueueInv, LateInv
<1>2. ASSUME NEW r \in Asks, Submit(r) PROVE QueueInv' /\ LateInv'
  <2>1. queue \in Seq(Ids \X Requests) /\ asked \in Nat /\ <<asked + 1, r>> \in Ids \X Requests
    BY <1>2 DEF Submit, TypeOK, Ids
  <2>2. /\ Len(queue) \in Nat /\ Len(queue') = Len(queue) + 1
        /\ \A j \in 1..Len(queue) : queue'[j] = queue[j]
        /\ queue'[Len(queue) + 1] = <<asked + 1, r>>
    BY <1>2, <2>1, AppendFacts DEF Submit
  <2>3. asked' = asked + 1 /\ UNCHANGED <<late, pc>>
    BY <1>2 DEF Submit
  <2>6. /\ \A j \in 1..Len(queue') : j \in 1..Len(queue) \/ j = Len(queue) + 1
        /\ queue'[Len(queue) + 1][1] = asked + 1 /\ queue'[Len(queue) + 1][2] = r
    BY <2>2
  <2>4. QueueInv'
    <3>1. ASSUME NEW j \in 1..Len(queue') PROVE queue'[j][1] \in 1..asked' /\ queue'[j][2] \in Asks
      BY <1>a, <2>1, <2>2, <2>3, <2>6 DEF QueueInv
    <3>2. ASSUME NEW j \in 1..Len(queue'), NEW l \in 1..Len(queue'), queue'[j][1] = queue'[l][1]
          PROVE  j = l
      BY <1>a, <2>1, <2>2, <2>6, <3>2 DEF QueueInv
    <3> QED
      BY <3>1, <3>2 DEF QueueInv
  <2>5. LateInv'
    <3> SUFFICES ASSUME NEW p \in late
                 PROVE  /\ p[1] \in 1..asked + 1 /\ p[2] \in Asks
                        /\ \A j \in 1..Len(queue') : p[1] = queue'[j][1] => j = 1 /\ pc = "finally"
      BY <2>3 DEF LateInv
    <3>1. p[1] \in 1..asked /\ p[2] \in Asks /\ p[1] # asked + 1
      BY <1>a, <2>1 DEF LateInv
    <3>2. \A j \in 1..Len(queue) : p[1] = queue[j][1] => j = 1 /\ pc = "finally"
      BY <1>a DEF LateInv
    <3> QED
      BY <2>1, <2>2, <2>6, <3>1, <3>2
  <2> QED
    BY <2>4, <2>5
<1>3. ASSUME NEW i \in 1..asked, NEW r \in Asks, LateEffect(i, r) PROVE QueueInv' /\ LateInv'
  BY <1>3 DEF LateEffect, QueueInv, LateInv
<1>4. CASE Lost
  <2>1. queue # <<>> /\ late' = late \cup {<<Number, Request>>} /\ pc' = "finally"
        /\ UNCHANGED <<asked, queue>>
    BY <1>4 DEF Lost
  <2>2. Number \in 1..asked /\ Request \in Asks /\ Number = queue[1][1] /\ 1 \in 1..Len(queue)
    BY <1>a, <2>1, HeadFacts DEF Number
  <2>3. QueueInv'
    BY <2>1 DEF QueueInv
  <2>4. LateInv'
    BY <1>a, <2>1, <2>2 DEF LateInv, QueueInv
  <2> QED
    BY <2>3, <2>4
<1>5. CASE Finish
  <2>1. queue # <<>> /\ queue' = Tail(queue) /\ UNCHANGED <<asked, late>> /\ pc = "finally"
    BY <1>5 DEF Finish
  <2>2. /\ Len(queue') \in Nat /\ Len(queue) = Len(queue') + 1
        /\ \A j \in 1..Len(queue') : queue'[j] = queue[j + 1] /\ j + 1 \in 1..Len(queue)
    BY <2>1, TailFacts DEF TypeOK
  <2>3. QueueInv'
    <3>1. ASSUME NEW j \in 1..Len(queue') PROVE queue'[j][1] \in 1..asked' /\ queue'[j][2] \in Asks
      BY <1>a, <2>1, <2>2 DEF QueueInv
    <3>2. ASSUME NEW j \in 1..Len(queue'), NEW l \in 1..Len(queue'), queue'[j][1] = queue'[l][1]
          PROVE  j = l
      <4>1. j + 1 = l + 1
        BY <1>a, <2>2, <3>2 DEF QueueInv
      <4> QED
        BY <2>2, <4>1
    <3> QED
      BY <3>1, <3>2 DEF QueueInv
  <2>4. LateInv'
    <3>1. ASSUME NEW p \in late, NEW j \in 1..Len(queue'), p[1] = queue'[j][1] PROVE FALSE
      <4>1. p[1] = queue[j + 1][1] /\ j + 1 \in 1..Len(queue)
        BY <2>2, <3>1
      <4>2. j + 1 = 1
        BY <1>a, <4>1 DEF LateInv
      <4> QED
        BY <2>2, <4>2
    <3> QED
      BY <1>a, <2>1, <3>1 DEF LateInv
  <2> QED
    BY <2>3, <2>4
<1>6. CASE UNCHANGED <<asked, queue, late>> /\ (pc' = pc \/ pc # "finally")
  BY <1>6 DEF QueueInv, LateInv
<1>7. CASE Begin \/ Stop \/ ListFails \/ StopRaises
  BY <1>6, <1>7 DEF Begin, Stop, ListFails, StopRaises
<1>8. CASE Answered \/ NothingToDelete \/ Refused \/ Forget
  BY <1>6, <1>8 DEF Answered, NothingToDelete, Refused, Forget
<1>9. ASSUME NEW c \in Changes, Apply(c) PROVE QueueInv' /\ LateInv'
  BY <1>6, <1>9 DEF Apply, Changes
<1>10. CASE List \/ StartRefresh \/ (\E n \in Names : Measure(n)) \/ Store
  BY <1>1, <1>10 DEF List, StartRefresh, Measure, Store
<1>11. CASE UNCHANGED vars
  BY <1>1, <1>11
<1> QED
  BY <1>2, <1>3, <1>4, <1>5, <1>7, <1>8, <1>9, <1>10, <1>11 DEF Next, WorkerNext

LEMMA NextWorker == ASSUME IInv, [Next]_vars PROVE WorkerInv'
<1> USE DEF IInv, vars, task, containers, refresher, aside, Step, WorkerInv
<1>a. TypeOK /\ QueueInv
  OBVIOUS
<1>b. ASSUME queue # <<>> PROVE Request \in Requests
  BY <1>a, <1>b, HeadFacts
<1>1. CASE UNCHANGED <<queue, pc, verdict, applied>>
  BY <1>1 DEF Request
<1>2. ASSUME NEW r \in Asks, Submit(r) PROVE WorkerInv'
  <2>1. queue \in Seq(Ids \X Requests) /\ asked \in Nat /\ <<asked + 1, r>> \in Ids \X Requests
    BY <1>2 DEF Submit, TypeOK, Ids
  <2>2. queue' # <<>> /\ (queue # <<>> => queue'[1] = queue[1])
    BY <1>2, <2>1, AppendFacts, EmptySeq DEF Submit
  <2> QED
    BY <1>2, <2>2 DEF Submit, Request
<1>3. ASSUME NEW i \in 1..asked, NEW r \in Asks, LateEffect(i, r) PROVE WorkerInv'
  BY <1>1, <1>3 DEF LateEffect
<1>4. CASE Begin
  BY <1>4, <1>b, RequestFacts DEF Begin, AfterStop, Request, Changes
<1>5. CASE Stop
  BY <1>5, <1>b, RequestFacts DEF Stop, AfterStop, Request, Changes
<1>6. CASE ListFails
  BY <1>6, <1>b, RequestFacts DEF ListFails, AfterStop, Request, Changes
<1>7. CASE StopRaises
  BY <1>7 DEF StopRaises, Request
<1>8. CASE Answered
  <2>1. Request.op = "rename" => Request.to # Request.name
    BY <1>8 DEF Answered, Perform, Possible
  <2> QED
    BY <1>8, <2>1 DEF Answered, Request
<1>9. CASE NothingToDelete
  BY <1>9 DEF NothingToDelete, Request
<1>10. CASE Refused
  BY <1>10 DEF Refused, Request
<1>11. CASE Lost
  BY <1>11 DEF Lost, Request
<1>12. ASSUME NEW c \in Changes, Apply(c) PROVE WorkerInv'
  <2>1. Request \in Requests
    BY <1>12, <1>b DEF Apply
  <2>2. Request.change \subseteq {"mode", "owner"}
    BY <1>12, <2>1, RequestFacts DEF Apply, Changes
  <2> QED
    BY <1>12, <2>2 DEF Apply, Request, Changes
<1>13. CASE Forget
  BY <1>13 DEF Forget, Request
<1>14. CASE Finish
  BY <1>14 DEF Finish
<1>15. CASE List \/ StartRefresh \/ (\E n \in Names : Measure(n)) \/ Store
  BY <1>1, <1>15 DEF List, StartRefresh, Measure, Store
<1>16. CASE UNCHANGED vars
  BY <1>1, <1>16
<1> QED
  BY <1>2, <1>3, <1>4, <1>5, <1>6, <1>7, <1>8, <1>9, <1>10, <1>11, <1>12, <1>13, <1>14, <1>15, <1>16
     DEF Next, WorkerNext

-----------------------------------------------------------------------------
(* The types, and the size cache.                                            *)

\* The sizes of the cache are the sizes of volumes.
CacheOK(c) == DOMAIN c \subseteq Names /\ \A n \in DOMAIN c : c[n] \in Sizes

LEMMA CacheFacts == ASSUME NEW c PROVE CacheOK(c) <=> DOMAIN c \subseteq Names /\ Range(c) \subseteq Sizes
  BY DEF CacheOK, Range

LEMMA NextType == ASSUME IInv, [Next]_vars PROVE TypeOK'
<1> USE DEF vars, task, containers, refresher, aside, Step
<1>a. TypeOK /\ QueueInv /\ LateInv /\ WorkerInv /\ SizesInv
  BY DEF IInv
<1>b. ASSUME queue # <<>> PROVE Number \in Ids /\ Request \in Requests
  BY <1>a, <1>b, HeadFacts
<1>1. ASSUME NEW r \in Asks, Submit(r) PROVE TypeOK'
  <2>1. asked + 1 \in Ids /\ asked' \in 0..MaxRequests
    BY <1>1, <1>a DEF Submit, TypeOK, Ids
  <2>2. queue' \in Seq(Ids \X Requests)
    BY <1>1, <1>a, <2>1, AppendFacts DEF Submit, TypeOK
  <2> QED
    BY <1>1, <1>a, <2>1, <2>2 DEF Submit, TypeOK
<1>2. ASSUME NEW i \in 1..asked, NEW r \in Asks, LateEffect(i, r) PROVE TypeOK'
  <2>1. i \in Ids /\ r \in Requests
    BY <1>a DEF TypeOK, Ids
  <2>2. dir' \in [Names -> Sizes] /\ trace' \in [Names -> SUBSET Ids]
    BY <1>2, <1>a, <2>1, PerformFacts DEF LateEffect, TypeOK
  <2> QED
    BY <1>2, <1>a, <2>2 DEF LateEffect, TypeOK
<1>3. CASE Begin
  BY <1>3, <1>a DEF Begin, AfterStop, TypeOK
<1>4. CASE Stop
  BY <1>4, <1>a DEF Stop, AfterStop, Users, TypeOK
<1>5. CASE ListFails
  BY <1>5, <1>a DEF ListFails, AfterStop, TypeOK
<1>6. CASE StopRaises
  BY <1>6, <1>a DEF StopRaises, TypeOK
<1>7. CASE Answered
  <2>1. Number \in Ids /\ Request \in Requests /\ Perform(Number, Request)
    BY <1>7, <1>b DEF Answered
  <2>2. dir' \in [Names -> Sizes] /\ trace' \in [Names -> SUBSET Ids]
    BY <1>a, <2>1, PerformFacts
  <2> QED
    BY <1>7, <1>a, <2>2 DEF Answered, TypeOK
<1>8. CASE NothingToDelete
  BY <1>8, <1>a DEF NothingToDelete, TypeOK
<1>9. CASE Refused
  BY <1>9, <1>a DEF Refused, TypeOK
<1>10. CASE Lost
  BY <1>10, <1>a, <1>b DEF Lost, TypeOK
<1>11. ASSUME NEW c \in Changes, Apply(c) PROVE TypeOK'
  BY <1>11, <1>a DEF Apply, TypeOK
<1>12. CASE Forget
  <2>1. Request \in Requests
    BY <1>12, <1>b DEF Forget
  <2>2. CacheOK(cache) /\ dir \in [Names -> Sizes] /\ trace \in [Names -> SUBSET Ids]
    BY <1>a, CacheFacts DEF TypeOK
  <2> DEFINE n == Request.name
             left == Restrict(cache, DOMAIN cache \ {n})
  <2>3. n \in Names /\ (Request.op = "rename" => Request.to \in Names)
    BY <2>1, RequestFacts
  <2>4. CacheOK(left)
    BY <2>2 DEF CacheOK, Restrict
  <2>5. CacheOK(cache')
    <3>1. CASE Request.op = "rename" /\ n \in DOMAIN cache
      <4>1. cache' = WithSize(left, Request.to, cache[n]) /\ cache[n] \in Sizes
        BY <1>12, <2>2, <3>1 DEF Forget, CacheOK
      <4> QED
        BY <2>3, <2>4, <3>1, <4>1 DEF CacheOK, WithSize
    <3>2. CASE ~(Request.op = "rename" /\ n \in DOMAIN cache)
      BY <1>12, <2>4, <3>2 DEF Forget
    <3> QED
      BY <3>1, <3>2
  <2>6. Here(n) \subseteq Ids
    BY <2>2, <2>3 DEF Here, Ids, Sizes
  <2>7. trace' \in [Names -> SUBSET Ids]
    BY <1>12, <2>2, <2>3, <2>6 DEF Forget
  <2>8. DOMAIN cache' \subseteq Names /\ Range(cache') \subseteq Sizes
    BY <2>5, CacheFacts
  <2> HIDE DEF n, left
  <2> QED
    BY <1>12, <1>a, <2>7, <2>8 DEF Forget, TypeOK
<1>13. CASE Finish
  <2>1. queue' \in Seq(Ids \X Requests)
    BY <1>13, <1>a, TailFacts DEF Finish, TypeOK
  <2> QED
    BY <1>13, <1>a, <2>1 DEF Finish, TypeOK
<1>14. CASE List
  BY <1>14, <1>a DEF List, Missing, TypeOK
<1>15. CASE StartRefresh
  BY <1>15, <1>a DEF StartRefresh, TypeOK
<1>16. ASSUME NEW n \in Names, Measure(n) PROVE TypeOK'
  <2>1. measured' \subseteq Names \X Sizes
    BY <1>16, <1>a DEF Measure, TypeOK, Sizes
  <2> QED
    BY <1>16, <1>a, <2>1 DEF Measure, TypeOK
<1>17. CASE Store
  <2>1. PICK n \in Names, s \in Sizes : cache' = WithSize(cache, n, s)
    BY <1>17 DEF Store
  <2>2. CacheOK(cache')
    <3>1. CacheOK(cache)
      BY <1>a, CacheFacts DEF TypeOK
    <3> QED
      BY <2>1, <3>1 DEF CacheOK, WithSize
  <2>3. DOMAIN cache' \subseteq Names /\ Range(cache') \subseteq Sizes
    BY <2>2, CacheFacts
  <2> QED
    BY <1>17, <1>a, <2>3 DEF Store, TypeOK
<1>18. CASE UNCHANGED vars
  BY <1>18, <1>a DEF TypeOK
<1> QED
  BY <1>1, <1>2, <1>3, <1>4, <1>5, <1>6, <1>7, <1>8, <1>9, <1>10, <1>11, <1>12, <1>13, <1>14,
     <1>15, <1>16, <1>17, <1>18 DEF Next, WorkerNext

\* Every size that is stored, or about to be, is that of a volume that had the name.
LEMMA NextSizes == ASSUME IInv, [Next]_vars PROVE SizesInv'
<1> USE DEF vars, task, containers, refresher, aside, Step
<1>a. TypeOK /\ QueueInv /\ WorkerInv /\ SizesInv
  BY DEF IInv
<1>b. ASSUME queue # <<>> PROVE Number \in Ids /\ Request \in Requests
  BY <1>a, <1>b, HeadFacts
<1>1. CASE UNCHANGED <<dir, cache, measured, trace>>
  BY <1>1, <1>a DEF SizesInv
<1>2. CASE /\ UNCHANGED <<cache, measured>>
           /\ \A n \in Names : dir'[n] # 0 => dir'[n] \in trace'[n]
           /\ \A n \in Names : trace[n] \subseteq trace'[n]
  BY <1>2, <1>a DEF SizesInv, TypeOK
<1>3. ASSUME NEW r \in Asks, Submit(r) PROVE SizesInv'
  BY <1>1, <1>3 DEF Submit
<1>4. ASSUME NEW i \in 1..asked, NEW r \in Asks, LateEffect(i, r) PROVE SizesInv'
  <2>1. i \in Ids /\ r \in Requests
    BY <1>a DEF TypeOK, Ids
  <2>2. CASE Perform(i, r)
    BY <1>2, <1>4, <1>a, <2>1, <2>2, PerformFacts DEF LateEffect
  <2> QED
    BY <1>1, <1>4, <2>2 DEF LateEffect
<1>5. CASE Answered
  <2>1. Number \in Ids /\ Request \in Requests /\ Perform(Number, Request)
    BY <1>5, <1>b DEF Answered
  <2> QED
    BY <1>2, <1>5, <1>a, <2>1, PerformFacts DEF Answered
<1>6. CASE Begin \/ Stop \/ ListFails \/ StopRaises \/ NothingToDelete \/ Refused \/ Lost \/ Finish
  BY <1>1, <1>6 DEF Begin, Stop, ListFails, StopRaises, NothingToDelete, Refused, Lost, Finish
<1>7. ASSUME NEW c \in Changes, Apply(c) PROVE SizesInv'
  BY <1>1, <1>7 DEF Apply
<1>8. CASE Forget
  <2> DEFINE n == Request.name
             left == Restrict(cache, DOMAIN cache \ {n})
             cleared == [trace EXCEPT ![n] = IF Settled(n) THEN Here(n) ELSE @]
  <2>1. Request \in Requests /\ queue # <<>> /\ pc = "forget" /\ UNCHANGED <<dir, measured>>
    BY <1>8, <1>b DEF Forget
  <2>2. n \in Names /\ (Request.op = "rename" => Request.to \in Names \ {n})
    BY <1>a, <2>1, RequestFacts DEF WorkerInv
  <2>3. /\ cleared \in [Names -> SUBSET Ids]
        /\ \A m \in Names \ {n} : cleared[m] = trace[m]
        /\ cleared[n] = IF Settled(n) THEN Here(n) ELSE trace[n]
    BY <1>a, <2>2 DEF TypeOK, Here, Ids, Sizes
  <2>4. \A m \in Names : cleared[m] \subseteq trace'[m]
    BY <1>8, <2>2, <2>3 DEF Forget
  <2>5. ASSUME NEW m \in Names, dir[m] # 0 PROVE dir[m] \in trace'[m]
    BY <1>a, <2>3, <2>4, <2>5 DEF SizesInv, Here
  <2>6. ASSUME NEW m \in DOMAIN cache' PROVE cache'[m] \in {0} \cup trace'[m]
    <3>1. DOMAIN left = DOMAIN cache \ {n} /\ \A l \in DOMAIN left : left[l] = cache[l]
      BY DEF Restrict
    <3>2. \A l \in DOMAIN left : l \in Names /\ left[l] \in {0} \cup trace'[l]
      BY <1>a, <2>3, <2>4, <3>1 DEF SizesInv, TypeOK
    <3>3. CASE Request.op = "rename" /\ n \in DOMAIN cache
      <4>1. /\ cache' = WithSize(left, Request.to, cache[n])
            /\ trace' = [cleared EXCEPT ![Request.to] = @ \cup trace[n]]
        BY <1>8, <3>3 DEF Forget
      <4>2. CASE m = Request.to
        BY <1>a, <2>2, <2>3, <3>3, <4>1, <4>2 DEF SizesInv, WithSize
      <4>3. CASE m # Request.to
        <5>1. m \in DOMAIN left /\ cache'[m] = left[m]
          BY <4>1, <4>3, <2>6 DEF WithSize
        <5> QED
          BY <3>2, <5>1
      <4> QED
        BY <4>2, <4>3
    <3>4. CASE ~(Request.op = "rename" /\ n \in DOMAIN cache)
      BY <1>8, <2>6, <3>2, <3>4 DEF Forget
    <3> QED
      BY <3>3, <3>4
  <2>7. ASSUME NEW m \in Names, NEW s \in Sizes, <<m, s>> \in measured PROVE s \in {0} \cup trace'[m]
    BY <1>a, <2>3, <2>4, <2>7 DEF SizesInv, Settled
  <2> HIDE DEF n, left, cleared
  <2> QED
    BY <2>1, <2>5, <2>6, <2>7 DEF SizesInv
<1>9. CASE List \/ StartRefresh
  BY <1>1, <1>9 DEF List, StartRefresh
<1>10. ASSUME NEW n \in Names, Measure(n) PROVE SizesInv'
  BY <1>10, <1>a DEF Measure, SizesInv
<1>11. CASE Store
  <2>1. PICK n \in Names, s \in Sizes : <<n, s>> \in measured /\ cache' = WithSize(cache, n, s)
    BY <1>11 DEF Store
  <2>2. \A m \in DOMAIN cache' : cache'[m] \in {0} \cup trace[m]
    BY <1>a, <2>1 DEF SizesInv, WithSize
  <2> QED
    BY <1>11, <1>a, <2>2 DEF Store, SizesInv
<1>12. CASE UNCHANGED vars
  BY <1>1, <1>12
<1> QED
  BY <1>3, <1>4, <1>5, <1>6, <1>7, <1>8, <1>9, <1>10, <1>11, <1>12 DEF Next, WorkerNext

\* The inductive invariant is one.
LEMMA IInvHolds == Spec => []IInv
<1>1. IInv /\ [Next]_vars => IInv'
  BY NextType, NextQueue, NextWorker, NextSizes DEF IInv
<1> QED
  BY <1>1, InitIInv, PTL DEF Spec

\* The types, and that a size that is shown is the volume's own, unless the name was another
\* volume's before and its entry survived.
THEOREM SizesAreOwn == Spec => []SizeInv
<1>1. IInv => SizeInv
  BY DEF IInv, SizeInv, OwnSize, SizesInv, TypeOK
<1> QED
  BY <1>1, IInvHolds, PTL

-----------------------------------------------------------------------------
(* A change of permissions.                                                  *)

\* However it ends, its lock file goes and its containers are started again; it is
\* "completed" only when every command it was asked for was run.
THEOREM PermissionsAreRestored == Spec => PermissionsRestore
<1> DEFINE Restores == (pc = "finally" /\ pc' = "idle" /\ Request.op = "permissions") =>
                         /\ ~locked'
                         /\ Request.start => stopped \subseteq running' \cup warned'
                         /\ verdict => applied = Request.change
<1>1. ASSUME IInv, Next, pc = "finally", pc' = "idle" PROVE Finish
  <2> USE <1>1 DEF vars, task, containers, refresher, aside, Step
  <2>1. CASE WorkerNext
    BY <2>1 DEF WorkerNext, Begin, Stop, ListFails, StopRaises, Answered, NothingToDelete, Refused, Lost,
                Apply, Forget, Changes
  <2>2. CASE ~WorkerNext
    BY <2>2 DEF Next, Submit, LateEffect, List, StartRefresh, Measure, Store
  <2> QED
    BY <2>1, <2>2
<1>2. IInv /\ Finish => Restores
  BY DEF Finish, IInv, WorkerInv, Step
<1>3. IInv /\ [Next]_vars => [Restores]_vars
  BY <1>1, <1>2
<1> QED
  BY <1>3, IInvHolds, PTL DEF Spec, PermissionsRestore

-----------------------------------------------------------------------------
(* Refinement: the pool keeps the promise of VolumePool.                     *)

\* The requests of the queue that have had no effect yet.
OpenQueue == IF pc \in {"forget", "finally"} THEN Tail(queue) ELSE queue
Open == late \cup Range(OpenQueue)

\* The request the worker is at is open until its call is over, then those behind it are.
LEMMA OpenFacts ==
  ASSUME IInv, queue # <<>>
  PROVE  /\ Range(queue) = Range(Tail(queue)) \cup {<<Number, Request>>}
         /\ <<Number, Request>> \notin Range(Tail(queue))
         /\ pc # "finally" => <<Number, Request>> \notin late
<1>a. TypeOK /\ QueueInv /\ LateInv
  BY DEF IInv
<1>1. queue[1] = <<Number, Request>> /\ 1 \in 1..Len(queue)
  BY <1>a, HeadFacts
<1>2. \A j, l \in 1..Len(queue) : queue[j] = queue[l] => j = l
  BY <1>a DEF QueueInv
<1>3. Range(queue) = Range(Tail(queue)) \cup {queue[1]} /\ queue[1] \notin Range(Tail(queue))
  BY <1>a, <1>2, TailFacts DEF TypeOK
<1>4. pc # "finally" => queue[1] \notin late
  BY <1>a, <1>1 DEF LateInv
<1> QED
  BY <1>1, <1>3, <1>4

\* A request that was given up is not in the open part of the queue as well.
LEMMA LateIsOver == ASSUME IInv, NEW p \in late PROVE p \notin Range(OpenQueue)
<1>a. TypeOK /\ QueueInv /\ LateInv /\ WorkerInv
  BY DEF IInv
<1>1. CASE pc \in {"forget", "finally"}
  <2>1. queue # <<>>
    BY <1>1, <1>a DEF WorkerInv
  <2>2. SUFFICES ASSUME NEW j \in 1..Len(Tail(queue)), p = Tail(queue)[j] PROVE FALSE
    BY <1>1, <1>a, <2>1, TailFacts DEF OpenQueue, Range, TypeOK
  <2>3. p = queue[j + 1] /\ j + 1 \in 1..Len(queue)
    BY <1>a, <2>1, <2>2, TailFacts DEF TypeOK
  <2>4. j + 1 = 1
    BY <1>a, <2>3 DEF LateInv
  <2> QED
    BY <2>4
<1>2. CASE pc \notin {"forget", "finally"}
  <2>1. SUFFICES ASSUME NEW j \in 1..Len(queue), p = queue[j] PROVE FALSE
    BY <1>2, <1>a DEF OpenQueue, Range, TypeOK
  <2> QED
    BY <1>2, <1>a, <2>1 DEF LateInv
<1> QED
  BY <1>1, <1>2

LEMMA InitPool == Init => Promise!PoolInit
<1> SUFFICES ASSUME Init PROVE Promise!PoolInit
  OBVIOUS
<1>1. late \cup Range(IF pc \in {"forget", "finally"} THEN Tail(queue) ELSE queue) = {}
  BY DEF Init, Range
<1>2. \/ dir = [n \in Names |-> 0] /\ asked = 0
      \/ asked = 1 /\ \E m \in Names : dir = [n \in Names |-> IF n = m THEN 1 ELSE 0]
  BY DEF Init
<1> QED
  BY <1>1, <1>2 DEF Promise!PoolInit

\* A request that takes effect in a step that closes it.
LEMMA EffectIsPromised ==
  ASSUME IInv, NEW i \in 1..asked, NEW r \in Asks,
         <<i, r>> \in Open, Open' = Open \ {<<i, r>>}, UNCHANGED asked,
         Perform(i, r) \/ UNCHANGED dir
  PROVE  Promise!PoolNext
<1>1. Promise!Close(i, r)
  BY DEF Promise!Close, Open, OpenQueue
<1>2. CASE UNCHANGED dir
  BY <1>1, <1>2 DEF Promise!PoolNext, Promise!Drop
<1>3. CASE Perform(i, r)
  <2>1. Promise!Create(i, r) \/ Promise!Rename(i, r) \/ Promise!Delete(i, r)
    BY <1>1, <1>3, RequestFacts DEF Perform, Possible, Promise!Create, Promise!Rename, Promise!Delete
  <2> QED
    BY <2>1 DEF Promise!PoolNext
<1> QED
  BY <1>2, <1>3

\* The worker's call is over: its request is closed, whether it had an effect or not.
LEMMA CallIsOver ==
  ASSUME IInv, queue # <<>>, pc \notin {"forget", "finally"}, pc' \in {"forget", "finally"},
         UNCHANGED <<asked, queue, late>>, Perform(Number, Request) \/ UNCHANGED dir
  PROVE  Promise!PoolNext
<1>1. Number \in 1..asked /\ Request \in Asks
  BY HeadFacts DEF IInv
<1>2. Open = late \cup Range(queue) /\ Open' = late \cup Range(Tail(queue))
  BY DEF Open, OpenQueue
<1>3. <<Number, Request>> \in Open /\ Open' = Open \ {<<Number, Request>>}
  BY <1>2, OpenFacts
<1> QED
  BY <1>1, <1>3, EffectIsPromised

LEMMA NextPool == ASSUME IInv, [Next]_vars PROVE [Promise!PoolNext]_(Promise!poolVars)
<1> USE DEF vars, task, containers, refresher, aside, Step
<1>a. TypeOK /\ QueueInv /\ LateInv /\ WorkerInv
  BY DEF IInv
<1>1. CASE UNCHANGED <<dir, asked, Open>>
  BY <1>1 DEF Promise!poolVars, Open, OpenQueue
<1>2. ASSUME NEW r \in Asks, Submit(r) PROVE Promise!PoolNext
  <2>1. queue \in Seq(Ids \X Requests) /\ <<asked + 1, r>> \in Ids \X Requests
    BY <1>a, <1>2 DEF Submit, TypeOK, Ids
  <2>2. asked' = asked + 1 /\ UNCHANGED <<dir, pc, late>> /\ queue' = Append(queue, <<asked + 1, r>>)
    BY <1>2 DEF Submit
  <2>3. Range(OpenQueue') = Range(OpenQueue) \cup {<<asked + 1, r>>}
    <3>1. CASE pc \in {"forget", "finally"}
      <4>1. queue # <<>>
        BY <1>a, <3>1 DEF WorkerInv
      <4> DEFINE rest == Tail(queue)
      <4>2. OpenQueue = rest /\ OpenQueue' = Append(rest, <<asked + 1, r>>)
        BY <2>1, <2>2, <3>1, <4>1, AppendFacts DEF OpenQueue
      <4> DEFINE S == Ids \X Requests
      <4>3. rest \in Seq(S) /\ <<asked + 1, r>> \in S
        BY <2>1, <4>1, TailFacts
      <4> HIDE DEF S, rest
      <4> QED
        BY <4>2, <4>3, AppendFacts
    <3>2. CASE pc \notin {"forget", "finally"}
      <4>1. OpenQueue = queue /\ OpenQueue' = Append(queue, <<asked + 1, r>>)
        BY <2>2, <3>2 DEF OpenQueue
      <4> QED
        BY <2>1, <4>1, AppendFacts
    <3> QED
      BY <3>1, <3>2
  <2>4. Promise!Ask(r)
    BY <2>2, <2>3 DEF Promise!Ask, OpenQueue
  <2> QED
    BY <2>4 DEF Promise!PoolNext
<1>3. ASSUME NEW i \in 1..asked, NEW r \in Asks, LateEffect(i, r) PROVE Promise!PoolNext
  <2>1. /\ <<i, r>> \in late /\ late' = late \ {<<i, r>>} /\ UNCHANGED <<asked, queue, pc>>
        /\ Perform(i, r) \/ UNCHANGED dir
    BY <1>3 DEF LateEffect
  <2>2. <<i, r>> \notin Range(OpenQueue) /\ UNCHANGED OpenQueue
    BY <2>1, LateIsOver DEF OpenQueue
  <2>3. <<i, r>> \in Open /\ Open' = Open \ {<<i, r>>}
    BY <2>1, <2>2 DEF Open
  <2> QED
    BY <2>1, <2>3, EffectIsPromised
<1>4. CASE Lost
  <2>1. Open' = late \cup {<<Number, Request>>} \cup Range(Tail(queue)) /\ Open = late \cup Range(queue)
    BY <1>4 DEF Lost, Open, OpenQueue
  <2>2. UNCHANGED <<dir, asked, Open>>
    BY <1>4, <2>1, OpenFacts DEF Lost
  <2> QED
    BY <1>1, <2>2
<1>5. CASE Finish
  <2>1. UNCHANGED <<dir, asked, Open>>
    BY <1>5 DEF Finish, Open, OpenQueue
  <2> QED
    BY <1>1, <2>1
<1>6. CASE Begin \/ Stop \/ ListFails
  <2>1. UNCHANGED <<dir, asked, late, queue>> /\ pc \notin {"forget", "finally"} /\ pc' \notin {"forget", "finally"}
    BY <1>6 DEF Begin, Stop, ListFails, AfterStop
  <2> QED
    BY <1>1, <2>1 DEF Open, OpenQueue
<1>7. CASE Answered \/ NothingToDelete \/ Refused \/ StopRaises
  <2>1. /\ queue # <<>> /\ pc \notin {"forget", "finally"} /\ pc' \in {"forget", "finally"}
        /\ UNCHANGED <<asked, queue, late>> /\ (Perform(Number, Request) \/ UNCHANGED dir)
    BY <1>7 DEF Answered, NothingToDelete, Refused, StopRaises
  <2> QED
    BY <2>1, CallIsOver
<1>8. ASSUME NEW c \in Changes, Apply(c) PROVE [Promise!PoolNext]_(Promise!poolVars)
  <2>1. queue # <<>> /\ pc \in {"mode", "owner"} /\ UNCHANGED <<asked, queue, late, dir>>
        /\ pc' \in {"owner", "finally"}
    BY <1>8 DEF Apply, Changes
  <2>2. CASE pc' = "owner"
    BY <1>1, <2>1, <2>2 DEF Open, OpenQueue
  <2>3. CASE pc' = "finally"
    BY <2>1, <2>3, CallIsOver
  <2> QED
    BY <2>1, <2>2, <2>3
<1>9. CASE Forget
  <2>1. UNCHANGED <<dir, asked, Open>>
    BY <1>9 DEF Forget, Open, OpenQueue
  <2> QED
    BY <1>1, <2>1
<1>10. CASE List \/ StartRefresh \/ (\E n \in Names : Measure(n)) \/ Store \/ UNCHANGED vars
  <2>1. UNCHANGED <<dir, asked, Open>>
    BY <1>10 DEF List, StartRefresh, Measure, Store, Open, OpenQueue
  <2> QED
    BY <1>1, <2>1
<1> QED
  BY <1>2, <1>3, <1>4, <1>5, <1>6, <1>7, <1>8, <1>9, <1>10 DEF Next, WorkerNext

\* Volumes appear, change their names and go as the requests say, each request at most once
\* and none over a volume that is there, also when the answer to a request is lost.
THEOREM PoolKeepsPromise == Spec => ImplementsVolumePool
  BY InitPool, NextPool, IInvHolds, PTL DEF Spec, ImplementsVolumePool, Promise!PoolSpec

-----------------------------------------------------------------------------
(* What follows from that promise alone: a volume has one name.              *)

\* No volume goes by two names.
OneName == \A m, n \in Names : dir[m] # 0 /\ dir[m] = dir[n] => m = n

\* The numbers of the volumes and of the open requests have been given out, each open
\* request has one of its own, and it has made no volume yet.
PoolInv ==
  /\ asked \in Nat
  /\ dir \in [Names -> 0..asked]
  /\ \A p \in Open : p[1] \in 1..asked /\ \A n \in Names : dir[n] # p[1]
  /\ \A p, q \in Open : p[1] = q[1] => p = q
  /\ OneName

\* Every step of the promise keeps it, whatever the program does to take the step.
LEMMA PromiseKeepsNames ==
  ASSUME PoolInv, [Promise!PoolNext]_(Promise!poolVars)
  PROVE  PoolInv'
<1>a. /\ asked \in Nat /\ dir \in [Names -> 0..asked] /\ OneName
      /\ \A p \in Open : p[1] \in 1..asked /\ \A n \in Names : dir[n] # p[1]
      /\ \A p, q \in Open : p[1] = q[1] => p = q
  BY DEF PoolInv
<1>1. CASE UNCHANGED Promise!poolVars
  <2>1. UNCHANGED <<dir, asked, Open>>
    BY <1>1 DEF Promise!poolVars, Open, OpenQueue
  <2> QED
    BY <2>1 DEF PoolInv, OneName
<1>2. ASSUME NEW r \in Asks, Promise!Ask(r) PROVE PoolInv'
  <2>1. asked' = asked + 1 /\ dir' = dir /\ Open' = Open \cup {<<asked + 1, r>>}
    BY <1>2 DEF Promise!Ask, Open, OpenQueue
  <2>2. \A n \in Names : dir[n] # asked + 1
    BY <1>a
  <2>3. \A p \in Open : p[1] # asked + 1
    BY <1>a
  <2>4. \A p, q \in Open' : p[1] = q[1] => p = q
    BY <1>a, <2>1, <2>3
  <2>5. \A p \in Open' : p[1] \in 1..asked + 1 /\ \A n \in Names : dir[n] # p[1]
    BY <1>a, <2>1, <2>2
  <2> QED
    BY <1>a, <2>1, <2>4, <2>5 DEF PoolInv, OneName
<1>3. ASSUME NEW i \in 1..asked, NEW r \in Asks, Promise!Close(i, r),
             dir' \in [Names -> 0..asked], OneName',
             \A n \in Names : dir'[n] = i \/ dir'[n] = 0 \/ \E m \in Names : dir'[n] = dir[m]
      PROVE  PoolInv'
  <2>1. <<i, r>> \in Open /\ Open' = Open \ {<<i, r>>} /\ asked' = asked
    BY <1>3 DEF Promise!Close, Open, OpenQueue
  <2>2. \A p \in Open' : p[1] # i
    BY <1>a, <2>1
  <2>3. \A p \in Open' : p[1] \in 1..asked /\ \A n \in Names : dir'[n] # p[1]
    BY <1>a, <1>3, <2>1, <2>2
  <2> QED
    BY <1>a, <1>3, <2>1, <2>3 DEF PoolInv
<1>4. ASSUME NEW i \in 1..asked, NEW r \in Asks, Promise!Create(i, r) PROVE PoolInv'
  <2>1. /\ Promise!Close(i, r) /\ r.name \in Names /\ dir' = [dir EXCEPT ![r.name] = i]
        /\ <<i, r>> \in Open
    BY <1>4, RequestFacts DEF Promise!Create, Promise!Close, Open, OpenQueue
  <2>2. \A n \in Names : dir[n] # i
    BY <1>a, <2>1
  <2>3. dir' \in [Names -> 0..asked] /\ OneName'
    BY <1>a, <2>1, <2>2 DEF OneName
  <2> QED
    BY <1>3, <1>a, <2>1, <2>3
<1>5. ASSUME NEW i \in 1..asked, NEW r \in Asks, Promise!Rename(i, r) PROVE PoolInv'
  <2>1. /\ Promise!Close(i, r) /\ r.name \in Names /\ r.to \in Names /\ dir[r.name] # 0 /\ dir[r.to] = 0
        /\ dir' = [dir EXCEPT ![r.to] = dir[r.name], ![r.name] = 0]
    BY <1>5, RequestFacts DEF Promise!Rename
  <2>2. dir' \in [Names -> 0..asked] /\ OneName'
    BY <1>a, <2>1 DEF OneName
  <2>3. \A n \in Names : dir'[n] = 0 \/ \E m \in Names : dir'[n] = dir[m]
    BY <1>a, <2>1
  <2> QED
    BY <1>3, <2>1, <2>2, <2>3
<1>6. ASSUME NEW i \in 1..asked, NEW r \in Asks, Promise!Delete(i, r) PROVE PoolInv'
  <2>1. Promise!Close(i, r) /\ r.name \in Names /\ dir' = [dir EXCEPT ![r.name] = 0]
    BY <1>6, RequestFacts DEF Promise!Delete
  <2>2. dir' \in [Names -> 0..asked] /\ OneName'
    BY <1>a, <2>1 DEF OneName
  <2> QED
    BY <1>3, <1>a, <2>1, <2>2
<1>7. ASSUME NEW i \in 1..asked, NEW r \in Asks, Promise!Drop(i, r) PROVE PoolInv'
  <2>1. Promise!Close(i, r) /\ dir' = dir
    BY <1>7 DEF Promise!Drop
  <2> QED
    BY <1>3, <1>a, <2>1 DEF OneName
<1> QED
  BY <1>1, <1>2, <1>4, <1>5, <1>6, <1>7 DEF Promise!PoolNext

\* No volume goes by two names, whatever requests are made, in whatever order they take
\* effect, also when one that was reported as failed takes effect late (rename_volume,
\* create_volume).
THEOREM VolumesHaveOneName == Spec => []OneName
<1>1. Promise!PoolInit => PoolInv
  <2> SUFFICES ASSUME Promise!PoolInit PROVE PoolInv
    OBVIOUS
  <2>1. Open = {} /\ asked \in Nat
    BY DEF Promise!PoolInit, Open, OpenQueue
  <2>2. dir \in [Names -> 0..asked] /\ OneName
    BY DEF Promise!PoolInit, OneName
  <2> QED
    BY <2>1, <2>2 DEF PoolInv
<1>2. PoolInv => OneName
  BY DEF PoolInv
<1> QED
  BY <1>1, <1>2, PromiseKeepsNames, PoolKeepsPromise, PTL DEF ImplementsVolumePool, Promise!PoolSpec

=============================================================================
