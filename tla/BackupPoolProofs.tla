-------------------------- MODULE BackupPoolProofs --------------------------
(***************************************************************************)
(* Proofs about BackupPool, for every set of volumes and names, every      *)
(* retention and every bound on the clock.                                 *)
(*                                                                         *)
(* IInv follows the archive of the backup that is under way: which states  *)
(* of the worker have it in the staging area or in the pool, and what it   *)
(* holds there; and, as long as nothing irregular has happened, that the   *)
(* pool holds completed backups alone, whose names are in the order of     *)
(* their completion.  The last part is about what retention may remove,    *)
(* whatever the pool holds: names are in a strict total order (NameOrder). *)
(***************************************************************************)
EXTENDS BackupPool, FiniteSetTheorems, SequenceTheorems, TLAPS

USE BackupAssumption

\* Where the worker is when the name of the archive has been chosen.
Named == {"tar", "tarring", "tarVerdict", "upload", "uploadVerdict", "dropRemote", "verify", "complete"}

\* The timestamp in a name.
TimeOf(n) == n[Len(n)]

\* The name is one of the volume's; a task is open until it is finalized.
NameInv ==
  /\ pc \in Named => name \in NamesOf(src)
  /\ pc \in {"finally", "retention"} /\ outcome = "completed" => name \in NamesOf(src)
  /\ pc \notin {"idle", "finally", "retention"} => outcome = "open"
  /\ pc = "retention" => outcome = "completed"

\* What the archive of the current backup holds, on its way to the pool.
Good == {"whole", "short", "bad"}
ArchiveInv ==
  /\ pc = "tarVerdict" /\ ok => Target \in Good
  /\ pc = "upload" => remote /\ stage \in Good
  /\ pc = "uploadVerdict" => remote /\ (ok => pool[name] = stage /\ stage \in Good)
  /\ pc = "uploadVerdict" => stage \in Good
  /\ pc = "verify" => Target \in Good /\ pool[name] = Target
  /\ pc = "complete" => pool[name] \in {"whole", "short"} \/ (pool[name] = "bad" /\ ~verify)
  /\ CompletedMeansWhole

\* Tar writes into a local pool: there, an archive may be incomplete until its verdict,
\* and stay so.
PartialInv ==
  /\ remote => left = {}
  /\ \A n \in Names : pool[n] \in {"part", "thin"} =>
    \/ n \in left
    \/ n = name /\ ~remote /\ (pc = "tarring" \/ (pc = "tarVerdict" /\ ~ok))

\* Every archive in the pool is a completed backup, or that of the backup under way.
OnlyDone ==
  \A n \in Names : pool[n] # "none" =>
    \/ n \in done
    \/ n = name /\ pc \in (Named \cup {"failed", "error"}) \ {"tar"}

\* The names of the completed backups of a volume are in the order of their completion.
InOrder ==
  \A s \in Sources : \A m, n \in done \cap NamesOf(s) : TimeOf(m) < TimeOf(n) => m \in before[n]

\* No completed backup is later than the clock, nor than the backup under way.
InTime ==
  /\ \A n \in done : TimeOf(n) <= clock
  /\ pc \in Named => TimeOf(name) <= clock /\ \A n \in done : TimeOf(n) <= TimeOf(name)

RegularInv ==
  /\ pc \in {"finally", "retention"} /\ outcome = "completed" => name \in done
  /\ regular => OnlyDone /\ InOrder /\ InTime

IInv == TypeOK /\ NameInv /\ ArchiveInv /\ PartialInv /\ RegularInv

-----------------------------------------------------------------------------
(* Names, and what the steps do to an archive.                               *)

\* A name ends in its timestamp, which tells it from the others of its volume
\* and decides their order.
LEMMA NameFacts ==
  ASSUME NEW s \in Sources
  PROVE  /\ NamesOf(s) \subseteq Names
         /\ \A n \in NamesOf(s) : n # <<>> /\ TimeOf(n) \in Times
         /\ \A t \in Times : NameOf(s, t) \in NamesOf(s) /\ TimeOf(NameOf(s, t)) = t
         /\ \A m, n \in NamesOf(s) : TimeOf(m) = TimeOf(n) => m = n
         /\ \A m, n \in NamesOf(s) : TimeOf(m) < TimeOf(n) => Less(m, n)
<1> DEFINE p == Parts[s]
<1>1. p \in Seq(Nat) /\ Len(p) \in Nat
  <2>1. p \in Seq(Nat \ 0..MaxTime)
    OBVIOUS
  <2> QED
    BY <2>1
<1>2. ASSUME NEW t \in Times
      PROVE  /\ NameOf(s, t) \in Seq(Nat) /\ NameOf(s, t) # <<>> /\ TimeOf(NameOf(s, t)) = t
             /\ Len(NameOf(s, t)) = Len(p) + 1
             /\ \A i \in 1..Len(p) : NameOf(s, t)[i] = p[i]
  <2>1. t \in Nat
    BY DEF Times
  <2>2. NameOf(s, t) = Append(p, t)
    BY DEF NameOf
  <2> HIDE DEF p
  <2> QED
    BY <1>1, <2>1, <2>2 DEF TimeOf
<1>3. ASSUME NEW t \in Times, NEW u \in Times, t < u
      PROVE  Less(NameOf(s, t), NameOf(s, u))
  <2> DEFINE m == NameOf(s, t)
             n == NameOf(s, u)
             i == Len(p) + 1
  <2>1. Len(m) = i /\ Len(n) = i /\ m[i] = t /\ n[i] = u
    BY <1>2 DEF TimeOf
  <2>2. i \in 1..Len(m) /\ i <= Len(n)
    BY <1>1, <2>1
  <2>3. \A j \in 1..i - 1 : m[j] = n[j]
    BY <1>1, <1>2
  <2> HIDE DEF m, n, i
  <2>4. Less(m, n)
    BY <1>3, <2>1, <2>2, <2>3 DEF Less
  <2> QED
    BY <2>4 DEF m, n
<1>4. NamesOf(s) \subseteq Names
  BY DEF Names
<1>5. \A n \in NamesOf(s) : n # <<>> /\ TimeOf(n) \in Times /\ n = NameOf(s, TimeOf(n))
  BY <1>2 DEF NamesOf
<1>6. \A t \in Times : NameOf(s, t) \in NamesOf(s) /\ TimeOf(NameOf(s, t)) = t
  BY <1>2 DEF NamesOf
<1>7. \A m, n \in NamesOf(s) : TimeOf(m) = TimeOf(n) => m = n
  BY <1>5
<1>8. \A m, n \in NamesOf(s) : TimeOf(m) < TimeOf(n) => Less(m, n)
  BY <1>3, <1>5
<1> QED
  BY <1>4, <1>5, <1>6, <1>7, <1>8

\* What is written to the archive path goes to one place, and no other archive changes.
LEMMA TargetFacts ==
  ASSUME TypeOK, name \in Names, NEW c \in Contents, SetTarget(c), UNCHANGED <<remote, name>>
  PROVE  /\ pool' \in [Names -> Contents] /\ stage' \in Contents /\ Target' = c
         /\ \A n \in Names \ {name} : pool'[n] = pool[n]
         /\ IF remote THEN pool' = pool ELSE pool'[name] = c /\ stage' = stage
  BY DEF SetTarget, Target, TypeOK

LEMMA InitIInv == Init => IInv
<1> SUFFICES ASSUME Init PROVE IInv
  OBVIOUS
<1>1. TypeOK
  <2>1. clock \in Times /\ verify \in BOOLEAN
    BY DEF Init, Times
  <2>2. pool \in [Names -> Contents] /\ stage \in Contents /\ before \in [Names -> SUBSET Names]
    BY DEF Init, Contents
  <2>3. ok \in BOOLEAN /\ cancelled \in BOOLEAN /\ regular \in BOOLEAN
    BY DEF Init
  <2> QED
    BY <2>1, <2>2, <2>3 DEF Init, TypeOK, Pcs
<1>2. NameInv /\ ArchiveInv
  BY DEF Init, NameInv, ArchiveInv, CompletedMeansWhole, Named
<1>3. PartialInv
  BY DEF Init, PartialInv
<1>4. RegularInv
  BY DEF Init, RegularInv, OnlyDone, InOrder, InTime, Named
<1> QED
  BY <1>1, <1>2, <1>3, <1>4 DEF IInv

LEMMA NextName == ASSUME IInv, [Next]_vars PROVE NameInv'
<1>a. TypeOK /\ NameInv
  BY DEF IInv
<1>b. clock \in Times /\ src \in Sources
  BY <1>a DEF TypeOK
<1> USE DEF NameInv, Named, Step, Close, Return, request, task, world, ghosts
<1>0. CASE UNCHANGED vars
  BY <1>a, <1>0 DEF vars
<1>s. ASSUME NEW s \in Sources, Begin(s) PROVE NameInv'
  BY <1>a, <1>s DEF Begin
<1>d. ASSUME NEW n \in Names, Delete(n) PROVE NameInv'
  BY <1>a, <1>d DEF Delete
<1>1. CASE Raise
  BY <1>a, <1>1 DEF Raise
<1>2. CASE Pull
  BY <1>a, <1>2 DEF Pull
<1>3. CASE SourceGone
  BY <1>a, <1>3 DEF SourceGone
<1>4. CASE SourceFound
  BY <1>a, <1>4, <1>b, NameFacts DEF SourceFound
<1>5. CASE TarMissing
  BY <1>a, <1>5 DEF TarMissing
<1>6. CASE TarStarts
  BY <1>a, <1>6 DEF TarStarts
<1>7. CASE TarEnds
  BY <1>a, <1>7 DEF TarEnds
<1>8. CASE TarFailed
  BY <1>a, <1>8 DEF TarFailed
<1>9. CASE TarDone
  BY <1>a, <1>9 DEF TarDone
<1>10. CASE Upload
  BY <1>a, <1>10 DEF Upload
<1>11. CASE UploadDone
  BY <1>a, <1>11 DEF UploadDone
<1>12. CASE UploadFailed
  BY <1>a, <1>12 DEF UploadFailed
<1>13. CASE DropRemote
  BY <1>a, <1>13 DEF DropRemote
<1>14. CASE Verify
  BY <1>a, <1>14 DEF Verify
<1>15. CASE Complete
  BY <1>a, <1>15 DEF Complete
<1>16. CASE Failed
  BY <1>a, <1>16 DEF Failed
<1>17. CASE Finally
  BY <1>a, <1>17 DEF Finally
<1>18. CASE ApplyRetention
  BY <1>a, <1>18 DEF ApplyRetention
<1>19. CASE Cancel
  BY <1>a, <1>19 DEF Cancel
<1>20. CASE Tick
  BY <1>a, <1>20 DEF Tick
<1>21. CASE SetBack
  BY <1>a, <1>21 DEF SetBack
<1>22. CASE Crash
  BY <1>a, <1>22 DEF Crash
<1> QED
  BY <1>0, <1>s, <1>d, <1>1, <1>2, <1>3, <1>4, <1>5, <1>6, <1>7, <1>8, <1>9, <1>10, <1>11, <1>12, <1>13, <1>14, <1>15, <1>16, <1>17, <1>18, <1>19, <1>20, <1>21, <1>22 DEF Next, WorkerNext

LEMMA NextType == ASSUME IInv, [Next]_vars PROVE TypeOK'
<1>a. TypeOK /\ NameInv
  BY DEF IInv
<1>b. /\ pool \in [Names -> Contents] /\ stage \in Contents
      /\ pc \in Named => name \in Names
  BY <1>a, NameFacts DEF NameInv, TypeOK
<1>c. ASSUME NEW c \in Contents, SetTarget(c), pc \in Named, UNCHANGED <<remote, name>>
      PROVE  pool' \in [Names -> Contents] /\ stage' \in Contents
  BY <1>a, <1>b, <1>c, TargetFacts
<1> USE DEF TypeOK, Times, Pcs, Contents, Step, Close, Return, request, task, world, ghosts
<1>0. CASE UNCHANGED vars
  BY <1>a, <1>0 DEF vars
<1>s. ASSUME NEW s \in Sources, Begin(s) PROVE TypeOK'
  BY <1>a, <1>s DEF Begin
<1>d. ASSUME NEW n \in Names, Delete(n) PROVE TypeOK'
  BY <1>a, <1>d DEF Delete
<1>1. CASE Raise
  BY <1>a, <1>1, NameFacts DEF Raise
<1>2. CASE Pull
  BY <1>a, <1>2, NameFacts DEF Pull
<1>3. CASE SourceGone
  BY <1>a, <1>3, NameFacts DEF SourceGone
<1>4. CASE SourceFound
  BY <1>a, <1>4, NameFacts DEF SourceFound
<1>5. CASE TarMissing
  BY <1>a, <1>5, NameFacts DEF TarMissing
<1>6. CASE TarStarts
  <2>1. pool' \in [Names -> Contents] /\ stage' \in Contents
    BY <1>c, <1>6 DEF TarStarts, Named
  <2>2. regular' \in BOOLEAN
    BY <1>a, <1>6 DEF TarStarts
  <2> QED
    BY <1>a, <1>6, <2>1, <2>2 DEF TarStarts
<1>7. CASE TarEnds
  <2>1. pool' \in [Names -> Contents] /\ stage' \in Contents
    BY <1>c, <1>7 DEF TarEnds, Named
  <2>2. ok' \in BOOLEAN
    BY <1>7 DEF TarEnds
  <2> QED
    BY <1>a, <1>7, <2>1, <2>2 DEF TarEnds
<1>8. CASE TarFailed
  <2>1. pool' \in [Names -> Contents] /\ stage' \in Contents
    BY <1>b, <1>c, <1>8 DEF TarFailed, Named
  <2>2. left' \subseteq Names
    BY <1>a, <1>b, <1>8 DEF TarFailed, Named
  <2> QED
    BY <1>a, <1>8, <2>1, <2>2 DEF TarFailed
<1>9. CASE TarDone
  BY <1>a, <1>9, NameFacts DEF TarDone
<1>10. CASE Upload
  <2>1. pool' \in [Names -> Contents]
    BY <1>b, <1>10 DEF Upload
  <2>2. ok' \in BOOLEAN
    BY <1>10 DEF Upload
  <2> QED
    BY <1>a, <1>10, <2>1, <2>2 DEF Upload
<1>11. CASE UploadDone
  BY <1>a, <1>11, NameFacts DEF UploadDone
<1>12. CASE UploadFailed
  BY <1>a, <1>12, NameFacts DEF UploadFailed
<1>13. CASE DropRemote
  <2>1. pool' \in [Names -> Contents] /\ left' \subseteq Names
    BY <1>a, <1>b, <1>13 DEF DropRemote, Named
  <2> QED
    BY <1>a, <1>13, <2>1 DEF DropRemote
<1>14. CASE Verify
  BY <1>a, <1>14, NameFacts DEF Verify
<1>15. CASE Complete
  <2>1. done' \subseteq Names /\ before' \in [Names -> SUBSET Names]
    BY <1>a, <1>b, <1>15 DEF Complete, Named
  <2>2. ok' \in BOOLEAN /\ cancelled' \in BOOLEAN
    BY <1>15 DEF Complete
  <2> QED
    BY <1>a, <1>15, <2>1, <2>2 DEF Complete
<1>16. CASE Failed
  <2>1. regular' \in BOOLEAN
    BY <1>a, <1>16 DEF Failed
  <2>2. /\ pc' \in Pcs /\ UNCHANGED <<remote, clock, src, name, verify, pool, stage, done, before, left>>
        /\ ok' \in BOOLEAN /\ cancelled' \in BOOLEAN /\ outcome' \in {"cancelled", "failed"}
    BY <1>16 DEF Failed
  <2> QED
    BY <1>a, <2>1, <2>2
<1>17. CASE Finally
  BY <1>a, <1>17, NameFacts DEF Finally
<1>18. CASE ApplyRetention
  <2>1. pool' \in [Names -> Contents] /\ left' \subseteq Names
    BY <1>a, <1>18 DEF ApplyRetention
  <2> QED
    BY <1>a, <1>18, <2>1 DEF ApplyRetention
<1>19. CASE Cancel
  BY <1>a, <1>19, NameFacts DEF Cancel
<1>20. CASE Tick
  BY <1>a, <1>20, NameFacts DEF Tick
<1>21. CASE SetBack
  <2>1. clock' \in Times
    BY <1>a, <1>21 DEF SetBack
  <2>2. regular' \in BOOLEAN
    BY <1>21 DEF SetBack
  <2> QED
    BY <1>a, <1>21, <2>1, <2>2 DEF SetBack
<1>22. CASE Crash
  <2>1. left' \subseteq Names
    BY <1>a, <1>b, <1>22 DEF Crash, Named
  <2>2. regular' \in BOOLEAN
    BY <1>a, <1>22 DEF Crash
  <2> QED
    BY <1>a, <1>22, <2>1, <2>2 DEF Crash
<1> QED
  BY <1>0, <1>s, <1>d, <1>1, <1>2, <1>3, <1>4, <1>5, <1>6, <1>7, <1>8, <1>9, <1>10, <1>11, <1>12, <1>13, <1>14, <1>15, <1>16, <1>17, <1>18, <1>19, <1>20, <1>21, <1>22 DEF Next, WorkerNext

LEMMA NextArchive == ASSUME IInv, [Next]_vars PROVE ArchiveInv'
<1>a. TypeOK /\ NameInv /\ ArchiveInv
  BY DEF IInv
<1>b. /\ pool \in [Names -> Contents]
      /\ pc \in Named => name \in Names
  BY <1>a, NameFacts DEF NameInv, TypeOK
<1> USE DEF ArchiveInv, CompletedMeansWhole, Target, SetTarget, Good, NameInv, Named, Step, Close, Return, request, task, world, ghosts
<1>0. CASE UNCHANGED vars
  BY <1>a, <1>0 DEF vars
<1>s. ASSUME NEW s \in Sources, Begin(s) PROVE ArchiveInv'
  BY <1>a, <1>s DEF Begin
<1>d. ASSUME NEW n \in Names, Delete(n) PROVE ArchiveInv'
  BY <1>a, <1>d DEF Delete
<1>1. CASE Raise
  BY <1>a, <1>1, <1>b DEF Raise
<1>2. CASE Pull
  BY <1>a, <1>2, <1>b DEF Pull
<1>3. CASE SourceGone
  BY <1>a, <1>3, <1>b DEF SourceGone
<1>4. CASE SourceFound
  BY <1>a, <1>4, <1>b DEF SourceFound
<1>5. CASE TarMissing
  BY <1>a, <1>5, <1>b DEF TarMissing
<1>6. CASE TarStarts
  BY <1>a, <1>6, <1>b DEF TarStarts
<1>7. CASE TarEnds
  BY <1>a, <1>7, <1>b DEF TarEnds
<1>8. CASE TarFailed
  BY <1>a, <1>8, <1>b DEF TarFailed
<1>9. CASE TarDone
  BY <1>a, <1>9, <1>b DEF TarDone
<1>10. CASE Upload
  BY <1>a, <1>10, <1>b DEF Upload
<1>11. CASE UploadDone
  BY <1>a, <1>11, <1>b DEF UploadDone
<1>12. CASE UploadFailed
  BY <1>a, <1>12, <1>b DEF UploadFailed
<1>13. CASE DropRemote
  BY <1>a, <1>13, <1>b DEF DropRemote
<1>14. CASE Verify
  <2>1. pc = "verify" /\ Target \in Good /\ pool[name] = Target /\ pc' \in {"complete", "error"}
    BY <1>a, <1>14 DEF Verify
  <2>2. pc' = "complete" => pool[name] \in {"whole", "short"} \/ (pool[name] = "bad" /\ ~verify)
    BY <1>14, <2>1 DEF Verify, Listable
  <2>3. UNCHANGED <<pool, stage, outcome, name, verify>>
    BY <1>14 DEF Verify
  <2> QED
    BY <1>a, <2>1, <2>2, <2>3
<1>15. CASE Complete
  BY <1>a, <1>15, <1>b DEF Complete
<1>16. CASE Failed
  BY <1>a, <1>16, <1>b DEF Failed
<1>17. CASE Finally
  BY <1>a, <1>17, <1>b DEF Finally
<1>18. CASE ApplyRetention
  BY <1>a, <1>18, <1>b DEF ApplyRetention
<1>19. CASE Cancel
  BY <1>a, <1>19, <1>b DEF Cancel
<1>20. CASE Tick
  BY <1>a, <1>20, <1>b DEF Tick
<1>21. CASE SetBack
  BY <1>a, <1>21, <1>b DEF SetBack
<1>22. CASE Crash
  BY <1>a, <1>22, <1>b DEF Crash
<1> QED
  BY <1>0, <1>s, <1>d, <1>1, <1>2, <1>3, <1>4, <1>5, <1>6, <1>7, <1>8, <1>9, <1>10, <1>11, <1>12, <1>13, <1>14, <1>15, <1>16, <1>17, <1>18, <1>19, <1>20, <1>21, <1>22 DEF Next, WorkerNext

LEMMA NextPartial == ASSUME IInv, [Next]_vars PROVE PartialInv'
<1>a. TypeOK /\ NameInv /\ ArchiveInv /\ PartialInv
  BY DEF IInv
<1>b. /\ pool \in [Names -> Contents] 
      /\ pc \in Named => name \in Names
  BY <1>a, NameFacts DEF NameInv, TypeOK
<1> USE DEF PartialInv, ArchiveInv, CompletedMeansWhole, Target, SetTarget, Good, NameInv, Named, Step, Close, Return, request, task, world, ghosts
<1>0. CASE UNCHANGED vars
  BY <1>a, <1>0 DEF vars
<1>s. ASSUME NEW s \in Sources, Begin(s) PROVE PartialInv'
  BY <1>a, <1>s DEF Begin
<1>d. ASSUME NEW n \in Names, Delete(n) PROVE PartialInv'
  <2>1. /\ pc = "idle" /\ pool' = [pool EXCEPT ![n] = "none"] /\ left' = left \ {n}
        /\ UNCHANGED <<pc, name, ok, remote>>
    BY <1>d DEF Delete
  <2>2. \A m \in Names \ {n} : pool'[m] = pool[m]
    BY <1>b, <2>1
  <2>3. pool'[n] = "none"
    BY <1>b, <2>1
  <2> QED
    BY <1>a, <2>1, <2>2, <2>3
<1>1. CASE Raise
  BY <1>a, <1>1, <1>b DEF Raise
<1>2. CASE Pull
  BY <1>a, <1>2, <1>b DEF Pull
<1>3. CASE SourceGone
  BY <1>a, <1>3, <1>b DEF SourceGone
<1>4. CASE SourceFound
  BY <1>a, <1>4, <1>b DEF SourceFound
<1>5. CASE TarMissing
  BY <1>a, <1>5, <1>b DEF TarMissing
<1>6. CASE TarStarts
  BY <1>a, <1>6, <1>b DEF TarStarts
<1>7. CASE TarEnds
  BY <1>a, <1>7, <1>b DEF TarEnds
<1>8. CASE TarFailed
  BY <1>a, <1>8, <1>b DEF TarFailed
<1>9. CASE TarDone
  BY <1>a, <1>9, <1>b DEF TarDone
<1>10. CASE Upload
  BY <1>a, <1>10, <1>b DEF Upload
<1>11. CASE UploadDone
  BY <1>a, <1>11, <1>b DEF UploadDone
<1>12. CASE UploadFailed
  BY <1>a, <1>12, <1>b DEF UploadFailed
<1>13. CASE DropRemote
  BY <1>a, <1>13, <1>b DEF DropRemote
<1>14. CASE Verify
  BY <1>a, <1>14, <1>b DEF Verify
<1>15. CASE Complete
  BY <1>a, <1>15, <1>b DEF Complete
<1>16. CASE Failed
  BY <1>a, <1>16, <1>b DEF Failed
<1>17. CASE Finally
  BY <1>a, <1>17, <1>b DEF Finally
<1>18. CASE ApplyRetention
  BY <1>a, <1>18, <1>b DEF ApplyRetention
<1>19. CASE Cancel
  BY <1>a, <1>19, <1>b DEF Cancel
<1>20. CASE Tick
  BY <1>a, <1>20, <1>b DEF Tick
<1>21. CASE SetBack
  BY <1>a, <1>21, <1>b DEF SetBack
<1>22. CASE Crash
  BY <1>a, <1>22, <1>b DEF Crash
<1> QED
  BY <1>0, <1>s, <1>d, <1>1, <1>2, <1>3, <1>4, <1>5, <1>6, <1>7, <1>8, <1>9, <1>10, <1>11, <1>12, <1>13, <1>14, <1>15, <1>16, <1>17, <1>18, <1>19, <1>20, <1>21, <1>22 DEF Next, WorkerNext

\* An archive that is not of a completed backup is that of the backup under way,
\* or has made the pool irregular.
LEMMA NextOnlyDone == ASSUME IInv, [Next]_vars PROVE (regular => OnlyDone)'
<1>a. TypeOK /\ NameInv /\ RegularInv
  BY DEF IInv
<1>b. /\ pool \in [Names -> Contents]
      /\ pc \in Named => name \in Names
      /\ <<>> \notin Names
  BY <1>a, NameFacts DEF NameInv, TypeOK, Names
<1> USE DEF OnlyDone, RegularInv, Target, SetTarget, NameInv, Named, Step, Close, Return, request, task, world, ghosts
<1>0. CASE UNCHANGED vars
  BY <1>a, <1>0 DEF vars
<1>s. ASSUME NEW s \in Sources, Begin(s) PROVE (regular => OnlyDone)'
  BY <1>a, <1>s DEF Begin
<1>d. ASSUME NEW n \in Names, Delete(n) PROVE (regular => OnlyDone)'
  <2>1. pc = "idle" /\ pool' = [pool EXCEPT ![n] = "none"] /\ done' = done \ {n} /\ regular' = regular
    BY <1>d DEF Delete
  <2>2. \A m \in Names : pool'[m] # "none" => m # n /\ pool[m] # "none"
    BY <1>b, <2>1
  <2>3. ASSUME regular, NEW m \in Names, pool[m] # "none" PROVE m \in done
    BY <1>a, <2>1, <2>3
  <2> QED
    BY <2>1, <2>2, <2>3
<1>1. CASE Raise
  BY <1>a, <1>1, <1>b DEF Raise
<1>2. CASE Pull
  BY <1>a, <1>2, <1>b DEF Pull
<1>3. CASE SourceGone
  BY <1>a, <1>3, <1>b DEF SourceGone
<1>4. CASE SourceFound
  BY <1>a, <1>4, <1>b DEF SourceFound
<1>5. CASE TarMissing
  BY <1>a, <1>5, <1>b DEF TarMissing
<1>6. CASE TarStarts
  BY <1>a, <1>6, <1>b DEF TarStarts
<1>7. CASE TarEnds
  BY <1>a, <1>7, <1>b DEF TarEnds
<1>8. CASE TarFailed
  BY <1>a, <1>8, <1>b DEF TarFailed
<1>9. CASE TarDone
  BY <1>a, <1>9, <1>b DEF TarDone
<1>10. CASE Upload
  BY <1>a, <1>10, <1>b DEF Upload
<1>11. CASE UploadDone
  BY <1>a, <1>11, <1>b DEF UploadDone
<1>12. CASE UploadFailed
  BY <1>a, <1>12, <1>b DEF UploadFailed
<1>13. CASE DropRemote
  BY <1>a, <1>13, <1>b DEF DropRemote
<1>14. CASE Verify
  BY <1>a, <1>14, <1>b DEF Verify
<1>15. CASE Complete
  BY <1>a, <1>15, <1>b DEF Complete
<1>16. CASE Failed
  BY <1>a, <1>16, <1>b DEF Failed
<1>17. CASE Finally
  BY <1>a, <1>17, <1>b DEF Finally
<1>18. CASE ApplyRetention
  BY <1>a, <1>18, <1>b DEF ApplyRetention
<1>19. CASE Cancel
  BY <1>a, <1>19, <1>b DEF Cancel
<1>20. CASE Tick
  BY <1>a, <1>20, <1>b DEF Tick
<1>21. CASE SetBack
  BY <1>a, <1>21, <1>b DEF SetBack
<1>22. CASE Crash
  BY <1>a, <1>22, <1>b DEF Crash
<1> QED
  BY <1>0, <1>s, <1>d, <1>1, <1>2, <1>3, <1>4, <1>5, <1>6, <1>7, <1>8, <1>9, <1>10, <1>11, <1>12, <1>13, <1>14, <1>15, <1>16, <1>17, <1>18, <1>19, <1>20, <1>21, <1>22 DEF Next, WorkerNext

\* Only a backup that completes and an archive that is deleted change the order of
\* the completed backups.
LEMMA NextInOrder == ASSUME IInv, [Next]_vars PROVE (regular => InOrder)'
<1>a. TypeOK /\ NameInv /\ RegularInv
  BY DEF IInv
<1>b. ASSUME regular' PROVE regular
  BY <1>b DEF Next, WorkerNext, vars, Step, Close, Return, request, task, ghosts, Begin, Delete, Raise, Pull, SourceGone, SourceFound, TarMissing, TarStarts, TarEnds, TarFailed, TarDone, Upload, UploadDone, UploadFailed, DropRemote, Verify, Failed, Finally, ApplyRetention, Cancel, Tick, SetBack, Crash, Complete
<1>1. CASE UNCHANGED <<done, before>>
  BY <1>a, <1>b, <1>1 DEF RegularInv, InOrder
<1>2. CASE Complete
  <2>1. /\ pc = "complete" /\ name \in NamesOf(src) /\ src \in Sources
        /\ done' = done \cup {name}
        /\ before' = [n \in Names |-> IF n = name THEN done \ {name} ELSE before[n] \ {name}]
    BY <1>a, <1>2 DEF Complete, Close, NameInv, Named, TypeOK
  <2> SUFFICES ASSUME regular', NEW s \in Sources,
                      NEW m \in done' \cap NamesOf(s), NEW n \in done' \cap NamesOf(s), TimeOf(m) < TimeOf(n)
               PROVE  m \in before'[n]
    BY DEF InOrder
  <2>2. regular /\ InOrder /\ \A k \in done : TimeOf(k) <= TimeOf(name)
    BY <1>a, <1>b, <2>1 DEF RegularInv, InTime, Named
  <2>3. TimeOf(m) \in Nat /\ TimeOf(n) \in Nat /\ TimeOf(name) \in Nat /\ n \in Names
    BY <2>1, NameFacts DEF Times
  <2>4. m # n
    BY <2>3
  <2>5. CASE n = name
    BY <2>1, <2>3, <2>4, <2>5
  <2>6. CASE n # name
    <3>1. n \in done /\ TimeOf(n) <= TimeOf(name)
      BY <2>1, <2>2, <2>6
    <3>2. m # name
      BY <2>3, <3>1
    <3>3. m \in before[n]
      BY <2>1, <2>2, <3>1, <3>2 DEF InOrder
    <3> QED
      BY <2>1, <2>3, <2>6, <3>2, <3>3
  <2> QED
    BY <2>5, <2>6
<1>3. ASSUME NEW k \in Names, Delete(k) PROVE (regular => InOrder)'
  <2>1. /\ done' = done \ {k} /\ before' = [m \in Names |-> IF m = k THEN {} ELSE before[m] \ {k}]
    BY <1>3 DEF Delete
  <2>2. \A s \in Sources : NamesOf(s) \subseteq Names
    BY NameFacts
  <2> QED
    BY <1>a, <1>b, <2>1, <2>2 DEF RegularInv, InOrder
<1>4. ASSUME NEW s \in Sources, Begin(s) PROVE UNCHANGED <<done, before>>
  BY <1>4 DEF Begin, ghosts
<1> QED
  BY <1>1, <1>2, <1>3, <1>4 DEF Next, WorkerNext, vars, Step, Close, Return, request, task, ghosts, Raise, Pull, SourceGone, SourceFound, TarMissing, TarStarts, TarEnds, TarFailed, TarDone, Upload, UploadDone, UploadFailed, DropRemote, Verify, Failed, Finally, ApplyRetention, Cancel, Tick, SetBack, Crash


\* The timestamp of a backup is that of the clock, which does not go back.
LEMMA NextInTime == ASSUME IInv, [Next]_vars PROVE (regular => InTime)'
<1>a. TypeOK /\ NameInv /\ RegularInv
  BY DEF IInv
<1>b. /\ clock \in Times /\ src \in Sources
      /\ pc \in Named => TimeOf(name) \in Times
      /\ \A n \in done : TimeOf(n) \in Times
  BY <1>a, NameFacts DEF NameInv, TypeOK, Names
<1> USE DEF InTime, RegularInv, NameInv, Named, Step, Close, Return, request, task, world, ghosts
<1>0. CASE UNCHANGED vars
  BY <1>a, <1>0 DEF vars
<1>s. ASSUME NEW s \in Sources, Begin(s) PROVE (regular => InTime)'
  BY <1>a, <1>s DEF Begin
<1>d. ASSUME NEW n \in Names, Delete(n) PROVE (regular => InTime)'
  BY <1>a, <1>d DEF Delete
<1>1. CASE Raise
  BY <1>a, <1>1, <1>b DEF Raise
<1>2. CASE Pull
  BY <1>a, <1>2, <1>b DEF Pull
<1>3. CASE SourceGone
  BY <1>a, <1>3, <1>b DEF SourceGone
<1>4. CASE SourceFound
  <2>1. name' = NameOf(src, clock) /\ UNCHANGED <<clock, done, regular>>
    BY <1>4 DEF SourceFound
  <2>2. TimeOf(name') = clock
    BY <1>b, <2>1, NameFacts
  <2>3. clock \in Nat
    BY <1>b DEF Times
  <2> QED
    BY <1>a, <2>1, <2>2, <2>3
<1>5. CASE TarMissing
  BY <1>a, <1>5, <1>b DEF TarMissing
<1>6. CASE TarStarts
  BY <1>a, <1>6, <1>b DEF TarStarts
<1>7. CASE TarEnds
  BY <1>a, <1>7, <1>b DEF TarEnds
<1>8. CASE TarFailed
  BY <1>a, <1>8, <1>b DEF TarFailed
<1>9. CASE TarDone
  BY <1>a, <1>9, <1>b DEF TarDone
<1>10. CASE Upload
  BY <1>a, <1>10, <1>b DEF Upload
<1>11. CASE UploadDone
  BY <1>a, <1>11, <1>b DEF UploadDone
<1>12. CASE UploadFailed
  BY <1>a, <1>12, <1>b DEF UploadFailed
<1>13. CASE DropRemote
  BY <1>a, <1>13, <1>b DEF DropRemote
<1>14. CASE Verify
  BY <1>a, <1>14, <1>b DEF Verify
<1>15. CASE Complete
  BY <1>a, <1>15, <1>b DEF Complete
<1>16. CASE Failed
  BY <1>a, <1>16, <1>b DEF Failed
<1>17. CASE Finally
  BY <1>a, <1>17, <1>b DEF Finally
<1>18. CASE ApplyRetention
  BY <1>a, <1>18, <1>b DEF ApplyRetention
<1>19. CASE Cancel
  BY <1>a, <1>19, <1>b DEF Cancel
<1>20. CASE Tick
  <2>1. clock' = clock + 1 /\ UNCHANGED <<pc, name, done, regular>>
    BY <1>20 DEF Tick
  <2>2. clock \in Nat
    BY <1>b DEF Times
  <2>3. \A n \in done : TimeOf(n) \in Nat
    BY <1>b DEF Times
  <2>4. pc \in Named => TimeOf(name) \in Nat
    BY <1>b DEF Times
  <2>5. ASSUME regular PROVE \A n \in done : TimeOf(n) <= clock'
    BY <1>a, <2>1, <2>2, <2>3, <2>5
  <2>6. ASSUME regular, pc \in Named
        PROVE  TimeOf(name) <= clock' /\ \A n \in done : TimeOf(n) <= TimeOf(name)
    BY <1>a, <2>1, <2>2, <2>4, <2>6
  <2> HIDE DEF TimeOf
  <2> QED
    BY <2>1, <2>5, <2>6
<1>21. CASE SetBack
  BY <1>a, <1>21, <1>b DEF SetBack
<1>22. CASE Crash
  BY <1>a, <1>22, <1>b DEF Crash
<1> QED
  BY <1>0, <1>s, <1>d, <1>1, <1>2, <1>3, <1>4, <1>5, <1>6, <1>7, <1>8, <1>9, <1>10, <1>11, <1>12, <1>13, <1>14, <1>15, <1>16, <1>17, <1>18, <1>19, <1>20, <1>21, <1>22 DEF Next, WorkerNext

\* A backup that has completed is among the completed ones until its retention is over.
LEMMA NextDone == ASSUME IInv, [Next]_vars PROVE (pc \in {"finally", "retention"} /\ outcome = "completed" => name \in done)'
<1>a. TypeOK /\ NameInv /\ RegularInv
  BY DEF IInv
<1> USE DEF RegularInv, NameInv, Step, Close, Return, request, task, world, ghosts
<1>0. CASE UNCHANGED vars
  BY <1>a, <1>0 DEF vars
<1>s. ASSUME NEW s \in Sources, Begin(s) PROVE (pc \in {"finally", "retention"} /\ outcome = "completed" => name \in done)'
  BY <1>a, <1>s DEF Begin
<1>d. ASSUME NEW n \in Names, Delete(n) PROVE (pc \in {"finally", "retention"} /\ outcome = "completed" => name \in done)'
  BY <1>a, <1>d DEF Delete
<1>1. CASE Raise
  BY <1>a, <1>1, <1>a DEF Raise
<1>2. CASE Pull
  BY <1>a, <1>2, <1>a DEF Pull
<1>3. CASE SourceGone
  BY <1>a, <1>3, <1>a DEF SourceGone
<1>4. CASE SourceFound
  BY <1>a, <1>4, <1>a DEF SourceFound
<1>5. CASE TarMissing
  BY <1>a, <1>5, <1>a DEF TarMissing
<1>6. CASE TarStarts
  BY <1>a, <1>6, <1>a DEF TarStarts
<1>7. CASE TarEnds
  BY <1>a, <1>7, <1>a DEF TarEnds
<1>8. CASE TarFailed
  BY <1>a, <1>8, <1>a DEF TarFailed
<1>9. CASE TarDone
  BY <1>a, <1>9, <1>a DEF TarDone
<1>10. CASE Upload
  BY <1>a, <1>10, <1>a DEF Upload
<1>11. CASE UploadDone
  BY <1>a, <1>11, <1>a DEF UploadDone
<1>12. CASE UploadFailed
  BY <1>a, <1>12, <1>a DEF UploadFailed
<1>13. CASE DropRemote
  BY <1>a, <1>13, <1>a DEF DropRemote
<1>14. CASE Verify
  BY <1>a, <1>14, <1>a DEF Verify
<1>15. CASE Complete
  BY <1>a, <1>15, <1>a DEF Complete
<1>16. CASE Failed
  BY <1>a, <1>16, <1>a DEF Failed
<1>17. CASE Finally
  BY <1>a, <1>17, <1>a DEF Finally
<1>18. CASE ApplyRetention
  BY <1>a, <1>18, <1>a DEF ApplyRetention
<1>19. CASE Cancel
  BY <1>a, <1>19, <1>a DEF Cancel
<1>20. CASE Tick
  BY <1>a, <1>20, <1>a DEF Tick
<1>21. CASE SetBack
  BY <1>a, <1>21, <1>a DEF SetBack
<1>22. CASE Crash
  BY <1>a, <1>22, <1>a DEF Crash
<1> QED
  BY <1>0, <1>s, <1>d, <1>1, <1>2, <1>3, <1>4, <1>5, <1>6, <1>7, <1>8, <1>9, <1>10, <1>11, <1>12, <1>13, <1>14, <1>15, <1>16, <1>17, <1>18, <1>19, <1>20, <1>21, <1>22 DEF Next, WorkerNext

LEMMA IInvHolds == Spec => []IInv
<1>1. IInv /\ [Next]_vars => IInv'
  BY NextType, NextName, NextArchive, NextPartial, NextDone, NextOnlyDone, NextInOrder, NextInTime DEF IInv, RegularInv
<1> QED
  BY <1>1, InitIInv, PTL DEF Spec

-----------------------------------------------------------------------------
(* The theorems.                                                             *)

\* Type correctness, and that a backup whose task says "completed" is in the pool
\* with every file: no path through backup_volume, by the staging area or not, with
\* a cancel, a failure or a crash anywhere, ends in success without it.
THEOREM CompletedIsWhole == Spec => []PoolInv
<1>1. IInv => PoolInv
  BY DEF IInv, ArchiveInv, PoolInv
<1> QED
  BY <1>1, IInvHolds, PTL

\* backup_volume leaves no archive behind that tar did not finish or that lacks
\* files, except where it could not remove it.
THEOREM NoPartialLeft == Spec => []NoPartialArchive
<1>1. IInv => NoPartialArchive
  BY DEF IInv, PartialInv, NoPartialArchive
<1> QED
  BY <1>1, IInvHolds, PTL

\* The pattern {pool}_{volume}_* of a volume matches no archive of another volume.
NamesApart ==
  \A s, r \in Sources : s # r => \A n \in NamesOf(r) : ~Matches(s, n)

\* A volume has finitely many names.
LEMMA NamesFinite == ASSUME NEW s \in Sources PROVE IsFiniteSet(NamesOf(s))
<1> DEFINE f == [t \in Times |-> NameOf(s, t)]
<1>1. f \in Surjection(Times, NamesOf(s))
  BY DEF Surjection, NamesOf
<1>2. IsFiniteSet(Times)
  BY FS_Interval DEF Times
<1> QED
  BY <1>1, <1>2, FS_Surjection

\* Of a finite set of archives, one is not among the first that go when fewer than
\* Retention others are not before it.
LEMMA LastStay ==
  ASSUME NEW A, IsFiniteSet(A), NEW n \in A, NEW N, IsFiniteSet(N), Cardinality(N) < Retention,
         \A m \in A : Less(m, n) \/ m = n \/ m \in N
  PROVE  n \notin First(A, Cardinality(A) - Retention)
<1> DEFINE L == {m \in A : Less(m, n)}
<1>1. IsFiniteSet(L) /\ Cardinality(L) \in Nat /\ Cardinality(A) \in Nat /\ Cardinality(N) \in Nat
  BY FS_Subset, FS_CardinalityType
<1>2. IsFiniteSet(N \cup {n}) /\ Cardinality(N \cup {n}) <= Cardinality(N) + 1
  <2>1. IsFiniteSet(N \cup {n}) /\ Cardinality(N \cup {n}) = IF n \in N THEN Cardinality(N) ELSE Cardinality(N) + 1
    BY FS_AddElement
  <2> QED
    BY <1>1, <2>1
<1>3. IsFiniteSet(A \ L) /\ Cardinality(A \ L) = Cardinality(A) - Cardinality(L)
  <2>1. A \cap L = L
    OBVIOUS
  <2> QED
    BY <2>1, FS_Difference
<1>4. Cardinality(A \ L) <= Cardinality(N \cup {n})
  <2>1. A \ L \subseteq N \cup {n}
    OBVIOUS
  <2> QED
    BY <1>2, <2>1, FS_Subset
<1>5. Cardinality(N \cup {n}) \in Nat
  BY <1>2, FS_CardinalityType
<1>6. Cardinality(L) >= Cardinality(A) - Retention
  BY <1>1, <1>2, <1>3, <1>4, <1>5
<1>7. n \in First(A, Cardinality(A) - Retention) => Cardinality(L) < Cardinality(A) - Retention
  BY DEF First
<1> QED
  BY <1>1, <1>6, <1>7

\* _apply_retention never removes one of the last complete backups of a volume, as
\* many as job['retention'] says, if every archive in the pool is a completed backup
\* and no name of a volume begins like the pattern of another.
THEOREM RetentionLeavesLast == ASSUME NamesApart PROVE Spec => RetentionKeepsLast
<1>1. IInv /\ [Next]_vars => [pc = "retention" /\ regular => \A s \in Sources : LastKept(s)]_vars
  <2> SUFFICES ASSUME IInv, Next, pc = "retention", regular, NEW s \in Sources,
                      NEW n \in done \cap NamesOf(s), Cardinality(Newer(s, n)) < Retention, pool[n] = "whole"
               PROVE  pool'[n] = "whole"
    BY DEF LastKept
  <2>1. TypeOK /\ src \in Sources /\ NamesOf(s) \subseteq Names
    BY NameFacts DEF IInv, TypeOK
  <2>2. OnlyDone /\ InOrder /\ name \in done
    BY DEF IInv, NameInv, RegularInv
  <2>3. CASE ApplyRetention
    <3>1. n \notin ToDelete(src)
      <4>1. CASE ~Matches(src, n)
        BY <4>1 DEF ToDelete, First, Archives
      <4>2. CASE Matches(src, n)
        <5>1. s = src
          BY <2>1, <4>2 DEF NamesApart
        <5>2. n \in Archives(s)
          BY <2>1, <4>2, <5>1 DEF Archives
        <5>3. Archives(s) \subseteq done \cap NamesOf(s)
          <6> SUFFICES ASSUME NEW m \in Archives(s) PROVE m \in done \cap NamesOf(s)
            OBVIOUS
          <6>1. m \in Names /\ pool[m] # "none" /\ Matches(s, m)
            BY DEF Archives
          <6>2. m \in done
            BY <2>2, <6>1 DEF OnlyDone
          <6>3. PICK r \in Sources : m \in NamesOf(r)
            BY <6>1 DEF Names
          <6> QED
            BY <6>1, <6>2, <6>3 DEF NamesApart
        <5>4. \A m \in Archives(s) : Less(m, n) \/ m = n \/ m \in Newer(s, n)
          <6> SUFFICES ASSUME NEW m \in Archives(s), ~Less(m, n), m # n PROVE m \in Newer(s, n)
            OBVIOUS
          <6>1. m \in done \cap NamesOf(s)
            BY <5>3
          <6>2. TimeOf(m) \in Nat /\ TimeOf(n) \in Nat /\ TimeOf(m) # TimeOf(n) /\ ~(TimeOf(m) < TimeOf(n))
            BY <6>1, NameFacts DEF Times
          <6>3. n \in before[m]
            BY <2>2, <6>1, <6>2 DEF InOrder
          <6> QED
            BY <6>1, <6>3 DEF Newer
        <5>5. IsFiniteSet(Archives(s)) /\ IsFiniteSet(Newer(s, n))
          <6>1. Newer(s, n) \subseteq NamesOf(s) /\ Archives(s) \subseteq NamesOf(s)
            BY <5>3 DEF Newer
          <6> QED
            BY <6>1, NamesFinite, FS_Subset
        <5> QED
          BY <5>1, <5>2, <5>4, <5>5, LastStay DEF ToDelete
      <4> QED
        BY <4>1, <4>2
    <3>2. PICK kept : pool' = [m \in Names |-> IF m \in ToDelete(src) \ kept THEN "none" ELSE pool[m]]
      BY <2>3 DEF ApplyRetention
    <3> QED
      BY <2>1, <3>1, <3>2
  <2>4. CASE ~ApplyRetention
    <3>1. pool' = pool
      BY <2>4 DEF Next, WorkerNext, Begin, Raise, Pull, SourceGone, SourceFound, TarMissing, TarStarts, TarEnds,
         TarFailed, TarDone, Upload, UploadDone, UploadFailed, DropRemote, Verify, Complete, Failed, Finally,
         Cancel, Tick, SetBack, Delete, Crash, Step, Close, Return
    <3> QED
      BY <3>1
  <2> QED
    BY <2>3, <2>4
<1> QED
  BY <1>1, IInvHolds, PTL DEF Spec, RetentionKeepsLast

\* What a retention step does: the worker has nothing else to do, and the user's
\* deletes wait for their turn.
LEMMA RetentionStep ==
  ASSUME IInv, Next, pc = "retention"
  PROVE  pool' = pool \/ ApplyRetention
  BY DEF Next, WorkerNext, Begin, Raise, Pull, SourceGone, SourceFound, TarMissing, TarStarts, TarEnds,
     TarFailed, TarDone, Upload, UploadDone, UploadFailed, DropRemote, Verify, Complete, Failed, Finally,
     Cancel, Tick, SetBack, Delete, Crash, Step, Close, Return

\* Every set of natural numbers that has one has a least one.
LEMMA LeastNumber ==
  ASSUME NEW T, T \subseteq Nat, T # {}
  PROVE  \E i \in T : \A j \in T : i <= j
<1> DEFINE R == OpToRel(<, Nat)
<1>1. IsWellFoundedOn(R, Nat)
  BY NatLessThanWellFounded
<1>2. R = {ss \in Nat \X Nat : ss[1] < ss[2]}
  BY DEF OpToRel
<1> HIDE DEF R
<1>3. PICK i \in T : \A j \in T : <<j, i>> \notin R
  BY <1>1, WFMin
<1>4. ASSUME NEW j \in T PROVE i <= j
  <2>1. i \in Nat /\ j \in Nat
    OBVIOUS
  <2>2. <<j, i>> \notin R
    BY <1>3
  <2>3. ~(j < i)
    BY <1>2, <2>1, <2>2
  <2> QED
    BY <2>1, <2>3
<1> QED
  BY <1>4

\* The parts of a name: the timestamp comes last, and is smaller than the others.
LEMMA NameParts ==
  ASSUME NEW n \in Names
  PROVE  /\ n \in Seq(Nat) /\ Len(n) \in Nat \ {0} /\ \A i \in 1..Len(n) : n[i] \in Nat
         /\ n[Len(n)] <= MaxTime /\ \A i \in 1..Len(n) - 1 : n[i] > MaxTime
<1>1. PICK s \in Sources, t \in Times : n = NameOf(s, t)
  BY DEF Names, NamesOf
<1> DEFINE p == Parts[s]
<1>2. p \in Seq(Nat \ 0..MaxTime)
  OBVIOUS
<1>3. n = Append(p, t) /\ t \in 1..MaxTime
  BY <1>1 DEF NameOf, Times
<1> HIDE DEF p
<1>4. p \in Seq(Nat) /\ Len(p) \in Nat /\ \A i \in 1..Len(p) : p[i] \in Nat /\ p[i] > MaxTime
  BY <1>2
<1>5. n \in Seq(Nat) /\ Len(n) = Len(p) + 1 /\ n[Len(n)] = t /\ \A i \in 1..Len(p) : n[i] = p[i]
  BY <1>3, <1>4
<1>6. Len(n) - 1 = Len(p) /\ \A i \in 1..Len(n) : n[i] \in Nat
  BY <1>4, <1>5
<1> QED
  BY <1>3, <1>4, <1>5, <1>6

\* The order of the names is a strict total order.
LEMMA NameOrder ==
  /\ \A n \in Names : ~Less(n, n)
  /\ \A k, m, n \in Names : Less(k, m) /\ Less(m, n) => Less(k, n)
  /\ \A m, n \in Names : m = n \/ Less(m, n) \/ Less(n, m)
<1>1. ASSUME NEW n \in Names PROVE ~Less(n, n)
  <2>1. \A i \in 1..Len(n) : n[i] \in Nat
    BY NameParts
  <2> QED
    BY <2>1 DEF Less
<1>2. ASSUME NEW k \in Names, NEW m \in Names, NEW n \in Names, Less(k, m), Less(m, n)
      PROVE  Less(k, n)
  <2>1. PICK i \in 1..Len(k) : i <= Len(m) /\ (\A j \in 1..i - 1 : k[j] = m[j]) /\ k[i] < m[i]
    BY <1>2 DEF Less
  <2>2. PICK h \in 1..Len(m) : h <= Len(n) /\ (\A j \in 1..h - 1 : m[j] = n[j]) /\ m[h] < n[h]
    BY <1>2 DEF Less
  <2>3. /\ Len(k) \in Nat /\ Len(m) \in Nat /\ Len(n) \in Nat
        /\ \A j \in 1..Len(k) : k[j] \in Nat
        /\ \A j \in 1..Len(m) : m[j] \in Nat
        /\ \A j \in 1..Len(n) : n[j] \in Nat
    BY NameParts
  <2>4. CASE i < h
    <3>1. i \in 1..Len(k) /\ i <= Len(n)
      BY <2>2, <2>3, <2>4
    <3>2. m[i] = n[i] /\ \A j \in 1..i - 1 : k[j] = n[j]
      BY <2>1, <2>2, <2>3, <2>4
    <3> QED
      BY <2>1, <3>1, <3>2 DEF Less
  <2>5. CASE i = h
    <3>1. i \in 1..Len(k) /\ i <= Len(n) /\ \A j \in 1..i - 1 : k[j] = n[j]
      BY <2>1, <2>2, <2>3, <2>5
    <3>2. i \in 1..Len(m) /\ i \in 1..Len(n)
      BY <2>1, <2>2, <2>3, <2>5
    <3>3. k[i] < n[i]
      BY <2>1, <2>2, <2>3, <2>5, <3>1, <3>2
    <3> QED
      BY <3>1, <3>3 DEF Less
  <2>6. CASE h < i
    <3>1. h \in 1..Len(k) /\ h <= Len(n)
      BY <2>1, <2>2, <2>3, <2>6
    <3>2. k[h] = m[h] /\ \A j \in 1..h - 1 : k[j] = n[j]
      BY <2>1, <2>2, <2>3, <2>6
    <3> QED
      BY <2>2, <3>1, <3>2 DEF Less
  <2> QED
    BY <2>3, <2>4, <2>5, <2>6
<1>3. ASSUME NEW m \in Names, NEW n \in Names, m # n, Len(m) <= Len(n)
      PROVE  Less(m, n) \/ Less(n, m)
  <2> DEFINE D == {i \in 1..Len(m) : m[i] # n[i]}
  <2>1. /\ m \in Seq(Nat) /\ n \in Seq(Nat) /\ Len(m) \in Nat \ {0} /\ Len(n) \in Nat
        /\ \A j \in 1..Len(m) : m[j] \in Nat
        /\ \A j \in 1..Len(n) : n[j] \in Nat
    BY NameParts
  <2>2. D # {}
    <3>1. CASE Len(m) = Len(n)
      BY <1>3, <2>1, <3>1, SeqEqual
    <3>2. CASE Len(m) < Len(n)
      <4>1. Len(m) \in 1..Len(n) - 1 /\ Len(m) \in 1..Len(m)
        BY <2>1, <3>2
      <4>2. m[Len(m)] <= MaxTime /\ n[Len(m)] > MaxTime
        BY <4>1, NameParts
      <4>3. m[Len(m)] # n[Len(m)]
        BY <2>1, <4>1, <4>2
      <4> QED
        BY <4>1, <4>3
    <3> QED
      BY <1>3, <2>1, <3>1, <3>2
  <2>3. D \subseteq Nat
    OBVIOUS
  <2>4. PICK i \in D : \A j \in D : i <= j
    <3> HIDE DEF D
    <3> QED
      BY <2>2, <2>3, LeastNumber
  <2>5. i \in 1..Len(m) /\ i \in 1..Len(n) /\ m[i] # n[i] /\ m[i] \in Nat /\ n[i] \in Nat
    BY <1>3, <2>1, <2>4
  <2>6. \A j \in 1..i - 1 : m[j] = n[j]
    <3> SUFFICES ASSUME NEW j \in 1..i - 1, m[j] # n[j] PROVE FALSE
      OBVIOUS
    <3>1. j \in D
      BY <2>1, <2>5
    <3> QED
      BY <2>4, <2>5, <3>1
  <2>7. i <= Len(m) /\ i <= Len(n) /\ (m[i] < n[i] \/ n[i] < m[i])
    BY <2>1, <2>5
  <2> QED
    BY <2>5, <2>6, <2>7 DEF Less
<1>4. \A m, n \in Names : m = n \/ Less(m, n) \/ Less(n, m)
  <2>1. \A m \in Names : Len(m) \in Nat
    BY NameParts
  <2> QED
    BY <1>3, <2>1
<1> QED
  BY <1>1, <1>2, <1>4

\* Among sorted archives, each comes after more of them than those before it; so there
\* are no more than k in the first k, and what is before one of them is one of them.
LEMMA FirstFacts ==
  ASSUME NEW A \in SUBSET Names, IsFiniteSet(A), NEW k \in Int
  PROVE  /\ \A m, n \in A : Less(m, n) /\ n \in First(A, k) => m \in First(A, k)
         /\ k >= 0 => Cardinality(First(A, k)) <= k
         /\ k <= 0 => First(A, k) = {}
<1> DEFINE L(n) == {m \in A : Less(m, n)}
<1>1. \A n \in A : IsFiniteSet(L(n)) /\ Cardinality(L(n)) \in Nat
  BY FS_Subset, FS_CardinalityType
<1>2. ASSUME NEW m \in A, NEW n \in A, Less(m, n) PROVE Cardinality(L(m)) < Cardinality(L(n))
  <2>1. L(m) \subseteq L(n) /\ m \in L(n) /\ m \notin L(m)
    BY <1>2, NameOrder
  <2>2. Cardinality(L(m)) <= Cardinality(L(n)) /\ Cardinality(L(m)) # Cardinality(L(n))
    <3>1. IsFiniteSet(L(n))
      BY <1>1
    <3> HIDE DEF L
    <3> QED
      BY <2>1, <3>1, FS_Subset
  <2>3. Cardinality(L(m)) \in Nat /\ Cardinality(L(n)) \in Nat
    BY <1>1
  <2> HIDE DEF L
  <2> QED
    BY <2>2, <2>3
<1>3. First(A, k) = {n \in A : Cardinality(L(n)) < k}
  BY DEF First
<1> HIDE DEF L
<1>4. \A m, n \in A : Less(m, n) /\ n \in First(A, k) => m \in First(A, k)
  BY <1>1, <1>2, <1>3
<1>5. k <= 0 => First(A, k) = {}
  BY <1>1, <1>3
<1>6. ASSUME k >= 0 PROVE Cardinality(First(A, k)) <= k
  <2> DEFINE f == [n \in First(A, k) |-> Cardinality(L(n))]
  <2>1. \A n \in First(A, k) : n \in A /\ Cardinality(L(n)) \in 0..k - 1
    BY <1>1, <1>3
  <2>2. \A m, n \in First(A, k) : f[m] = f[n] => m = n
    <3> SUFFICES ASSUME NEW m \in First(A, k), NEW n \in First(A, k), f[m] = f[n], m # n PROVE FALSE
      OBVIOUS
    <3>1. m \in A /\ n \in A /\ (Less(m, n) \/ Less(n, m))
      BY <2>1, NameOrder
    <3>2. Cardinality(L(m)) = Cardinality(L(n))
      OBVIOUS
    <3>3. Cardinality(L(m)) \in Nat
      BY <1>1, <3>1
    <3> QED
      BY <1>2, <3>1, <3>2, <3>3
  <2>3. f \in Injection(First(A, k), 0..k - 1)
    BY <2>1, <2>2 DEF Injection, IsInjective
  <2>4. IsFiniteSet(0..k - 1) /\ Cardinality(0..k - 1) = k
    <3>1. 0 \in Int /\ k - 1 \in Int
      OBVIOUS
    <3> QED
      BY <1>6, <3>1, FS_Interval
  <2> HIDE DEF f
  <2> QED
    BY <2>3, <2>4, FS_Injection
<1> QED
  BY <1>4, <1>5, <1>6

\* The archives in the pool.
Held == {n \in Names : pool[n] # "none"}

\* A step adds at most the archive of the backup under way, so there are always finitely many.
LEMMA HeldFinite == Spec => []IsFiniteSet(Held)
<1>1. Init => IsFiniteSet(Held)
  <2>1. Init => Held = {}
    BY DEF Init, Held
  <2> QED
    BY <2>1, FS_EmptySet
<1>2. IInv /\ IsFiniteSet(Held) /\ [Next]_vars => IsFiniteSet(Held)'
  <2> SUFFICES ASSUME IInv, IsFiniteSet(Held), [Next]_vars PROVE IsFiniteSet(Held)'
    OBVIOUS
  <2>1. pool \in [Names -> Contents]
    BY DEF IInv, TypeOK
  <2>2. \A n \in Names \ {name} : pool[n] = "none" => pool'[n] = "none"
    BY <2>1 DEF vars, Next, WorkerNext, Begin, Raise, Pull, SourceGone, SourceFound, TarMissing, TarStarts, TarEnds,
       TarFailed, TarDone, Upload, UploadDone, UploadFailed, DropRemote, Verify, Complete, Failed, Finally,
       ApplyRetention, Cancel, Tick, SetBack, Delete, Crash, SetTarget
  <2>3. Held' \subseteq Held \cup {name}
    BY <2>2 DEF Held
  <2> HIDE DEF Held
  <2>4. IsFiniteSet(Held \cup {name})
    BY FS_AddElement
  <2>5. IsFiniteSet(Held')
    BY <2>3, <2>4, FS_Subset
  <2> QED
    BY <2>5
<1> QED
  BY <1>1, <1>2, IInvHolds, PTL DEF Spec

\* What a retention step leaves of the archives it looks at: as many as job['retention']
\* says, or all of them; and in a local pool, where it stops at the first that it cannot
\* remove, what goes is older by its name than all that stays.
Left == {n \in Archives(src) : pool'[n] # "none"}
RetentionLeaves ==
  /\ Cardinality(Left) >= Retention \/ Left = Archives(src)
  /\ ~remote => \A n \in Archives(src) \ Left : \A m \in Left : Less(n, m)

\* _apply_retention and _apply_retention_remote, whatever the pool holds, however names
\* are shared and whichever removals fail.
THEOREM RetentionLeavesEnough == Spec => [][pc = "retention" => RetentionLeaves]_vars
<1>1. IInv /\ IsFiniteSet(Held) /\ [Next]_vars => [pc = "retention" => RetentionLeaves]_vars
  <2> SUFFICES ASSUME IInv, IsFiniteSet(Held), Next, pc = "retention" PROVE RetentionLeaves
    OBVIOUS
  <2> DEFINE A == Archives(src)
             k == Cardinality(A) - Retention
  <2>1. A \subseteq Names /\ IsFiniteSet(A) /\ Cardinality(A) \in Nat /\ k \in Int
    <3>1. A \subseteq Names /\ A \subseteq Held
      BY DEF Archives, Held
    <3>2. IsFiniteSet(A) /\ Cardinality(A) \in Nat
      <4> HIDE DEF A
      <4> QED
        BY <3>1, FS_Subset, FS_CardinalityType
    <3> QED
      BY <3>1, <3>2
  <2>2. \A n \in A : pool[n] # "none"
    BY DEF Archives
  <2>3. CASE pool' = pool
    <3>1. Left = A
      BY <2>2, <2>3 DEF Left
    <3> QED
      BY <3>1 DEF RetentionLeaves
  <2>4. CASE ApplyRetention
    <3>1. PICK kept \in SUBSET First(A, k) :
            /\ ~remote => \A m \in kept : \A n \in First(A, k) : Less(m, n) => n \in kept
            /\ pool' = [n \in Names |-> IF n \in First(A, k) \ kept THEN "none" ELSE pool[n]]
      BY <2>4 DEF ApplyRetention, ToDelete
    <3> HIDE DEF A, k
    <3>2. First(A, k) \subseteq A
      BY DEF First
    <3>3. Left = (A \ First(A, k)) \cup kept
      BY <2>1, <2>2, <3>1, <3>2 DEF Left, A
    <3>4. Cardinality(Left) >= Retention \/ Left = A
      <4>1. CASE k <= 0
        BY <2>1, <3>2, <3>3, <4>1, FirstFacts
      <4>2. CASE k >= 0
        <5>1. Cardinality(First(A, k)) <= k
          BY <2>1, <4>2, FirstFacts
        <5>2. IsFiniteSet(First(A, k)) /\ IsFiniteSet(A \ First(A, k)) /\ IsFiniteSet(Left)
          BY <2>1, <3>2, <3>3, FS_Subset
        <5>3. Cardinality(A \ First(A, k)) = Cardinality(A) - Cardinality(First(A, k))
          <6>1. A \cap First(A, k) = First(A, k)
            BY <3>2
          <6> QED
            BY <2>1, <6>1, FS_Difference
        <5>4. Cardinality(A \ First(A, k)) <= Cardinality(Left)
          <6>1. A \ First(A, k) \subseteq Left
            BY <3>3
          <6> QED
            BY <5>2, <6>1, FS_Subset
        <5>5. /\ Cardinality(First(A, k)) \in Nat /\ Cardinality(A \ First(A, k)) \in Nat
              /\ Cardinality(Left) \in Nat
          BY <5>2, FS_CardinalityType
        <5>6. k = Cardinality(A) - Retention
          BY DEF k
        <5> QED
          BY <2>1, <5>1, <5>3, <5>4, <5>5, <5>6
      <4> QED
        BY <2>1, <4>1, <4>2
    <3>5. ASSUME ~remote, NEW n \in A \ Left, NEW m \in Left PROVE Less(n, m)
      <4>1. n \in First(A, k) /\ n \notin kept /\ m \in A /\ m # n
        BY <3>2, <3>3, <3>5
      <4>2. ~Less(m, n)
        <5>1. CASE m \in kept
          BY <3>1, <3>5, <4>1, <5>1
        <5>2. CASE m \notin First(A, k)
          BY <2>1, <4>1, <5>2, FirstFacts
        <5> QED
          BY <3>3, <3>5, <5>1, <5>2
      <4> QED
        BY <2>1, <4>1, <4>2, NameOrder
    <3> QED
      BY <3>4, <3>5 DEF RetentionLeaves, A
  <2> QED
    BY <2>3, <2>4, RetentionStep
<1> QED
  BY <1>1, IInvHolds, HeldFinite, PTL DEF Spec

=============================================================================
