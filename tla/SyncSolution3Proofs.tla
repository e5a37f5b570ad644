------------------------- MODULE SyncSolution3Proofs -------------------------
(***************************************************************************)
(* Proofs about SyncSolution3 for any number of readers and writers and    *)
(* any number of unused wake-ups.  What is true of this solution is that   *)
(* SemaphoreMutex protects the four counts and that they are exact; that a *)
(* writer is alone is not (SyncSolution3_exclusion.cfg), unless there is   *)
(* at most one reader (OneReaderExcludes).                                 *)
(***************************************************************************)
EXTENDS SyncSolution3, DataProofs, FiniteSetTheorems

(* The control points between down(&SemaphoreMutex) and its up(), and      *)
(* those of a thread that may still sleep in the down().                   *)
MutexSections == {"enterTest", "waitUpMutex", "waitOver", "enterUpMutex", "leaveCount",
                  "leaveWakeReaders", "leaveWakeWriter", "leaveUpMutex"}
MutexDowns == {"enterTest", "waitOver", "leaveCount"}

(* Who may sleep where.                                                    *)
SleepersPlaced ==
  /\ WellFormed(SemaphoreMutex) /\ WellFormed(SemaphoreWriter) /\ WellFormed(SemaphoreReader)
  /\ \A t \in Sleepers(SemaphoreMutex) : t \in Threads /\ pc[t] \in MutexDowns
  /\ \A t \in Sleepers(SemaphoreWriter) : t \in Writers /\ pc[t] = "waitDownMutex"
  /\ \A t \in Sleepers(SemaphoreReader) : t \in Readers /\ pc[t] = "waitDownMutex"

(* Who holds SemaphoreMutex.                                               *)
MutexHolders == {t \in Threads : pc[t] \in MutexSections /\ t \notin Sleepers(SemaphoreMutex)}
MutexHeld == Held(SemaphoreMutex, MutexHolders, {})

IInv == TypeOK /\ SleepersPlaced /\ MutexHeld /\ CountsExact

(* The threads of a group at some control points.                          *)
Placed(p, group, labels) == {t \in group : p[t] \in labels}

ActiveWriterLabels == {"enterUpMutex", "writing", "leaveCount"}
ActiveReaderLabels == {"enterUpMutex", "reading", "leaveCount"}

(* The four counts are the numbers of threads at such places.              *)
CountsAre(p, ww, rw, wc, rc) ==
  /\ ww = Cardinality(Placed(p, Writers, WaitLabels))
  /\ rw = Cardinality(Placed(p, Readers, WaitLabels))
  /\ wc = Cardinality(Placed(p, Writers, ActiveWriterLabels))
  /\ rc = Cardinality(Placed(p, Readers, ActiveReaderLabels))
-----------------------------------------------------------------------------
(* CountsExact in these words.                                             *)
LEMMA CountsForm ==
  CountsExact <=> CountsAre(pc, WriterWaitingCount, ReaderWaitingCount, WriterCount, ReaderCount)
  BY DEF CountsExact, CountsAre, Placed, ActiveWriterLabels, ActiveReaderLabels

(* A thread that moves between two control points on the same side of      *)
(* labels, or that is of the other group, changes nobody's number.         *)
LEMMA Stays ==
  ASSUME NEW group, NEW labels, NEW p, NEW q, NEW t,
         \A x \in group : x # t => q[x] = p[x],
         t \in group => (p[t] \in labels <=> q[t] \in labels)
  PROVE  Placed(q, group, labels) = Placed(p, group, labels)
  BY DEF Placed

(* One more thread is there ...                                            *)
LEMMA Joins ==
  ASSUME NEW group, IsFiniteSet(group), NEW labels, NEW p, NEW q, NEW t \in group,
         \A x \in group : x # t => q[x] = p[x],
         p[t] \notin labels, q[t] \in labels
  PROVE  Cardinality(Placed(q, group, labels)) = Cardinality(Placed(p, group, labels)) + 1
<1> DEFINE S == Placed(p, group, labels)
<1>1. Placed(q, group, labels) = S \cup {t} /\ t \notin S /\ S \subseteq group
  BY DEF Placed
<1>2. IsFiniteSet(S)
  BY <1>1, FS_Subset
<1> HIDE DEF S
<1>3. Cardinality(S \cup {t}) = Cardinality(S) + 1
  BY <1>1, <1>2, FS_AddElement
<1> QED  BY <1>1, <1>3 DEF S

(* ... or one less.                                                        *)
LEMMA Parts ==
  ASSUME NEW group, IsFiniteSet(group), NEW labels, NEW p, NEW q, NEW t \in group,
         \A x \in group : x # t => q[x] = p[x],
         p[t] \in labels, q[t] \notin labels
  PROVE  /\ Cardinality(Placed(q, group, labels)) = Cardinality(Placed(p, group, labels)) - 1
         /\ Cardinality(Placed(q, group, labels)) \in Nat
<1> DEFINE S == Placed(p, group, labels)
<1>1. Placed(q, group, labels) = S \ {t} /\ t \in S /\ S \subseteq group
  BY DEF Placed
<1>2. IsFiniteSet(S)
  BY <1>1, FS_Subset
<1> HIDE DEF S
<1>3. Cardinality(S \ {t}) = Cardinality(S) - 1 /\ IsFiniteSet(S \ {t})
  BY <1>1, <1>2, FS_RemoveElement
<1>4. Cardinality(S \ {t}) \in Nat
  BY <1>3, FS_CardinalityType
<1> QED  BY <1>1, <1>3, <1>4 DEF S
-----------------------------------------------------------------------------
(* Thread t, not asleep, moves on to another control point of its own      *)
(* function.                                                               *)
GoesTo(t, to) ==
  /\ t \in Threads /\ Awake(t) /\ pc' = [pc EXCEPT ![t] = to]
  /\ t \in Writers => to \in WriterLabels
  /\ t \in Readers => to \in ReaderLabels

(* Every label of one of the two functions.                                *)
Labelled ==
  /\ pc \in [Threads -> ReaderLabels \cup WriterLabels]
  /\ \A w \in Writers : pc[w] \in WriterLabels
  /\ \A r \in Readers : pc[r] \in ReaderLabels

(* Such a step changes where t is and nobody else.                         *)
LEMMA GoesFacts ==
  ASSUME IInv, NEW t, NEW to, GoesTo(t, to)
  PROVE  /\ Labelled' /\ Labelled /\ pc'[t] = to /\ to \in ReaderLabels \cup WriterLabels
         /\ \A x \in Threads : x # t => pc'[x] = pc[x]
         /\ t \notin Sleepers(SemaphoreMutex)
         /\ t \notin Sleepers(SemaphoreWriter) /\ t \notin Sleepers(SemaphoreReader)
  BY DEF IInv, TypeOK, GoesTo, Labelled, Awake, Threads

(* The holder of SemaphoreMutex keeps it while it moves between down() and *)
(* up(), and a thread outside takes nothing from it.                       *)
LEMMA KeepsMutex ==
  ASSUME IInv, NEW t, NEW to, GoesTo(t, to), UNCHANGED SemaphoreMutex,
         pc[t] \in MutexSections <=> to \in MutexSections
  PROVE  /\ MutexHeld'
         /\ \A x \in Sleepers(SemaphoreMutex') : x \in Threads /\ pc'[x] \in MutexDowns
<1>1. /\ pc'[t] = to /\ \A x \in Threads : x # t => pc'[x] = pc[x]
      /\ t \notin Sleepers(SemaphoreMutex)
  BY GoesFacts
<1>2. MutexHolders' = MutexHolders
  BY <1>1 DEF MutexHolders
<1>3. \A x \in Sleepers(SemaphoreMutex') : x \in Threads /\ pc'[x] \in MutexDowns
  BY <1>1 DEF IInv, SleepersPlaced
<1> QED  BY <1>2, <1>3 DEF IInv, MutexHeld

(* The counts stay exact where a step changes none of them and moves a     *)
(* thread neither into waiting or active nor out of it.                    *)
LEMMA KeepsCounts ==
  ASSUME IInv, NEW t, NEW to, GoesTo(t, to), UNCHANGED counts,
         pc[t] \in WaitLabels <=> to \in WaitLabels,
         t \in Writers => (pc[t] \in ActiveWriterLabels <=> to \in ActiveWriterLabels),
         t \in Readers => (pc[t] \in ActiveReaderLabels <=> to \in ActiveReaderLabels)
  PROVE  CountsExact'
<1>1. /\ pc'[t] = to /\ \A x \in Writers : x # t => pc'[x] = pc[x]
      /\ \A x \in Readers : x # t => pc'[x] = pc[x]
  BY GoesFacts DEF Threads
<1>2. /\ Placed(pc', Writers, WaitLabels) = Placed(pc, Writers, WaitLabels)
      /\ Placed(pc', Readers, WaitLabels) = Placed(pc, Readers, WaitLabels)
      /\ Placed(pc', Writers, ActiveWriterLabels) = Placed(pc, Writers, ActiveWriterLabels)
      /\ Placed(pc', Readers, ActiveReaderLabels) = Placed(pc, Readers, ActiveReaderLabels)
  BY <1>1, Stays
<1>3. /\ WriterWaitingCount' = WriterWaitingCount /\ ReaderWaitingCount' = ReaderWaitingCount
      /\ WriterCount' = WriterCount /\ ReaderCount' = ReaderCount
  BY DEF counts
<1>4. CountsAre(pc, WriterWaitingCount, ReaderWaitingCount, WriterCount, ReaderCount)
  BY CountsForm DEF IInv
<1>5. CountsAre(pc', WriterWaitingCount', ReaderWaitingCount', WriterCount', ReaderCount')
  BY <1>2, <1>3, <1>4 DEF CountsAre
<1> QED  BY <1>5 DEF CountsExact, CountsAre, Placed, ActiveWriterLabels, ActiveReaderLabels

(* down(&SemaphoreMutex) on entry, after a wait and on leaving (280, 287,  *)
(* 319, 325, 352, 391): the caller is the holder, or it sleeps.            *)
LEMMA DownMutexInv ==
  ASSUME IInv, NEW t, NEW to, GoesTo(t, to), OnMutex(Down(SemaphoreMutex, t)),
         \/ pc[t] = "idle" /\ to = "enterTest"
         \/ pc[t] = "waitDownMutex" /\ to = "waitOver"
         \/ pc[t] \in {"reading", "writing"} /\ to = "leaveCount",
         t \in Writers => pc[t] \in WriterLabels, t \in Readers => pc[t] \in ReaderLabels
  PROVE  IInv'
<1> DEFINE s == SemaphoreMutex
           d == Down(s, t)
<1>1. /\ s' = d /\ UNCHANGED <<SemaphoreWriter, SemaphoreReader, counts, index>>
      /\ t \in Threads
  BY DEF OnMutex, GoesTo
<1>2. /\ Labelled' /\ pc'[t] = to /\ \A x \in Threads : x # t => pc'[x] = pc[x]
      /\ t \notin Sleepers(s) /\ t \notin Sleepers(SemaphoreWriter) /\ t \notin Sleepers(SemaphoreReader)
  BY GoesFacts
<1>3. s \in Semaphores(Threads) /\ WellFormed(s) /\ Held(s, MutexHolders, {})
  BY DEF IInv, TypeOK, SleepersPlaced, MutexHeld
<1>4. /\ d \in Semaphores(Threads) /\ WellFormed(d)
      /\ \/ MutexHolders = {} /\ Sleepers(s) = {} /\ Sleepers(d) = {} /\ Held(d, {t}, {})
         \/ Sleepers(d) = Sleepers(s) \cup {t} /\ Held(d, MutexHolders, {})
  BY <1>1, <1>2, <1>3, DownHeld
<1> HIDE DEF d
<1>5. TypeOK'
  BY <1>1, <1>2, <1>4 DEF IInv, TypeOK, Labelled, counts
<1>6. SleepersPlaced'
  <2>1. \A x \in Sleepers(s') : x \in Threads /\ pc'[x] \in MutexDowns
    BY <1>1, <1>2, <1>4 DEF IInv, SleepersPlaced, MutexDowns
  <2>2. /\ \A x \in Sleepers(SemaphoreWriter) : x \in Writers /\ pc'[x] = "waitDownMutex"
        /\ \A x \in Sleepers(SemaphoreReader) : x \in Readers /\ pc'[x] = "waitDownMutex"
    BY <1>2 DEF IInv, SleepersPlaced, Threads
  <2> QED  BY <1>1, <1>4, <2>1, <2>2 DEF IInv, SleepersPlaced
<1>7. MutexHeld'
  <2>1. \/ MutexHolders' = {t} /\ Held(d, {t}, {})
        \/ MutexHolders' = MutexHolders /\ Held(d, MutexHolders, {})
    <3>1. pc'[t] \in MutexSections /\ pc[t] \notin MutexSections
      BY <1>2 DEF MutexSections
    <3> QED  BY <1>1, <1>2, <1>4, <3>1 DEF MutexHolders
  <2> QED  BY <1>1, <2>1 DEF MutexHeld
<1>8. CountsExact'
  <2>1. /\ pc[t] \in WaitLabels <=> to \in WaitLabels
        /\ t \in Writers => (pc[t] \in ActiveWriterLabels <=> to \in ActiveWriterLabels)
        /\ t \in Readers => (pc[t] \in ActiveReaderLabels <=> to \in ActiveReaderLabels)
    BY DEF WaitLabels, ActiveWriterLabels, ActiveReaderLabels, WriterLabels, ReaderLabels
  <2> QED  BY <1>1, <2>1, KeepsCounts
<1> QED  BY <1>5, <1>6, <1>7, <1>8 DEF IInv

(* up(&SemaphoreMutex) before a wait, on entry and on leaving (285, 291,   *)
(* 323, 329, 365, 397): the thread it wakes is the next holder.            *)
LEMMA UpMutexInv ==
  ASSUME IInv, NEW t, NEW to, GoesTo(t, to), OnMutex(Up(SemaphoreMutex)),
         \/ pc[t] = "waitUpMutex" /\ to = "waitDown"
         \/ pc[t] = "enterUpMutex" /\ to = (IF t \in Writers THEN "writing" ELSE "reading")
         \/ pc[t] = "leaveUpMutex" /\ to = "idle"
  PROVE  IInv'
<1> DEFINE s == SemaphoreMutex
           u == Up(s)
<1>1. /\ s' = u /\ UNCHANGED <<SemaphoreWriter, SemaphoreReader, counts, index>>
      /\ t \in Threads
  BY DEF OnMutex, GoesTo
<1>2. /\ Labelled' /\ pc'[t] = to /\ \A x \in Threads : x # t => pc'[x] = pc[x]
      /\ t \notin Sleepers(s) /\ t \notin Sleepers(SemaphoreWriter) /\ t \notin Sleepers(SemaphoreReader)
  BY GoesFacts
<1>3. s \in Semaphores(Threads) /\ WellFormed(s) /\ Held(s, MutexHolders, {})
  BY DEF IInv, TypeOK, SleepersPlaced, MutexHeld
<1>4. MutexHolders = {t}
  <2>1. t \in MutexHolders
    BY <1>1, <1>2 DEF MutexHolders, MutexSections
  <2> QED  BY <1>3, <2>1 DEF Held
<1>5. /\ u \in Semaphores(Threads) /\ WellFormed(u)
      /\ \/ Sleepers(s) = {} /\ Sleepers(u) = {} /\ Held(u, {}, {})
         \/ \E h \in Sleepers(s) : Sleepers(u) = Sleepers(s) \ {h} /\ Held(u, {h}, {})
  BY <1>3, <1>4, UpHeld
<1> HIDE DEF u
<1>6. TypeOK'
  BY <1>1, <1>2, <1>5 DEF IInv, TypeOK, Labelled, counts
<1>7. SleepersPlaced'
  <2>1. \A x \in Sleepers(s') : x \in Threads /\ pc'[x] \in MutexDowns
    BY <1>1, <1>2, <1>5 DEF IInv, SleepersPlaced, MutexDowns
  <2>2. /\ \A x \in Sleepers(SemaphoreWriter) : x \in Writers /\ pc'[x] = "waitDownMutex"
        /\ \A x \in Sleepers(SemaphoreReader) : x \in Readers /\ pc'[x] = "waitDownMutex"
    BY <1>2 DEF IInv, SleepersPlaced, Threads
  <2> QED  BY <1>1, <1>5, <2>1, <2>2 DEF IInv, SleepersPlaced
<1>8. MutexHeld'
  <2>1. pc'[t] \notin MutexSections
    BY <1>2 DEF MutexSections
  <2>2. CASE Sleepers(s) = {} /\ Sleepers(u) = {} /\ Held(u, {}, {})
    <3>1. MutexHolders' = {}
      BY <1>1, <1>2, <1>4, <2>1, <2>2 DEF MutexHolders
    <3> QED  BY <1>1, <2>2, <3>1 DEF MutexHeld
  <2>3. ASSUME NEW h \in Sleepers(s), Sleepers(u) = Sleepers(s) \ {h}, Held(u, {h}, {})
        PROVE  MutexHeld'
    <3>1. h \in Threads /\ pc[h] \in MutexSections /\ h # t
      BY <1>2, <2>3 DEF IInv, SleepersPlaced, MutexDowns, MutexSections
    <3>2. MutexHolders' = {h}
      BY <1>1, <1>2, <1>4, <2>1, <2>3, <3>1 DEF MutexHolders
    <3> QED  BY <1>1, <2>3, <3>2 DEF MutexHeld
  <2> QED  BY <1>5, <2>2, <2>3
<1>9. CountsExact'
  <2>1. /\ pc[t] \in WaitLabels <=> to \in WaitLabels
        /\ t \in Writers => (pc[t] \in ActiveWriterLabels <=> to \in ActiveWriterLabels)
        /\ t \in Readers => (pc[t] \in ActiveReaderLabels <=> to \in ActiveReaderLabels)
    <3>1. t \in Writers => t \notin Readers
      BY ThreadsAssumption
    <3> QED  BY <3>1 DEF WaitLabels, ActiveWriterLabels, ActiveReaderLabels
  <2> QED  BY <1>1, <2>1, KeepsCounts
<1> QED  BY <1>6, <1>7, <1>8, <1>9 DEF IInv
-----------------------------------------------------------------------------
(* A step that leaves SemaphoreMutex and the counts alone, between two     *)
(* control points that differ neither in who holds SemaphoreMutex nor in   *)
(* who is counted: only the other two semaphores have to be looked at.     *)
LEMMA QuietInv ==
  ASSUME IInv, NEW t, NEW to, GoesTo(t, to), UNCHANGED <<SemaphoreMutex, counts>>,
         pc[t] \in MutexSections <=> to \in MutexSections,
         pc[t] \in WaitLabels <=> to \in WaitLabels,
         pc[t] \notin ActiveWriterLabels \cup ActiveReaderLabels,
         to \notin ActiveWriterLabels \cup ActiveReaderLabels,
         index' \in [Writers -> Nat],
         SemaphoreWriter' \in Semaphores(Writers), WellFormed(SemaphoreWriter'),
         SemaphoreReader' \in Semaphores(Readers), WellFormed(SemaphoreReader'),
         \A x \in Sleepers(SemaphoreWriter') : x \in Writers /\ pc'[x] = "waitDownMutex",
         \A x \in Sleepers(SemaphoreReader') : x \in Readers /\ pc'[x] = "waitDownMutex"
  PROVE  IInv'
<1>1. CountsExact'
  BY KeepsCounts
<1>2. MutexHeld' /\ \A x \in Sleepers(SemaphoreMutex') : x \in Threads /\ pc'[x] \in MutexDowns
  BY KeepsMutex
<1>3. Labelled'
  BY GoesFacts
<1>4. TypeOK'
  BY <1>3 DEF IInv, TypeOK, Labelled, counts
<1>5. SleepersPlaced'
  BY <1>2 DEF IInv, SleepersPlaced
<1> QED  BY <1>1, <1>2, <1>4, <1>5 DEF IInv

(* down(&SemaphoreWriter) of a writer that has to wait (286), and          *)
(* up(&SemaphoreWriter) of a thread that leaves (363, 395).                *)
LEMMA OnWriterInv ==
  ASSUME IInv, NEW t, NEW to, GoesTo(t, to),
         \/ /\ t \in Writers /\ pc[t] = "waitDown" /\ to = "waitDownMutex"
            /\ OnWriter(Down(SemaphoreWriter, t))
         \/ /\ pc[t] = "leaveWakeWriter" /\ to = "leaveUpMutex"
            /\ OnWriter(Up(SemaphoreWriter))
  PROVE  IInv'
<1>1. /\ UNCHANGED <<SemaphoreMutex, SemaphoreReader, counts, index>>
      /\ SemaphoreWriter' = IF pc[t] = "waitDown" THEN Down(SemaphoreWriter, t) ELSE Up(SemaphoreWriter)
  BY DEF OnWriter
<1>2. /\ pc'[t] = to /\ \A x \in Threads : x # t => pc'[x] = pc[x]
      /\ t \notin Sleepers(SemaphoreWriter) /\ t \notin Sleepers(SemaphoreReader)
  BY GoesFacts
<1>3. SemaphoreWriter \in Semaphores(Writers) /\ WellFormed(SemaphoreWriter)
  BY DEF IInv, TypeOK, SleepersPlaced
<1>4. /\ SemaphoreWriter' \in Semaphores(Writers) /\ WellFormed(SemaphoreWriter')
      /\ Sleepers(SemaphoreWriter') \subseteq
           Sleepers(SemaphoreWriter) \cup (IF pc[t] = "waitDown" THEN {t} ELSE {})
  <2>1. CASE pc[t] = "waitDown"
    <3>1. t \in Writers
      BY <2>1
    <3>2. /\ Down(SemaphoreWriter, t) \in Semaphores(Writers) /\ WellFormed(Down(SemaphoreWriter, t))
          /\ Sleepers(Down(SemaphoreWriter, t)) \subseteq Sleepers(SemaphoreWriter) \cup {t}
      BY <1>2, <1>3, <3>1, DownFacts
    <3> QED  BY <1>1, <2>1, <3>2
  <2>2. CASE pc[t] # "waitDown"
    <3>1. /\ Up(SemaphoreWriter) \in Semaphores(Writers) /\ WellFormed(Up(SemaphoreWriter))
          /\ Sleepers(Up(SemaphoreWriter)) \subseteq Sleepers(SemaphoreWriter)
      BY <1>3, UpFacts
    <3> QED  BY <1>1, <2>2, <3>1
  <2> QED  BY <2>1, <2>2
<1>5. /\ \A x \in Sleepers(SemaphoreWriter') : x \in Writers /\ pc'[x] = "waitDownMutex"
      /\ \A x \in Sleepers(SemaphoreReader') : x \in Readers /\ pc'[x] = "waitDownMutex"
  BY <1>1, <1>2, <1>4 DEF IInv, SleepersPlaced, Threads
<1>6. /\ pc[t] \in MutexSections <=> to \in MutexSections
      /\ pc[t] \in WaitLabels <=> to \in WaitLabels
      /\ pc[t] \notin ActiveWriterLabels \cup ActiveReaderLabels
      /\ to \notin ActiveWriterLabels \cup ActiveReaderLabels
  BY DEF MutexSections, WaitLabels, ActiveWriterLabels, ActiveReaderLabels
<1>7. /\ index' \in [Writers -> Nat] /\ UNCHANGED <<SemaphoreMutex, counts>>
      /\ SemaphoreReader' \in Semaphores(Readers) /\ WellFormed(SemaphoreReader')
  BY <1>1 DEF IInv, TypeOK, SleepersPlaced
<1> QED  BY <1>4, <1>5, <1>6, <1>7, QuietInv

(* down(&SemaphoreReader) of a reader that has to wait (324), and one turn *)
(* of the loop in which a leaving writer wakes readers (358).              *)
LEMMA OnReaderInv ==
  ASSUME IInv, NEW t, NEW to, GoesTo(t, to), index' \in [Writers -> Nat],
         \/ /\ t \in Readers /\ pc[t] = "waitDown" /\ to = "waitDownMutex"
            /\ OnReader(Down(SemaphoreReader, t))
         \/ /\ pc[t] = "leaveWakeReaders" /\ to \in {"leaveWakeReaders", "leaveUpMutex"}
            /\ OnReader(Up(SemaphoreReader))
  PROVE  IInv'
<1>1. /\ UNCHANGED <<SemaphoreMutex, SemaphoreWriter, counts>>
      /\ SemaphoreReader' = IF pc[t] = "waitDown" THEN Down(SemaphoreReader, t) ELSE Up(SemaphoreReader)
  BY DEF OnReader
<1>2. /\ pc'[t] = to /\ \A x \in Threads : x # t => pc'[x] = pc[x]
      /\ t \notin Sleepers(SemaphoreWriter) /\ t \notin Sleepers(SemaphoreReader)
  BY GoesFacts
<1>3. SemaphoreReader \in Semaphores(Readers) /\ WellFormed(SemaphoreReader)
  BY DEF IInv, TypeOK, SleepersPlaced
<1>4. /\ SemaphoreReader' \in Semaphores(Readers) /\ WellFormed(SemaphoreReader')
      /\ Sleepers(SemaphoreReader') \subseteq
           Sleepers(SemaphoreReader) \cup (IF pc[t] = "waitDown" THEN {t} ELSE {})
  <2>1. CASE pc[t] = "waitDown"
    <3>1. t \in Readers
      BY <2>1
    <3>2. /\ Down(SemaphoreReader, t) \in Semaphores(Readers) /\ WellFormed(Down(SemaphoreReader, t))
          /\ Sleepers(Down(SemaphoreReader, t)) \subseteq Sleepers(SemaphoreReader) \cup {t}
      BY <1>2, <1>3, <3>1, DownFacts
    <3> QED  BY <1>1, <2>1, <3>2
  <2>2. CASE pc[t] # "waitDown"
    <3>1. /\ Up(SemaphoreReader) \in Semaphores(Readers) /\ WellFormed(Up(SemaphoreReader))
          /\ Sleepers(Up(SemaphoreReader)) \subseteq Sleepers(SemaphoreReader)
      BY <1>3, UpFacts
    <3> QED  BY <1>1, <2>2, <3>1
  <2> QED  BY <2>1, <2>2
<1>5. /\ \A x \in Sleepers(SemaphoreWriter') : x \in Writers /\ pc'[x] = "waitDownMutex"
      /\ \A x \in Sleepers(SemaphoreReader') : x \in Readers /\ pc'[x] = "waitDownMutex"
  BY <1>1, <1>2, <1>4 DEF IInv, SleepersPlaced, Threads
<1>6. /\ pc[t] \in MutexSections <=> to \in MutexSections
      /\ pc[t] \in WaitLabels <=> to \in WaitLabels
      /\ pc[t] \notin ActiveWriterLabels \cup ActiveReaderLabels
      /\ to \notin ActiveWriterLabels \cup ActiveReaderLabels
  BY DEF MutexSections, WaitLabels, ActiveWriterLabels, ActiveReaderLabels
<1>7. /\ UNCHANGED <<SemaphoreMutex, counts>>
      /\ SemaphoreWriter' \in Semaphores(Writers) /\ WellFormed(SemaphoreWriter')
  BY <1>1 DEF IInv, TypeOK, SleepersPlaced
<1> QED  BY <1>4, <1>5, <1>6, <1>7, QuietInv
-----------------------------------------------------------------------------
(* A block of tests and updates of the counts under SemaphoreMutex: it is  *)
(* enough that the counts are exact after it.                              *)
LEMMA BlockInv ==
  ASSUME IInv, NEW t, NEW to, GoesTo(t, to), UNCHANGED <<semaphores, index>>,
         pc[t] \in MutexSections, to \in MutexSections,
         WriterWaitingCount' \in Nat, ReaderWaitingCount' \in Nat,
         WriterCount' \in Nat, ReaderCount' \in Nat,
         CountsAre(pc', WriterWaitingCount', ReaderWaitingCount', WriterCount', ReaderCount')
  PROVE  IInv'
<1>1. UNCHANGED <<SemaphoreMutex, SemaphoreWriter, SemaphoreReader>>
  BY DEF semaphores
<1>2. /\ Labelled' /\ \A x \in Threads : x # t => pc'[x] = pc[x]
      /\ t \notin Sleepers(SemaphoreWriter) /\ t \notin Sleepers(SemaphoreReader)
  BY GoesFacts
<1>3. CountsExact'
  BY DEF CountsExact, CountsAre, Placed, ActiveWriterLabels, ActiveReaderLabels
<1>4. MutexHeld' /\ \A x \in Sleepers(SemaphoreMutex') : x \in Threads /\ pc'[x] \in MutexDowns
  BY <1>1, KeepsMutex
<1>5. TypeOK'
  BY <1>1, <1>2 DEF IInv, TypeOK, Labelled
<1>6. SleepersPlaced'
  BY <1>1, <1>2, <1>4 DEF IInv, SleepersPlaced, Threads
<1> QED  BY <1>3, <1>4, <1>5, <1>6 DEF IInv

(* What holds before such a block, in the words of the counting lemmas.    *)
LEMMA BlockFacts ==
  ASSUME IInv, NEW t, NEW to, GoesTo(t, to)
  PROVE  /\ CountsAre(pc, WriterWaitingCount, ReaderWaitingCount, WriterCount, ReaderCount)
         /\ IsFiniteSet(Writers) /\ IsFiniteSet(Readers) /\ Readers \cap Writers = {}
         /\ pc'[t] = to
         /\ \A x \in Writers : x # t => pc'[x] = pc[x]
         /\ \A x \in Readers : x # t => pc'[x] = pc[x]
         /\ WriterWaitingCount \in Nat /\ ReaderWaitingCount \in Nat
         /\ WriterCount \in Nat /\ ReaderCount \in Nat
<1>1. CountsAre(pc, WriterWaitingCount, ReaderWaitingCount, WriterCount, ReaderCount)
  BY CountsForm DEF IInv
<1>2. pc'[t] = to /\ \A x \in Threads : x # t => pc'[x] = pc[x]
  BY GoesFacts
<1> QED  BY <1>1, <1>2, ThreadsAssumption DEF IInv, TypeOK, Threads

(* The writer's blocks: it waits (284), its wait is over (288, 290), it    *)
(* need not wait (290), it leaves (353).                                   *)
LEMMA WriterBlockInv ==
  ASSUME IInv, NEW w \in Writers,
         \/ WriterEnter_Wait(w) \/ WriterEnter_WaitOver(w)
         \/ WriterEnter_NoWait(w) \/ WriterLeave_Count(w)
  PROVE  IInv'
<1> DEFINE from == pc[w]
           to == pc'[w]
<1>1. /\ GoesTo(w, to) /\ UNCHANGED <<semaphores, index>>
      /\ ReaderWaitingCount' = ReaderWaitingCount /\ ReaderCount' = ReaderCount
      /\ \/ /\ from = "enterTest" /\ to = "waitUpMutex"
            /\ WriterWaitingCount' = WriterWaitingCount + 1 /\ WriterCount' = WriterCount
         \/ /\ from = "waitOver" /\ to = "enterUpMutex"
            /\ WriterWaitingCount' = WriterWaitingCount - 1 /\ WriterCount' = WriterCount + 1
         \/ /\ from = "enterTest" /\ to = "enterUpMutex"
            /\ WriterWaitingCount' = WriterWaitingCount /\ WriterCount' = WriterCount + 1
         \/ /\ from = "leaveCount" /\ to \in {"leaveWakeReaders", "leaveWakeWriter", "leaveUpMutex"}
            /\ WriterWaitingCount' = WriterWaitingCount /\ WriterCount' = WriterCount - 1
  <2>1. pc \in [Threads -> ReaderLabels \cup WriterLabels] /\ w \in Threads /\ w \notin Readers
    BY ThreadsAssumption DEF IInv, TypeOK, Threads
  <2>2. ReaderWaitingCount \in Nat /\ WriterWaitingCount \in Nat
    BY DEF IInv, TypeOK
  <2> QED  BY <2>1, <2>2 DEF WriterEnter_Wait, WriterEnter_WaitOver, WriterEnter_NoWait,
           WriterLeave_Count, Moves, GoesTo, WriterLabels
<1>2. /\ CountsAre(pc, WriterWaitingCount, ReaderWaitingCount, WriterCount, ReaderCount)
      /\ IsFiniteSet(Writers) /\ w \notin Readers
      /\ \A x \in Writers : x # w => pc'[x] = pc[x]
      /\ \A x \in Readers : x # w => pc'[x] = pc[x]
      /\ WriterWaitingCount \in Nat /\ ReaderWaitingCount \in Nat
      /\ WriterCount \in Nat /\ ReaderCount \in Nat
  BY <1>1, BlockFacts
<1> DEFINE W(p) == Placed(p, Writers, WaitLabels)
           A(p) == Placed(p, Writers, ActiveWriterLabels)
<1>3. /\ Placed(pc', Readers, WaitLabels) = Placed(pc, Readers, WaitLabels)
      /\ Placed(pc', Readers, ActiveReaderLabels) = Placed(pc, Readers, ActiveReaderLabels)
  BY <1>2, Stays
<1>4. WriterWaitingCount' = Cardinality(W(pc')) /\ WriterWaitingCount' \in Nat
  <2>1. CASE from = "enterTest" /\ to = "waitUpMutex"
    <3>1. from \notin WaitLabels /\ to \in WaitLabels
      BY <2>1 DEF WaitLabels
    <3>2. Cardinality(W(pc')) = Cardinality(W(pc)) + 1
      BY <1>2, <3>1, Joins
    <3> QED  BY <1>1, <1>2, <2>1, <3>2 DEF CountsAre
  <2>2. CASE from = "waitOver" /\ to = "enterUpMutex"
    <3>1. from \in WaitLabels /\ to \notin WaitLabels
      BY <2>2 DEF WaitLabels
    <3>2. Cardinality(W(pc')) = Cardinality(W(pc)) - 1 /\ Cardinality(W(pc')) \in Nat
      BY <1>2, <3>1, Parts
    <3> QED  BY <1>1, <1>2, <2>2, <3>2 DEF CountsAre
  <2>3. CASE \/ from = "enterTest" /\ to = "enterUpMutex"
             \/ from = "leaveCount"
    <3>1. from \notin WaitLabels /\ to \notin WaitLabels
      BY <1>1, <2>3 DEF WaitLabels
    <3>2. W(pc') = W(pc)
      BY <1>2, <3>1, Stays
    <3> QED  BY <1>1, <1>2, <2>3, <3>2 DEF CountsAre
  <2> QED  BY <1>1, <2>1, <2>2, <2>3
<1>5. WriterCount' = Cardinality(A(pc')) /\ WriterCount' \in Nat
  <2>1. CASE to = "enterUpMutex"
    <3>1. from \notin ActiveWriterLabels /\ to \in ActiveWriterLabels
      BY <1>1, <2>1 DEF ActiveWriterLabels
    <3>2. Cardinality(A(pc')) = Cardinality(A(pc)) + 1
      BY <1>2, <3>1, Joins
    <3> QED  BY <1>1, <1>2, <2>1, <3>2 DEF CountsAre
  <2>2. CASE from = "leaveCount"
    <3>1. from \in ActiveWriterLabels /\ to \notin ActiveWriterLabels
      BY <1>1, <2>2 DEF ActiveWriterLabels
    <3>2. Cardinality(A(pc')) = Cardinality(A(pc)) - 1 /\ Cardinality(A(pc')) \in Nat
      BY <1>2, <3>1, Parts
    <3> QED  BY <1>1, <1>2, <2>2, <3>2 DEF CountsAre
  <2>3. CASE to = "waitUpMutex"
    <3>1. from \notin ActiveWriterLabels /\ to \notin ActiveWriterLabels
      BY <1>1, <2>3 DEF ActiveWriterLabels
    <3>2. A(pc') = A(pc)
      BY <1>2, <3>1, Stays
    <3> QED  BY <1>1, <1>2, <2>3, <3>2 DEF CountsAre
  <2> QED  BY <1>1, <2>1, <2>2, <2>3
<1>6. CountsAre(pc', WriterWaitingCount', ReaderWaitingCount', WriterCount', ReaderCount')
  BY <1>1, <1>2, <1>3, <1>4, <1>5 DEF CountsAre
<1>7. from \in MutexSections /\ to \in MutexSections
  BY <1>1 DEF MutexSections
<1>8. ReaderWaitingCount' \in Nat /\ ReaderCount' \in Nat
  BY <1>1, <1>2
<1> QED  BY <1>1, <1>4, <1>5, <1>6, <1>7, <1>8, BlockInv

(* The reader's blocks: it waits (322), its wait is over (326, 328), it    *)
(* need not wait (328), it leaves (392).                                   *)
LEMMA ReaderBlockInv ==
  ASSUME IInv, NEW r \in Readers,
         \/ ReaderEnter_Wait(r) \/ ReaderEnter_WaitOver(r)
         \/ ReaderEnter_NoWait(r) \/ ReaderLeave_Count(r)
  PROVE  IInv'
<1> DEFINE from == pc[r]
           to == pc'[r]
<1>1. /\ GoesTo(r, to) /\ UNCHANGED <<semaphores, index>>
      /\ WriterWaitingCount' = WriterWaitingCount /\ WriterCount' = WriterCount
      /\ \/ /\ from = "enterTest" /\ to = "waitUpMutex"
            /\ ReaderWaitingCount' = ReaderWaitingCount + 1 /\ ReaderCount' = ReaderCount
         \/ /\ from = "waitOver" /\ to = "enterUpMutex"
            /\ ReaderWaitingCount' = ReaderWaitingCount - 1 /\ ReaderCount' = ReaderCount + 1
         \/ /\ from = "enterTest" /\ to = "enterUpMutex"
            /\ ReaderWaitingCount' = ReaderWaitingCount /\ ReaderCount' = ReaderCount + 1
         \/ /\ from = "leaveCount" /\ to \in {"leaveWakeWriter", "leaveUpMutex"}
            /\ ReaderWaitingCount' = ReaderWaitingCount /\ ReaderCount' = ReaderCount - 1
  <2>1. pc \in [Threads -> ReaderLabels \cup WriterLabels] /\ r \in Threads /\ r \notin Writers
    BY ThreadsAssumption DEF IInv, TypeOK, Threads
  <2> QED  BY <2>1 DEF ReaderEnter_Wait, ReaderEnter_WaitOver, ReaderEnter_NoWait,
           ReaderLeave_Count, Moves, GoesTo, ReaderLabels
<1>2. /\ CountsAre(pc, WriterWaitingCount, ReaderWaitingCount, WriterCount, ReaderCount)
      /\ IsFiniteSet(Readers) /\ r \notin Writers
      /\ \A x \in Writers : x # r => pc'[x] = pc[x]
      /\ \A x \in Readers : x # r => pc'[x] = pc[x]
      /\ WriterWaitingCount \in Nat /\ ReaderWaitingCount \in Nat
      /\ WriterCount \in Nat /\ ReaderCount \in Nat
  BY <1>1, BlockFacts
<1> DEFINE W(p) == Placed(p, Readers, WaitLabels)
           A(p) == Placed(p, Readers, ActiveReaderLabels)
<1>3. /\ Placed(pc', Writers, WaitLabels) = Placed(pc, Writers, WaitLabels)
      /\ Placed(pc', Writers, ActiveWriterLabels) = Placed(pc, Writers, ActiveWriterLabels)
  BY <1>2, Stays
<1>4. ReaderWaitingCount' = Cardinality(W(pc')) /\ ReaderWaitingCount' \in Nat
  <2>1. CASE from = "enterTest" /\ to = "waitUpMutex"
    <3>1. from \notin WaitLabels /\ to \in WaitLabels
      BY <2>1 DEF WaitLabels
    <3>2. Cardinality(W(pc')) = Cardinality(W(pc)) + 1
      BY <1>2, <3>1, Joins
    <3> QED  BY <1>1, <1>2, <2>1, <3>2 DEF CountsAre
  <2>2. CASE from = "waitOver" /\ to = "enterUpMutex"
    <3>1. from \in WaitLabels /\ to \notin WaitLabels
      BY <2>2 DEF WaitLabels
    <3>2. Cardinality(W(pc')) = Cardinality(W(pc)) - 1 /\ Cardinality(W(pc')) \in Nat
      BY <1>2, <3>1, Parts
    <3> QED  BY <1>1, <1>2, <2>2, <3>2 DEF CountsAre
  <2>3. CASE \/ from = "enterTest" /\ to = "enterUpMutex"
             \/ from = "leaveCount"
    <3>1. from \notin WaitLabels /\ to \notin WaitLabels
      BY <1>1, <2>3 DEF WaitLabels
    <3>2. W(pc') = W(pc)
      BY <1>2, <3>1, Stays
    <3> QED  BY <1>1, <1>2, <2>3, <3>2 DEF CountsAre
  <2> QED  BY <1>1, <2>1, <2>2, <2>3
<1>5. ReaderCount' = Cardinality(A(pc')) /\ ReaderCount' \in Nat
  <2>1. CASE to = "enterUpMutex"
    <3>1. from \notin ActiveReaderLabels /\ to \in ActiveReaderLabels
      BY <1>1, <2>1 DEF ActiveReaderLabels
    <3>2. Cardinality(A(pc')) = Cardinality(A(pc)) + 1
      BY <1>2, <3>1, Joins
    <3> QED  BY <1>1, <1>2, <2>1, <3>2 DEF CountsAre
  <2>2. CASE from = "leaveCount"
    <3>1. from \in ActiveReaderLabels /\ to \notin ActiveReaderLabels
      BY <1>1, <2>2 DEF ActiveReaderLabels
    <3>2. Cardinality(A(pc')) = Cardinality(A(pc)) - 1 /\ Cardinality(A(pc')) \in Nat
      BY <1>2, <3>1, Parts
    <3> QED  BY <1>1, <1>2, <2>2, <3>2 DEF CountsAre
  <2>3. CASE to = "waitUpMutex"
    <3>1. from \notin ActiveReaderLabels /\ to \notin ActiveReaderLabels
      BY <1>1, <2>3 DEF ActiveReaderLabels
    <3>2. A(pc') = A(pc)
      BY <1>2, <3>1, Stays
    <3> QED  BY <1>1, <1>2, <2>3, <3>2 DEF CountsAre
  <2> QED  BY <1>1, <2>1, <2>2, <2>3
<1>6. CountsAre(pc', WriterWaitingCount', ReaderWaitingCount', WriterCount', ReaderCount')
  BY <1>1, <1>2, <1>3, <1>4, <1>5 DEF CountsAre
<1>7. from \in MutexSections /\ to \in MutexSections
  BY <1>1 DEF MutexSections
<1>8. WriterWaitingCount' \in Nat /\ WriterCount' \in Nat
  BY <1>1, <1>2
<1> QED  BY <1>1, <1>4, <1>5, <1>6, <1>7, <1>8, BlockInv
-----------------------------------------------------------------------------
(* The state InitializeSyncSolution leaves (KboardModule.c:252-258)        *)
(* satisfies the invariant.                                                *)
LEMMA InitInv == SyncInit => IInv
<1> SUFFICES ASSUME SyncInit PROVE IInv
  OBVIOUS
<1> DEFINE s == InitializeSemaphore(1)
           z == InitializeSemaphore(0)
<1>1. /\ s \in Semaphores(Threads) /\ WellFormed(s) /\ Sleepers(s) = {} /\ s.count = 1
      /\ z \in Semaphores(Writers) /\ z \in Semaphores(Readers)
      /\ WellFormed(z) /\ Sleepers(z) = {}
  BY InitializeFacts
<1> HIDE DEF s, z
<1>2. /\ SemaphoreMutex = s /\ SemaphoreWriter = z /\ SemaphoreReader = z
      /\ WriterCount = 0 /\ ReaderCount = 0 /\ WriterWaitingCount = 0 /\ ReaderWaitingCount = 0
      /\ index = [w \in Writers |-> 0] /\ pc = [t \in Threads |-> "idle"]
  BY DEF SyncInit, s, z
<1>3. TypeOK /\ SleepersPlaced
  BY <1>1, <1>2 DEF TypeOK, SleepersPlaced, ReaderLabels, WriterLabels, Threads
<1>4. MutexHeld
  <2>1. MutexHolders = {}
    BY <1>2 DEF MutexHolders, MutexSections
  <2> QED  BY <1>1, <1>2, <2>1 DEF MutexHeld, Held
<1>5. CountsExact
  <2>1. /\ Placed(pc, Writers, WaitLabels) = {} /\ Placed(pc, Readers, WaitLabels) = {}
        /\ Placed(pc, Writers, ActiveWriterLabels) = {} /\ Placed(pc, Readers, ActiveReaderLabels) = {}
    BY <1>2 DEF Placed, WaitLabels, ActiveWriterLabels, ActiveReaderLabels, Threads
  <2> QED  BY <1>2, <2>1, CountsForm, FS_EmptySet DEF CountsAre
<1> QED  BY <1>3, <1>4, <1>5 DEF IInv

(* Every step a writer takes in Enter and Leave preserves it.              *)
LEMMA WriterInv ==
  ASSUME IInv, NEW w \in Writers, Enter_DownMutex(w) \/ WriterStep(w)
  PROVE  IInv'
<1>1. /\ w \in Threads /\ w \notin Readers /\ pc[w] \in WriterLabels
      /\ index \in [Writers -> Nat] /\ ReaderWaitingCount \in Nat
  BY ThreadsAssumption DEF IInv, TypeOK, Threads
<1>2. ASSUME NEW from, NEW to \in WriterLabels, Moves(w, from, to) PROVE GoesTo(w, to) /\ pc[w] = from
  BY <1>1, <1>2 DEF Moves, GoesTo
<1>3. ASSUME Enter_DownMutex(w) \/ Wait_DownMutex(w) \/ WriterLeave_DownMutex(w) PROVE IInv'
  <2>1. PICK from, to : /\ Moves(w, from, to) /\ OnMutex(Down(SemaphoreMutex, w))
                        /\ \/ from = "idle" /\ to = "enterTest"
                           \/ from = "waitDownMutex" /\ to = "waitOver"
                           \/ from = "writing" /\ to = "leaveCount"
    BY <1>3 DEF Enter_DownMutex, Wait_DownMutex, WriterLeave_DownMutex, DownMutex
  <2>2. GoesTo(w, to) /\ pc[w] = from
    BY <1>2, <2>1 DEF WriterLabels
  <2> QED  BY <1>1, <2>1, <2>2, DownMutexInv
<1>4. ASSUME Wait_UpMutex(w) \/ WriterEnter_UpMutex(w) \/ Leave_UpMutex(w) PROVE IInv'
  <2>1. PICK from, to : /\ Moves(w, from, to) /\ OnMutex(Up(SemaphoreMutex))
                        /\ \/ from = "waitUpMutex" /\ to = "waitDown"
                           \/ from = "enterUpMutex" /\ to = "writing"
                           \/ from = "leaveUpMutex" /\ to = "idle"
    BY <1>4 DEF Wait_UpMutex, WriterEnter_UpMutex, Leave_UpMutex, UpMutex
  <2>2. GoesTo(w, to) /\ pc[w] = from
    BY <1>2, <2>1 DEF WriterLabels
  <2> QED  BY <2>1, <2>2, UpMutexInv
<1>5. CASE WriterEnter_Down(w)
  <2>1. Moves(w, "waitDown", "waitDownMutex") /\ OnWriter(Down(SemaphoreWriter, w))
    BY <1>5 DEF WriterEnter_Down
  <2>2. GoesTo(w, "waitDownMutex") /\ pc[w] = "waitDown"
    BY <1>2, <2>1 DEF WriterLabels
  <2> QED  BY <2>1, <2>2, OnWriterInv
<1>6. CASE WriterLeave_WakeWriter(w)
  <2>1. Moves(w, "leaveWakeWriter", "leaveUpMutex") /\ OnWriter(Up(SemaphoreWriter))
    BY <1>6 DEF WriterLeave_WakeWriter, UpWriter
  <2>2. GoesTo(w, "leaveUpMutex") /\ pc[w] = "leaveWakeWriter"
    BY <1>2, <2>1 DEF WriterLabels
  <2> QED  BY <2>1, <2>2, OnWriterInv
<1>7. CASE WriterLeave_WakeReader(w)
  <2>1. PICK to \in {"leaveWakeReaders", "leaveUpMutex"} :
          Moves(w, "leaveWakeReaders", to) /\ OnReader(Up(SemaphoreReader))
    BY <1>7 DEF WriterLeave_WakeReader
  <2>2. index' \in [Writers -> Nat]
    BY <1>1, <1>7 DEF WriterLeave_WakeReader
  <2>3. GoesTo(w, to) /\ pc[w] = "leaveWakeReaders"
    BY <1>2, <2>1 DEF WriterLabels
  <2> QED  BY <2>1, <2>2, <2>3, OnReaderInv
<1> QED  BY <1>3, <1>4, <1>5, <1>6, <1>7, WriterBlockInv DEF WriterStep

(* And every step of a reader.                                             *)
LEMMA ReaderInv ==
  ASSUME IInv, NEW r \in Readers, Enter_DownMutex(r) \/ ReaderStep(r)
  PROVE  IInv'
<1>1. /\ r \in Threads /\ r \notin Writers /\ pc[r] \in ReaderLabels
      /\ index \in [Writers -> Nat]
  BY ThreadsAssumption DEF IInv, TypeOK, Threads
<1>2. ASSUME NEW from, NEW to \in ReaderLabels, Moves(r, from, to) PROVE GoesTo(r, to) /\ pc[r] = from
  BY <1>1, <1>2 DEF Moves, GoesTo
<1>3. ASSUME Enter_DownMutex(r) \/ Wait_DownMutex(r) \/ ReaderLeave_DownMutex(r) PROVE IInv'
  <2>1. PICK from, to : /\ Moves(r, from, to) /\ OnMutex(Down(SemaphoreMutex, r))
                        /\ \/ from = "idle" /\ to = "enterTest"
                           \/ from = "waitDownMutex" /\ to = "waitOver"
                           \/ from = "reading" /\ to = "leaveCount"
    BY <1>3 DEF Enter_DownMutex, Wait_DownMutex, ReaderLeave_DownMutex, DownMutex
  <2>2. GoesTo(r, to) /\ pc[r] = from
    BY <1>2, <2>1 DEF ReaderLabels
  <2> QED  BY <1>1, <2>1, <2>2, DownMutexInv
<1>4. ASSUME Wait_UpMutex(r) \/ ReaderEnter_UpMutex(r) \/ Leave_UpMutex(r) PROVE IInv'
  <2>1. PICK from, to : /\ Moves(r, from, to) /\ OnMutex(Up(SemaphoreMutex))
                        /\ \/ from = "waitUpMutex" /\ to = "waitDown"
                           \/ from = "enterUpMutex" /\ to = "reading"
                           \/ from = "leaveUpMutex" /\ to = "idle"
    BY <1>4 DEF Wait_UpMutex, ReaderEnter_UpMutex, Leave_UpMutex, UpMutex
  <2>2. GoesTo(r, to) /\ pc[r] = from
    BY <1>2, <2>1 DEF ReaderLabels
  <2> QED  BY <1>1, <2>1, <2>2, UpMutexInv
<1>5. CASE ReaderEnter_Down(r)
  <2>1. /\ Moves(r, "waitDown", "waitDownMutex") /\ OnReader(Down(SemaphoreReader, r))
        /\ index' \in [Writers -> Nat]
    BY <1>1, <1>5 DEF ReaderEnter_Down
  <2>2. GoesTo(r, "waitDownMutex") /\ pc[r] = "waitDown"
    BY <1>2, <2>1 DEF ReaderLabels
  <2> QED  BY <2>1, <2>2, OnReaderInv
<1>6. CASE ReaderLeave_WakeWriter(r)
  <2>1. Moves(r, "leaveWakeWriter", "leaveUpMutex") /\ OnWriter(Up(SemaphoreWriter))
    BY <1>6 DEF ReaderLeave_WakeWriter, UpWriter
  <2>2. GoesTo(r, "leaveUpMutex") /\ pc[r] = "leaveWakeWriter"
    BY <1>2, <2>1 DEF ReaderLabels
  <2> QED  BY <2>1, <2>2, OnWriterInv
<1> QED  BY <1>3, <1>4, <1>5, <1>6, ReaderBlockInv DEF ReaderStep

(* Every step of the specification, a stuttering one too, preserves the    *)
(* invariant.                                                              *)
LEMMA NextInv == IInv /\ [Next]_syncVars => IInv'
<1> SUFFICES ASSUME IInv, [Next]_syncVars PROVE IInv'
  OBVIOUS
<1>1. CASE Next
  BY <1>1, WriterInv, ReaderInv DEF Next
<1>2. CASE UNCHANGED syncVars
  BY <1>2 DEF syncVars, semaphores, counts, IInv, TypeOK, SleepersPlaced, MutexHeld, MutexHolders,
     CountsExact
<1> QED  BY <1>1, <1>2

(* IInv holds in every reachable state, for any finite sets of readers and *)
(* of writers and whatever MaxSurplus is.                                  *)
LEMMA Invariance == Spec => []IInv
  BY InitInv, NextInv, PTL DEF Spec
-----------------------------------------------------------------------------
(* Every variable keeps its type: in particular no count goes below 0 at   *)
(* KboardModule.c:288, 326, 353 and 392, although woken threads come back  *)
(* in any order.                                                           *)
THEOREM TypeCorrect == Spec => []TypeOK
<1>1. IInv => TypeOK
  BY DEF IInv
<1> QED  BY <1>1, Invariance, PTL

(* What the tests at 281, 320, 354, 361 and 393 read is the number of      *)
(* threads waiting and active.                                             *)
THEOREM CountsCorrect == Spec => []CountsExact
<1>1. IInv => CountsExact
  BY DEF IInv
<1> QED  BY <1>1, Invariance, PTL

(* SemaphoreMutex does its part: at most one thread is between a return of *)
(* down(&SemaphoreMutex) and the up() that follows, and it stays binary.   *)
THEOREM MutexExcludes ==
  Spec => [](SemaphoreMutex.count <= 1 /\ \A t1, t2 \in MutexHolders : t1 = t2)
<1>1. IInv => SemaphoreMutex.count <= 1 /\ \A t1, t2 \in MutexHolders : t1 = t2
  BY DEF IInv, MutexHeld, Held
<1> QED  BY <1>1, Invariance, PTL

(* A count is changed only by the thread that holds SemaphoreMutex, which  *)
(* is why a block of tests and updates between two semaphore calls is one  *)
(* step of the model.                                                      *)
OnlyHolderCounts ==
  [][counts' # counts => \E t \in Threads : MutexHolders = {t} /\ pc'[t] # pc[t]]_syncVars

(* The counts of solution 3 are protected by SemaphoreMutex in every       *)
(* behaviour.                                                              *)
THEOREM CountsProtected == Spec => OnlyHolderCounts
<1> DEFINE Protected == counts' # counts => \E t \in Threads : MutexHolders = {t} /\ pc'[t] # pc[t]
<1>1. ASSUME IInv, [Next]_syncVars PROVE [Protected]_syncVars
  <2> SUFFICES ASSUME Next, counts' # counts
               PROVE  \E t \in Threads : MutexHolders = {t} /\ pc'[t] # pc[t]
    BY <1>1
  <2>1. PICK t \in Threads :
          \/ t \in Writers /\ \/ WriterEnter_Wait(t) \/ WriterEnter_WaitOver(t)
                              \/ WriterEnter_NoWait(t) \/ WriterLeave_Count(t)
          \/ t \in Readers /\ \/ ReaderEnter_Wait(t) \/ ReaderEnter_WaitOver(t)
                              \/ ReaderEnter_NoWait(t) \/ ReaderLeave_Count(t)
    BY DEF Next, WriterStep, ReaderStep, Enter_DownMutex, Wait_UpMutex, WriterEnter_Down,
       Wait_DownMutex, WriterEnter_UpMutex, WriterLeave_DownMutex, WriterLeave_WakeReader,
       WriterLeave_WakeWriter, Leave_UpMutex, ReaderEnter_Down, ReaderEnter_UpMutex,
       ReaderLeave_DownMutex, ReaderLeave_WakeWriter, DownMutex, UpMutex, UpWriter,
       OnMutex, OnWriter, OnReader, counts, Threads
  <2>2. /\ pc[t] \in {"enterTest", "waitOver", "leaveCount"} /\ Awake(t)
        /\ pc'[t] \in {"waitUpMutex", "enterUpMutex", "leaveWakeReaders", "leaveWakeWriter",
                       "leaveUpMutex"}
    <3>1. pc \in [Threads -> ReaderLabels \cup WriterLabels]
      BY <1>1 DEF IInv, TypeOK
    <3> QED  BY <2>1, <3>1 DEF WriterEnter_Wait, WriterEnter_WaitOver, WriterEnter_NoWait,
             WriterLeave_Count, ReaderEnter_Wait, ReaderEnter_WaitOver, ReaderEnter_NoWait,
             ReaderLeave_Count, Moves
  <2>3. t \in MutexHolders
    BY <2>2 DEF MutexHolders, MutexSections, Awake
  <2>4. MutexHolders = {t}
    BY <1>1, <2>3 DEF IInv, MutexHeld, Held
  <2> QED  BY <2>2, <2>4
<1>2. IInv /\ [Next]_syncVars => [Protected]_syncVars
  BY <1>1
<1> QED  BY <1>2, Invariance, PTL DEF Spec, OnlyHolderCounts
-----------------------------------------------------------------------------
(* With at most one reader solution 3 does keep a writer alone.  A turn is *)
(* then at one place only: with a thread that is inside, that passes the   *)
(* turn on or that was woken, or in a semaphore, as a wake-up that is sent *)
(* and not yet taken.                                                      *)
TurnLabels == {"waitOver", "enterUpMutex", "writing", "reading", "leaveCount",
               "leaveWakeReaders", "leaveWakeWriter"}

Unwoken == Sleepers(SemaphoreWriter) \cup Sleepers(SemaphoreReader)
Sent == SemaphoreWriter.count + SemaphoreReader.count

HasTurn == {t \in Threads : \/ pc[t] \in TurnLabels
                            \/ pc[t] = "waitDownMutex" /\ t \notin Unwoken}

OneTurn ==
  /\ \A t1, t2 \in HasTurn : t1 = t2
  /\ Sent <= 1
  /\ Sent > 0 => HasTurn = {}

(* A wake-up is sent only to somebody who waits, and is there for it.      *)
Promised ==
  /\ SemaphoreWriter.count > 0 \/ (\E t \in Threads : pc[t] = "leaveWakeWriter")
       => \E w \in Writers : pc[w] \in WaitLabels
  /\ SemaphoreReader.count > 0 \/ (\E t \in Threads : pc[t] = "leaveWakeReaders")
       => \E r \in Readers : pc[r] \in WaitLabels

TurnInv == IInv /\ OneTurn /\ Promised

(* What the tests of the counts tell about the threads.                    *)
LEMMA CountsTell ==
  ASSUME IInv
  PROVE  /\ WriterWaitingCount > 0 <=> \E w \in Writers : pc[w] \in WaitLabels
         /\ ReaderWaitingCount > 0 <=> \E r \in Readers : pc[r] \in WaitLabels
         /\ WriterCount > 0 <=> \E w \in Writers : pc[w] \in ActiveWriterLabels
         /\ ReaderCount > 0 <=> \E r \in Readers : pc[r] \in ActiveReaderLabels
<1>1. ASSUME NEW group, IsFiniteSet(group), NEW labels
      PROVE  Cardinality(Placed(pc, group, labels)) > 0 <=> \E t \in group : pc[t] \in labels
  <2> DEFINE S == Placed(pc, group, labels)
  <2>1. S \subseteq group /\ (S # {} <=> \E t \in group : pc[t] \in labels)
    BY DEF Placed
  <2> HIDE DEF S
  <2>2. IsFiniteSet(S)
    BY <1>1, <2>1, FS_Subset
  <2>3. Cardinality(S) \in Nat /\ (Cardinality(S) = 0 <=> S = {})
    BY <2>2, FS_CardinalityType, FS_EmptySet
  <2>4. Cardinality(S) > 0 <=> S # {}
    BY <2>3
  <2> QED  BY <2>1, <2>4 DEF S
<1>2. CountsAre(pc, WriterWaitingCount, ReaderWaitingCount, WriterCount, ReaderCount)
  BY CountsForm DEF IInv
<1> QED  BY <1>1, <1>2, ThreadsAssumption DEF CountsAre

(* With one reader at most one reader is counted waiting.                  *)
LEMMA OneWaits ==
  ASSUME IInv, \A r, s \in Readers : r = s
  PROVE  ReaderWaitingCount <= 1
<1> DEFINE S == Placed(pc, Readers, WaitLabels)
<1>1. ReaderWaitingCount = Cardinality(S)
  BY CountsForm DEF IInv, CountsAre
<1>2. S = {} \/ \E r \in Readers : S = {r}
  BY DEF Placed
<1> HIDE DEF S
<1>3. CASE S = {}
  BY <1>1, <1>3, FS_EmptySet
<1>4. ASSUME NEW r \in Readers, S = {r} PROVE ReaderWaitingCount <= 1
  <2>1. Cardinality({r}) = 1
    BY FS_Singleton
  <2> QED  BY <1>1, <1>4, <2>1
<1> QED  BY <1>2, <1>3, <1>4

(* An awake thread at waitDownMutex has its turn.                          *)
LEMMA AwakeTurn ==
  ASSUME IInv, NEW t, NEW to, GoesTo(t, to)
  PROVE  t \in HasTurn <=> pc[t] \in TurnLabels \cup {"waitDownMutex"}
  BY GoesFacts DEF HasTurn, GoesTo, Unwoken

(* A step that moves t with or without its turn and leaves the two         *)
(* semaphores alone moves nobody else's.                                   *)
LEMMA TurnsOfOthers ==
  ASSUME IInv, NEW t, NEW to, GoesTo(t, to), to # "waitDownMutex",
         UNCHANGED <<SemaphoreWriter, SemaphoreReader>>
  PROVE  /\ \A x \in Threads : x # t => (x \in HasTurn' <=> x \in HasTurn)
         /\ t \in HasTurn' <=> to \in TurnLabels
         /\ HasTurn' \subseteq Threads
<1>1. /\ pc'[t] = to /\ \A x \in Threads : x # t => pc'[x] = pc[x]
      /\ t \in Threads
  BY GoesFacts DEF GoesTo
<1> QED  BY <1>1 DEF HasTurn, Unwoken

(* A thread that keeps its turn, or goes on without one, and passes on     *)
(* nothing.                                                                *)
LEMMA KeepsTurn ==
  ASSUME TurnInv, IInv', NEW t, NEW to, GoesTo(t, to),
         UNCHANGED <<SemaphoreWriter, SemaphoreReader>>,
         to \notin {"waitDownMutex", "leaveWakeReaders", "leaveWakeWriter"},
         to \in TurnLabels => pc[t] \in TurnLabels \cup {"waitDownMutex"},
         pc[t] \in WaitLabels => to \in WaitLabels \/ pc[t] = "waitOver"
  PROVE  TurnInv'
<1>1. /\ pc'[t] = to /\ \A x \in Threads : x # t => pc'[x] = pc[x]
      /\ t \in Threads
  BY GoesFacts DEF GoesTo, TurnInv
<1>2. /\ \A x \in Threads : x # t => (x \in HasTurn' <=> x \in HasTurn)
      /\ t \in HasTurn' <=> to \in TurnLabels
      /\ HasTurn' \subseteq Threads
      /\ t \in HasTurn <=> pc[t] \in TurnLabels \cup {"waitDownMutex"}
  BY TurnsOfOthers, AwakeTurn DEF TurnInv
<1>3. OneTurn'
  BY <1>2 DEF TurnInv, OneTurn, Sent
<1>4. Promised'
  <2>1. CASE pc[t] = "waitOver"
    <3>1. t \in HasTurn
      BY <1>2, <2>1 DEF TurnLabels
    <3>2. /\ ~(Sent > 0)
          /\ \A x \in Threads : x # t => pc[x] \notin TurnLabels
      BY <3>1 DEF TurnInv, OneTurn, HasTurn
    <3>3. ~(SemaphoreWriter'.count > 0) /\ ~(SemaphoreReader'.count > 0)
      BY <3>2 DEF TurnInv, IInv, TypeOK, Semaphores, Sent
    <3> QED  BY <1>1, <3>2, <3>3 DEF Promised, TurnLabels
  <2>2. CASE pc[t] # "waitOver"
    <3>1. \A x \in Threads : pc[x] \in WaitLabels => pc'[x] \in WaitLabels
      BY <1>1, <2>2
    <3>2. \A x \in Threads : pc'[x] \in {"leaveWakeReaders", "leaveWakeWriter"} => pc[x] = pc'[x]
      BY <1>1
    <3> QED  BY <3>1, <3>2 DEF TurnInv, Promised, Threads
  <2> QED  BY <2>1, <2>2
<1> QED  BY <1>3, <1>4 DEF TurnInv

(* A leaving thread keeps its turn to pass it on to somebody who waits, or *)
(* gives it up.                                                            *)
LEMMA LeavesTurn ==
  ASSUME TurnInv, IInv', NEW t, NEW to, GoesTo(t, to),
         UNCHANGED <<SemaphoreWriter, SemaphoreReader>>, pc[t] = "leaveCount",
         \/ to = "leaveWakeReaders" /\ ReaderWaitingCount > 0
         \/ to = "leaveWakeWriter" /\ WriterWaitingCount > 0
         \/ to = "leaveUpMutex"
  PROVE  TurnInv'
<1>1. /\ pc'[t] = to /\ \A x \in Threads : x # t => pc'[x] = pc[x]
      /\ t \in Threads
  BY GoesFacts DEF GoesTo, TurnInv
<1>2. /\ \A x \in Threads : x # t => (x \in HasTurn' <=> x \in HasTurn)
      /\ HasTurn' \subseteq Threads /\ t \in HasTurn
  BY TurnsOfOthers, AwakeTurn DEF TurnInv, TurnLabels
<1>3. OneTurn'
  BY <1>2 DEF TurnInv, OneTurn, Sent
<1>4. \A x \in Threads : pc[x] \in WaitLabels => pc'[x] \in WaitLabels
  BY <1>1 DEF WaitLabels
<1>5. /\ to = "leaveWakeReaders" => \E r \in Readers : pc[r] \in WaitLabels
      /\ to = "leaveWakeWriter" => \E w \in Writers : pc[w] \in WaitLabels
  BY CountsTell DEF TurnInv
<1>6. \A x \in Threads : pc'[x] \in {"leaveWakeReaders", "leaveWakeWriter"}
                           => pc[x] = pc'[x] \/ to = pc'[x]
  BY <1>1
<1>7. Promised'
  BY <1>4, <1>5, <1>6 DEF TurnInv, Promised, Threads
<1> QED  BY <1>3, <1>7 DEF TurnInv

(* A thread that may enter without waiting finds the turn with nobody.  A  *)
(* reader asks only about writers: it is here that a second reader, woken  *)
(* and not yet counted, would be overlooked.                               *)
LEMMA TakesTurn ==
  ASSUME TurnInv, IInv', \A r, s \in Readers : r = s,
         NEW t, NEW to, GoesTo(t, to), UNCHANGED <<SemaphoreWriter, SemaphoreReader>>,
         pc[t] = "enterTest", to = "enterUpMutex",
         ~(WriterCount > 0), ~(WriterWaitingCount > 0),
         t \in Writers => ~(ReaderCount > 0) /\ ~(ReaderWaitingCount > 0)
  PROVE  TurnInv'
<1>1. /\ pc'[t] = to /\ \A x \in Threads : x # t => pc'[x] = pc[x]
      /\ t \in Threads /\ t \notin Sleepers(SemaphoreMutex)
  BY GoesFacts DEF GoesTo, TurnInv
<1>2. /\ \A x \in Threads : x # t => (x \in HasTurn' <=> x \in HasTurn)
      /\ HasTurn' \subseteq Threads
  BY TurnsOfOthers DEF TurnInv
<1>3. \A w \in Writers : pc[w] \notin WaitLabels /\ pc[w] \notin ActiveWriterLabels
  BY CountsTell DEF TurnInv
<1>4. \A r \in Readers : pc[r] \notin WaitLabels /\ pc[r] \notin ActiveReaderLabels
  <2>1. CASE t \in Writers
    BY <2>1, CountsTell DEF TurnInv
  <2>2. CASE t \in Readers
    BY <2>2 DEF WaitLabels, ActiveReaderLabels
  <2> QED  BY <1>1, <2>1, <2>2 DEF Threads
<1>5. \A x \in Threads : pc[x] \notin {"leaveWakeReaders", "leaveWakeWriter"}
  <2> SUFFICES ASSUME NEW x \in Threads, pc[x] \in {"leaveWakeReaders", "leaveWakeWriter"}
               PROVE  FALSE
    OBVIOUS
  <2>1. x \in MutexHolders /\ t \in MutexHolders /\ x # t
    BY <1>1 DEF TurnInv, IInv, SleepersPlaced, MutexHolders, MutexSections, MutexDowns
  <2> QED  BY <2>1 DEF TurnInv, IInv, MutexHeld, Held
<1>6. HasTurn = {}
  <2> SUFFICES ASSUME NEW x \in Threads, pc[x] \in TurnLabels \cup {"waitDownMutex"} PROVE FALSE
    BY DEF HasTurn
  <2>1. CASE x \in Writers
    <3>1. pc[x] \in WriterLabels
      BY <2>1 DEF TurnInv, IInv, TypeOK
    <3> QED  BY <1>3, <1>5, <2>1, <3>1 DEF TurnLabels, WaitLabels, ActiveWriterLabels, WriterLabels
  <2>2. CASE x \in Readers
    <3>1. pc[x] \in ReaderLabels
      BY <2>2 DEF TurnInv, IInv, TypeOK
    <3> QED  BY <1>4, <1>5, <2>2, <3>1 DEF TurnLabels, WaitLabels, ActiveReaderLabels, ReaderLabels
  <2> QED  BY <2>1, <2>2 DEF Threads
<1>7. ~(SemaphoreWriter.count > 0) /\ ~(SemaphoreReader.count > 0)
  BY <1>3, <1>4 DEF TurnInv, Promised
<1>8. OneTurn'
  <2>1. ~(Sent' > 0)
    BY <1>7 DEF Sent, TurnInv, IInv, TypeOK, Semaphores
  <2>2. Sent' <= 1
    BY <1>7 DEF Sent, TurnInv, IInv, TypeOK, Semaphores
  <2> QED  BY <1>2, <1>6, <2>1, <2>2 DEF OneTurn
<1>9. Promised'
  BY <1>1, <1>5, <1>7 DEF Promised
<1> QED  BY <1>8, <1>9 DEF TurnInv

(* down() of a thread that has to wait: it takes a wake-up that was sent,  *)
(* and with it the turn, or it sleeps.                                     *)
LEMMA WaitsForTurn ==
  ASSUME TurnInv, IInv', NEW t, GoesTo(t, "waitDownMutex"), pc[t] = "waitDown",
         \/ /\ t \in Writers /\ SemaphoreWriter' = Down(SemaphoreWriter, t)
            /\ UNCHANGED SemaphoreReader
         \/ /\ t \in Readers /\ SemaphoreReader' = Down(SemaphoreReader, t)
            /\ UNCHANGED SemaphoreWriter
  PROVE  TurnInv'
<1>1. /\ pc'[t] = "waitDownMutex" /\ \A x \in Threads : x # t => pc'[x] = pc[x]
      /\ t \in Threads /\ t \notin Sleepers(SemaphoreWriter) /\ t \notin Sleepers(SemaphoreReader)
  BY GoesFacts DEF GoesTo, TurnInv
<1>2. /\ SemaphoreWriter \in Semaphores(Writers) /\ WellFormed(SemaphoreWriter)
      /\ SemaphoreReader \in Semaphores(Readers) /\ WellFormed(SemaphoreReader)
      /\ SemaphoreWriter'.count \in Nat /\ SemaphoreReader'.count \in Nat
      /\ SemaphoreWriter.count \in Nat /\ SemaphoreReader.count \in Nat
  BY DEF TurnInv, IInv, TypeOK, SleepersPlaced, Semaphores
<1>3. /\ SemaphoreWriter'.count <= SemaphoreWriter.count
      /\ SemaphoreReader'.count <= SemaphoreReader.count
      /\ \/ Sent > 0 /\ Sent' = Sent - 1 /\ Unwoken' = Unwoken
         \/ Sent' = Sent /\ Unwoken' = Unwoken \cup {t}
  <2>1. CASE t \in Writers /\ SemaphoreWriter' = Down(SemaphoreWriter, t) /\ UNCHANGED SemaphoreReader
    <3>1. \/ /\ SemaphoreWriter.count > 0 /\ Sleepers(SemaphoreWriter) = {}
             /\ SemaphoreWriter'.count = SemaphoreWriter.count - 1 /\ Sleepers(SemaphoreWriter') = {}
          \/ /\ SemaphoreWriter.count = 0 /\ SemaphoreWriter'.count = 0
             /\ Sleepers(SemaphoreWriter') = Sleepers(SemaphoreWriter) \cup {t}
      BY <1>1, <1>2, <2>1, DownFacts
    <3>2. SemaphoreReader'.count = SemaphoreReader.count /\ Sleepers(SemaphoreReader') = Sleepers(SemaphoreReader)
      BY <2>1
    <3> QED  BY <1>2, <3>1, <3>2 DEF Sent, Unwoken
  <2>2. CASE t \in Readers /\ SemaphoreReader' = Down(SemaphoreReader, t) /\ UNCHANGED SemaphoreWriter
    <3>1. \/ /\ SemaphoreReader.count > 0 /\ Sleepers(SemaphoreReader) = {}
             /\ SemaphoreReader'.count = SemaphoreReader.count - 1 /\ Sleepers(SemaphoreReader') = {}
          \/ /\ SemaphoreReader.count = 0 /\ SemaphoreReader'.count = 0
             /\ Sleepers(SemaphoreReader') = Sleepers(SemaphoreReader) \cup {t}
      BY <1>1, <1>2, <2>2, DownFacts
    <3>2. SemaphoreWriter'.count = SemaphoreWriter.count /\ Sleepers(SemaphoreWriter') = Sleepers(SemaphoreWriter)
      BY <2>2
    <3> QED  BY <1>2, <3>1, <3>2 DEF Sent, Unwoken
  <2> QED  BY <2>1, <2>2
<1>4. Sent \in Nat /\ Sent <= 1
  BY <1>2 DEF Sent, TurnInv, OneTurn
<1>5. t \notin HasTurn
  BY DEF HasTurn, TurnLabels, TurnInv
<1>6. OneTurn'
  <2>1. CASE Sent > 0 /\ Sent' = Sent - 1 /\ Unwoken' = Unwoken
    <3>1. HasTurn = {} /\ Sent' = 0
      BY <1>4, <2>1 DEF TurnInv, OneTurn
    <3>2. HasTurn' \subseteq {t}
      BY <1>1, <2>1, <3>1 DEF HasTurn
    <3> QED  BY <3>1, <3>2 DEF OneTurn
  <2>2. CASE Sent' = Sent /\ Unwoken' = Unwoken \cup {t}
    <3>1. HasTurn' = HasTurn
      BY <1>1, <1>5, <2>2 DEF HasTurn, TurnLabels
    <3> QED  BY <2>2, <3>1 DEF TurnInv, OneTurn
  <2> QED  BY <1>3, <2>1, <2>2
<1>7. Promised'
  <2>1. \A x \in Threads : pc[x] \in WaitLabels => pc'[x] \in WaitLabels
    BY <1>1 DEF WaitLabels
  <2>2. \A x \in Threads : pc'[x] \in {"leaveWakeReaders", "leaveWakeWriter"} => pc[x] = pc'[x]
    BY <1>1
  <2>3. /\ SemaphoreWriter'.count > 0 => SemaphoreWriter.count > 0
        /\ SemaphoreReader'.count > 0 => SemaphoreReader.count > 0
    BY <1>2, <1>3
  <2> QED  BY <2>1, <2>2, <2>3 DEF TurnInv, Promised, Threads
<1> QED  BY <1>6, <1>7 DEF TurnInv

(* up() of a leaving thread: the turn goes to the sleeper at the head of   *)
(* the list, or stays in the semaphore for the one that is about to sleep. *)
LEMMA PassesTurn ==
  ASSUME TurnInv, IInv', NEW t, GoesTo(t, "leaveUpMutex"),
         \/ /\ pc[t] = "leaveWakeWriter" /\ SemaphoreWriter' = Up(SemaphoreWriter)
            /\ UNCHANGED SemaphoreReader
         \/ /\ pc[t] = "leaveWakeReaders" /\ SemaphoreReader' = Up(SemaphoreReader)
            /\ UNCHANGED SemaphoreWriter
  PROVE  TurnInv'
<1>1. /\ pc'[t] = "leaveUpMutex" /\ \A x \in Threads : x # t => pc'[x] = pc[x]
      /\ t \in Threads
  BY GoesFacts DEF GoesTo, TurnInv
<1>2. /\ SemaphoreWriter \in Semaphores(Writers) /\ WellFormed(SemaphoreWriter)
      /\ SemaphoreReader \in Semaphores(Readers) /\ WellFormed(SemaphoreReader)
      /\ SemaphoreWriter'.count \in Nat /\ SemaphoreReader'.count \in Nat
      /\ SemaphoreWriter.count \in Nat /\ SemaphoreReader.count \in Nat
      /\ Sleepers(SemaphoreWriter) \subseteq Writers /\ Sleepers(SemaphoreReader) \subseteq Readers
      /\ \A x \in Unwoken : x \in Threads /\ pc[x] = "waitDownMutex"
  BY DEF TurnInv, IInv, TypeOK, SleepersPlaced, Semaphores, Unwoken, Threads
<1>3. HasTurn = {t} /\ ~(Sent > 0)
  BY <1>1 DEF TurnInv, OneTurn, HasTurn, TurnLabels
<1>4. SemaphoreWriter.count = 0 /\ SemaphoreReader.count = 0
  BY <1>2, <1>3 DEF Sent
<1>5. /\ \/ Sent' = 1 /\ Unwoken' = Unwoken
         \/ Sent' = 0 /\ \E h \in Unwoken : Unwoken' = Unwoken \ {h}
      /\ SemaphoreWriter'.count > 0 => pc[t] = "leaveWakeWriter"
      /\ SemaphoreReader'.count > 0 => pc[t] = "leaveWakeReaders"
  <2>1. CASE /\ pc[t] = "leaveWakeWriter" /\ SemaphoreWriter' = Up(SemaphoreWriter)
             /\ UNCHANGED SemaphoreReader
    <3>1. \/ /\ Sleepers(SemaphoreWriter) = {}
             /\ SemaphoreWriter'.count = SemaphoreWriter.count + 1 /\ Sleepers(SemaphoreWriter') = {}
          \/ /\ SemaphoreWriter'.count = 0
             /\ \E h \in Sleepers(SemaphoreWriter) :
                  Sleepers(SemaphoreWriter') = Sleepers(SemaphoreWriter) \ {h}
      BY <1>2, <2>1, UpFacts
    <3>2. SemaphoreReader'.count = 0 /\ Sleepers(SemaphoreReader') = Sleepers(SemaphoreReader)
      BY <1>4, <2>1
    <3>3. \/ Sent' = 1 /\ Unwoken' = Unwoken
          \/ Sent' = 0 /\ \E h \in Unwoken : Unwoken' = Unwoken \ {h}
      BY <1>2, <1>4, <3>1, <3>2, ThreadsAssumption DEF Sent, Unwoken
    <3> QED  BY <2>1, <3>2, <3>3
  <2>2. CASE /\ pc[t] = "leaveWakeReaders" /\ SemaphoreReader' = Up(SemaphoreReader)
             /\ UNCHANGED SemaphoreWriter
    <3>1. \/ /\ Sleepers(SemaphoreReader) = {}
             /\ SemaphoreReader'.count = SemaphoreReader.count + 1 /\ Sleepers(SemaphoreReader') = {}
          \/ /\ SemaphoreReader'.count = 0
             /\ \E h \in Sleepers(SemaphoreReader) :
                  Sleepers(SemaphoreReader') = Sleepers(SemaphoreReader) \ {h}
      BY <1>2, <2>2, UpFacts
    <3>2. SemaphoreWriter'.count = 0 /\ Sleepers(SemaphoreWriter') = Sleepers(SemaphoreWriter)
      BY <1>4, <2>2
    <3>3. \/ Sent' = 1 /\ Unwoken' = Unwoken
          \/ Sent' = 0 /\ \E h \in Unwoken : Unwoken' = Unwoken \ {h}
      BY <1>2, <1>4, <3>1, <3>2, ThreadsAssumption DEF Sent, Unwoken
    <3> QED  BY <2>2, <3>2, <3>3
  <2> QED  BY <2>1, <2>2
<1>6. \A x \in Threads : pc'[x] \notin TurnLabels /\ (pc'[x] = "waitDownMutex" => x \in Unwoken)
  BY <1>1, <1>3 DEF HasTurn, TurnLabels
<1>7. OneTurn'
  <2>1. CASE Sent' = 1 /\ Unwoken' = Unwoken
    <3>1. HasTurn' = {}
      BY <1>6, <2>1 DEF HasTurn
    <3> QED  BY <2>1, <3>1 DEF OneTurn
  <2>2. ASSUME Sent' = 0, NEW h \in Unwoken, Unwoken' = Unwoken \ {h} PROVE OneTurn'
    <3>1. HasTurn' \subseteq {h}
      BY <1>6, <2>2 DEF HasTurn
    <3> QED  BY <2>2, <3>1 DEF OneTurn
  <2> QED  BY <1>5, <2>1, <2>2
<1>8. Promised'
  <2>1. \A x \in Threads : pc[x] \in WaitLabels => pc'[x] \in WaitLabels
    BY <1>1, <1>5, <1>6 DEF WaitLabels
  <2>2. \A x \in Threads : pc'[x] \notin {"leaveWakeReaders", "leaveWakeWriter"}
    BY <1>6 DEF TurnLabels
  <2>3. /\ SemaphoreWriter'.count > 0 => \E w \in Writers : pc[w] \in WaitLabels
        /\ SemaphoreReader'.count > 0 => \E r \in Readers : pc[r] \in WaitLabels
    BY <1>1, <1>5 DEF TurnInv, Promised
  <2> QED  BY <2>1, <2>2, <2>3 DEF Promised, Threads
<1> QED  BY <1>7, <1>8 DEF TurnInv

(* Every step of a writer leaves the turn at one place.                    *)
LEMMA WriterTurn ==
  ASSUME TurnInv, IInv', \A r, s \in Readers : r = s,
         NEW w \in Writers, Enter_DownMutex(w) \/ WriterStep(w)
  PROVE  TurnInv'
<1>1. /\ IInv /\ w \in Threads /\ w \notin Readers
      /\ index[w] \in Nat /\ ReaderWaitingCount \in Nat /\ WriterWaitingCount \in Nat
  BY ThreadsAssumption DEF TurnInv, IInv, TypeOK, Threads
<1>2. ASSUME NEW from, NEW to \in WriterLabels, Moves(w, from, to) PROVE GoesTo(w, to) /\ pc[w] = from
  BY <1>1, <1>2 DEF Moves, GoesTo
<1>3. CASE \/ Enter_DownMutex(w) \/ Wait_DownMutex(w) \/ WriterLeave_DownMutex(w)
           \/ Wait_UpMutex(w) \/ WriterEnter_UpMutex(w) \/ Leave_UpMutex(w)
           \/ WriterEnter_Wait(w) \/ WriterEnter_WaitOver(w)
  <2>1. PICK from, to : /\ Moves(w, from, to) /\ UNCHANGED <<SemaphoreWriter, SemaphoreReader>>
                        /\ \/ from = "idle" /\ to = "enterTest"
                           \/ from = "waitDownMutex" /\ to = "waitOver"
                           \/ from = "writing" /\ to = "leaveCount"
                           \/ from = "waitUpMutex" /\ to = "waitDown"
                           \/ from = "enterUpMutex" /\ to = "writing"
                           \/ from = "leaveUpMutex" /\ to = "idle"
                           \/ from = "enterTest" /\ to = "waitUpMutex"
                           \/ from = "waitOver" /\ to = "enterUpMutex"
    BY <1>3 DEF Enter_DownMutex, Wait_DownMutex, WriterLeave_DownMutex, DownMutex, Wait_UpMutex,
       WriterEnter_UpMutex, Leave_UpMutex, UpMutex, OnMutex, WriterEnter_Wait,
       WriterEnter_WaitOver, semaphores
  <2>2. GoesTo(w, to) /\ pc[w] = from
    BY <1>2, <2>1 DEF WriterLabels
  <2>3. /\ to \notin {"waitDownMutex", "leaveWakeReaders", "leaveWakeWriter"}
        /\ to \in TurnLabels => pc[w] \in TurnLabels \cup {"waitDownMutex"}
        /\ pc[w] \in WaitLabels => to \in WaitLabels \/ pc[w] = "waitOver"
    BY <2>1, <2>2 DEF TurnLabels, WaitLabels
  <2> QED  BY <2>1, <2>2, <2>3, KeepsTurn
<1>4. CASE WriterEnter_NoWait(w)
  <2>1. /\ Moves(w, "enterTest", "enterUpMutex") /\ UNCHANGED <<SemaphoreWriter, SemaphoreReader>>
        /\ ~(WriterCount > 0) /\ ~(WriterWaitingCount > 0)
        /\ ~(ReaderCount > 0) /\ ~(ReaderWaitingCount > 0)
    BY <1>4 DEF WriterEnter_NoWait, WriterMustWait, semaphores
  <2>2. GoesTo(w, "enterUpMutex") /\ pc[w] = "enterTest"
    BY <1>2, <2>1 DEF WriterLabels
  <2> QED  BY <2>1, <2>2, TakesTurn
<1>5. CASE WriterLeave_Count(w)
  <2>1. PICK to : /\ Moves(w, "leaveCount", to) /\ UNCHANGED <<SemaphoreWriter, SemaphoreReader>>
                  /\ \/ to = "leaveWakeReaders" /\ ReaderWaitingCount > 0
                     \/ to = "leaveWakeWriter" /\ WriterWaitingCount > 0
                     \/ to = "leaveUpMutex"
    <3> DEFINE to == CASE ReaderWaitingCount > 0 -> "leaveWakeReaders"
                       [] ReaderWaitingCount <= 0 /\ WriterWaitingCount > 0 -> "leaveWakeWriter"
                       [] OTHER -> "leaveUpMutex"
    <3>1. \/ to = "leaveWakeReaders" /\ ReaderWaitingCount > 0
          \/ to = "leaveWakeWriter" /\ WriterWaitingCount > 0
          \/ to = "leaveUpMutex"
      BY <1>1
    <3>2. Moves(w, "leaveCount", to) /\ UNCHANGED <<SemaphoreWriter, SemaphoreReader>>
      BY <1>5 DEF WriterLeave_Count, semaphores
    <3> QED  BY <3>1, <3>2
  <2>2. GoesTo(w, to) /\ pc[w] = "leaveCount"
    BY <1>2, <2>1 DEF WriterLabels
  <2> QED  BY <2>1, <2>2, LeavesTurn
<1>6. CASE WriterEnter_Down(w)
  <2>1. /\ Moves(w, "waitDown", "waitDownMutex") /\ SemaphoreWriter' = Down(SemaphoreWriter, w)
        /\ UNCHANGED SemaphoreReader
    BY <1>6 DEF WriterEnter_Down, OnWriter
  <2>2. GoesTo(w, "waitDownMutex") /\ pc[w] = "waitDown"
    BY <1>2, <2>1 DEF WriterLabels
  <2> QED  BY <2>1, <2>2, WaitsForTurn
<1>7. CASE WriterLeave_WakeWriter(w)
  <2>1. /\ Moves(w, "leaveWakeWriter", "leaveUpMutex") /\ SemaphoreWriter' = Up(SemaphoreWriter)
        /\ UNCHANGED SemaphoreReader
    BY <1>7 DEF WriterLeave_WakeWriter, UpWriter, OnWriter
  <2>2. GoesTo(w, "leaveUpMutex") /\ pc[w] = "leaveWakeWriter"
    BY <1>2, <2>1 DEF WriterLabels
  <2> QED  BY <2>1, <2>2, PassesTurn
<1>8. CASE WriterLeave_WakeReader(w)
  <2>1. ~WakesMore(index[w] + 1)
    BY <1>1, OneWaits DEF WakesMore
  <2>2. /\ Moves(w, "leaveWakeReaders", "leaveUpMutex") /\ SemaphoreReader' = Up(SemaphoreReader)
        /\ UNCHANGED SemaphoreWriter
    BY <1>8, <2>1 DEF WriterLeave_WakeReader, OnReader
  <2>3. GoesTo(w, "leaveUpMutex") /\ pc[w] = "leaveWakeReaders"
    BY <1>2, <2>2 DEF WriterLabels
  <2> QED  BY <2>2, <2>3, PassesTurn
<1> QED  BY <1>3, <1>4, <1>5, <1>6, <1>7, <1>8 DEF WriterStep

(* And every step of the reader.                                           *)
LEMMA ReaderTurn ==
  ASSUME TurnInv, IInv', \A r, s \in Readers : r = s,
         NEW r \in Readers, Enter_DownMutex(r) \/ ReaderStep(r)
  PROVE  TurnInv'
<1>1. /\ IInv /\ r \in Threads /\ r \notin Writers
  BY ThreadsAssumption DEF TurnInv, Threads
<1>2. ASSUME NEW from, NEW to \in ReaderLabels, Moves(r, from, to) PROVE GoesTo(r, to) /\ pc[r] = from
  BY <1>1, <1>2 DEF Moves, GoesTo
<1>3. CASE \/ Enter_DownMutex(r) \/ Wait_DownMutex(r) \/ ReaderLeave_DownMutex(r)
           \/ Wait_UpMutex(r) \/ ReaderEnter_UpMutex(r) \/ Leave_UpMutex(r)
           \/ ReaderEnter_Wait(r) \/ ReaderEnter_WaitOver(r)
  <2>1. PICK from, to : /\ Moves(r, from, to) /\ UNCHANGED <<SemaphoreWriter, SemaphoreReader>>
                        /\ \/ from = "idle" /\ to = "enterTest"
                           \/ from = "waitDownMutex" /\ to = "waitOver"
                           \/ from = "reading" /\ to = "leaveCount"
                           \/ from = "waitUpMutex" /\ to = "waitDown"
                           \/ from = "enterUpMutex" /\ to = "reading"
                           \/ from = "leaveUpMutex" /\ to = "idle"
                           \/ from = "enterTest" /\ to = "waitUpMutex"
                           \/ from = "waitOver" /\ to = "enterUpMutex"
    BY <1>3 DEF Enter_DownMutex, Wait_DownMutex, ReaderLeave_DownMutex, DownMutex, Wait_UpMutex,
       ReaderEnter_UpMutex, Leave_UpMutex, UpMutex, OnMutex, ReaderEnter_Wait,
       ReaderEnter_WaitOver, semaphores
  <2>2. GoesTo(r, to) /\ pc[r] = from
    BY <1>2, <2>1 DEF ReaderLabels
  <2>3. /\ to \notin {"waitDownMutex", "leaveWakeReaders", "leaveWakeWriter"}
        /\ to \in TurnLabels => pc[r] \in TurnLabels \cup {"waitDownMutex"}
        /\ pc[r] \in WaitLabels => to \in WaitLabels \/ pc[r] = "waitOver"
    BY <2>1, <2>2 DEF TurnLabels, WaitLabels
  <2> QED  BY <2>1, <2>2, <2>3, KeepsTurn
<1>4. CASE ReaderEnter_NoWait(r)
  <2>1. /\ Moves(r, "enterTest", "enterUpMutex") /\ UNCHANGED <<SemaphoreWriter, SemaphoreReader>>
        /\ ~(WriterCount > 0) /\ ~(WriterWaitingCount > 0)
    BY <1>4 DEF ReaderEnter_NoWait, ReaderMustWait, semaphores
  <2>2. GoesTo(r, "enterUpMutex") /\ pc[r] = "enterTest"
    BY <1>2, <2>1 DEF ReaderLabels
  <2> QED  BY <1>1, <2>1, <2>2, TakesTurn
<1>5. CASE ReaderLeave_Count(r)
  <2>1. PICK to : /\ Moves(r, "leaveCount", to) /\ UNCHANGED <<SemaphoreWriter, SemaphoreReader>>
                  /\ \/ to = "leaveWakeWriter" /\ WriterWaitingCount > 0
                     \/ to = "leaveUpMutex"
    BY <1>5 DEF ReaderLeave_Count, semaphores
  <2>2. GoesTo(r, to) /\ pc[r] = "leaveCount"
    BY <1>2, <2>1 DEF ReaderLabels
  <2> QED  BY <2>1, <2>2, LeavesTurn
<1>6. CASE ReaderEnter_Down(r)
  <2>1. /\ Moves(r, "waitDown", "waitDownMutex") /\ SemaphoreReader' = Down(SemaphoreReader, r)
        /\ UNCHANGED SemaphoreWriter
    BY <1>6 DEF ReaderEnter_Down, OnReader
  <2>2. GoesTo(r, "waitDownMutex") /\ pc[r] = "waitDown"
    BY <1>2, <2>1 DEF ReaderLabels
  <2> QED  BY <2>1, <2>2, WaitsForTurn
<1>7. CASE ReaderLeave_WakeWriter(r)
  <2>1. /\ Moves(r, "leaveWakeWriter", "leaveUpMutex") /\ SemaphoreWriter' = Up(SemaphoreWriter)
        /\ UNCHANGED SemaphoreReader
    BY <1>7 DEF ReaderLeave_WakeWriter, UpWriter, OnWriter
  <2>2. GoesTo(r, "leaveUpMutex") /\ pc[r] = "leaveWakeWriter"
    BY <1>2, <2>1 DEF ReaderLabels
  <2> QED  BY <2>1, <2>2, PassesTurn
<1> QED  BY <1>3, <1>4, <1>5, <1>6, <1>7 DEF ReaderStep

(* With at most one reader, and any number of writers, a writer of         *)
(* solution 3 is alone between Enter and Leave: what                       *)
(* SyncSolution3_exclusion.cfg finds needs a second reader, which comes    *)
(* in between the wake-ups of KboardModule.c:356-359 and their readers'    *)
(* way to the count (328), and sends a wake-up of its own at 395.          *)
THEOREM OneReaderExcludes ==
  ASSUME \A r, s \in Readers : r = s
  PROVE  Spec => []Exclusion
<1>1. SyncInit => TurnInv
  <2> SUFFICES ASSUME SyncInit PROVE OneTurn /\ Promised
    BY InitInv DEF TurnInv
  <2>1. /\ SemaphoreWriter.count = 0 /\ SemaphoreReader.count = 0
        /\ \A t \in Threads : pc[t] = "idle"
    BY DEF SyncInit, InitializeSemaphore
  <2>2. HasTurn = {} /\ Sent = 0
    BY <2>1 DEF HasTurn, TurnLabels, Sent
  <2> QED  BY <2>1, <2>2 DEF OneTurn, Promised
<1>2. TurnInv /\ [Next]_syncVars => TurnInv'
  <2> SUFFICES ASSUME TurnInv, [Next]_syncVars PROVE TurnInv'
    OBVIOUS
  <2>1. IInv'
    BY NextInv DEF TurnInv
  <2>2. CASE Next
    BY <2>1, <2>2, WriterTurn, ReaderTurn DEF Next
  <2>3. CASE UNCHANGED syncVars
    <3>1. UNCHANGED <<SemaphoreWriter, SemaphoreReader, pc>>
      BY <2>3 DEF syncVars, semaphores
    <3>2. OneTurn' /\ Promised'
      BY <3>1 DEF TurnInv, OneTurn, Promised, HasTurn, Unwoken, Sent
    <3> QED  BY <2>1, <3>2 DEF TurnInv
  <2> QED  BY <2>2, <2>3
<1>3. TurnInv => Exclusion
  <2> SUFFICES ASSUME TurnInv PROVE Exclusion
    OBVIOUS
  <2>1. \A t \in ReadersInside \cup WritersInside : t \in HasTurn
    BY DEF ReadersInside, WritersInside, HasTurn, TurnLabels, Threads
  <2>2. \A t1, t2 \in ReadersInside \cup WritersInside : t1 = t2
    BY <2>1 DEF TurnInv, OneTurn
  <2> QED  BY <2>2, ThreadsAssumption DEF Exclusion, ReadersInside, WritersInside
<1> QED  BY <1>1, <1>2, <1>3, PTL DEF Spec
=============================================================================
