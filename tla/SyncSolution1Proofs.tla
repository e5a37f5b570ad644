------------------------- MODULE SyncSolution1Proofs -------------------------
(***************************************************************************)
(* Proofs about SyncSolution1 for any number of readers and writers.  The  *)
(* inductive invariant is TypeOK with LockInvariant; there is one lemma    *)
(* per action, with one step per conjunct.                                 *)
(***************************************************************************)
EXTENDS SyncSolution1, DataProofs, FiniteSetTheorems

IInv == TypeOK /\ LockInvariant

(* The state InitializeSyncSolution leaves (KboardModule.c:236-240)        *)
(* satisfies the invariant.                                                *)
LEMMA InitInv == SyncInit => IInv
<1> SUFFICES ASSUME SyncInit PROVE IInv
  OBVIOUS
<1>1. /\ InitializeSemaphore(1) \in Semaphores(Readers)
      /\ InitializeSemaphore(1) \in Semaphores(Threads)
      /\ WellFormed(InitializeSemaphore(1))
      /\ Sleepers(InitializeSemaphore(1)) = {}
      /\ InitializeSemaphore(1).count = 1
  BY InitializeFacts
<1>2. TypeOK
  BY <1>1 DEF SyncInit, TypeOK, ReaderLabels, WriterLabels, Threads
<1>3. SleepersPlaced /\ MutexHeld
  BY <1>1 DEF SyncInit, SleepersPlaced, MutexHeld, MutexHolders, MutexSections, Threads
<1>4. CountedReaders = {} /\ WriterHolders = {}
  BY DEF SyncInit, CountedReaders, WriterHolders, Threads
<1>5. \A r \in Readers : pc[r] = "idle" /\ ~AwaitsWriter(r)
  BY <1>1 DEF SyncInit, AwaitsWriter, Threads
<1>6. ReadersCounted
  BY <1>4, <1>5, FS_EmptySet DEF SyncInit, ReadersCounted
<1>7. WriterHeld
  BY <1>1, <1>4, <1>5 DEF SyncInit, WriterHeld, ReadersHold
<1> QED  BY <1>2, <1>3, <1>6, <1>7 DEF IInv, LockInvariant

(* down(&SemaphoreWriter) of a writer (267) preserves the invariant.       *)
LEMMA WriterEnter_DownInv ==
  ASSUME IInv, NEW w \in Writers, WriterEnter_Down(w)
  PROVE  IInv'
<1> DEFINE W == SemaphoreWriter
           d == Down(W, w)
<1>1. /\ pc \in [Threads -> ReaderLabels \cup WriterLabels]
      /\ pc[w] = "idle" /\ pc' = [pc EXCEPT ![w] = "entered"]
      /\ w \in Threads /\ w \notin Readers
      /\ w \notin Sleepers(W)
      /\ SemaphoreWriter' = d /\ SemaphoreMutex' = SemaphoreMutex /\ ReaderCount' = ReaderCount
  BY ThreadsAssumption DEF IInv, TypeOK, WriterEnter_Down, Moves, Awake, Threads
<1>2. /\ d \in Semaphores(Threads)
      /\ WellFormed(d)
      /\ \/ W.count > 0 /\ Sleepers(W) = {} /\ d.count = W.count - 1 /\ Sleepers(d) = {}
         \/ W.count = 0 /\ d.count = 0 /\ Sleepers(d) = Sleepers(W) \cup {w}
  BY <1>1, DownFacts DEF IInv, TypeOK, LockInvariant, SleepersPlaced
<1> HIDE DEF d
<1>3. TypeOK'
  BY <1>1, <1>2 DEF IInv, TypeOK, ReaderLabels, WriterLabels, Threads
<1>4. SleepersPlaced'
  BY <1>1, <1>2 DEF IInv, LockInvariant, SleepersPlaced, Threads
<1>5. MutexHeld'
  BY <1>1 DEF IInv, LockInvariant, MutexHeld, MutexHolders, Threads
<1>6. CountedReaders' = CountedReaders /\ \A r \in Readers : AwaitsWriter(r)' <=> AwaitsWriter(r)
  BY <1>1, <1>2 DEF CountedReaders, AwaitsWriter, Threads
<1>7. ReadersCounted' /\ (ReadersHold' <=> ReadersHold)
  BY <1>1, <1>6 DEF IInv, LockInvariant, ReadersCounted, ReadersHold, Threads
<1>8. WriterHeld'
  BY <1>1, <1>2, <1>7 DEF IInv, TypeOK, LockInvariant, WriterHeld, WriterHolders, Semaphores, Threads
<1> QED  BY <1>3, <1>4, <1>5, <1>7, <1>8 DEF IInv, LockInvariant

(* The return of that down(), once the writer has SemaphoreWriter.         *)
LEMMA WriterEnter_ReturnInv ==
  ASSUME IInv, NEW w \in Writers, WriterEnter_Return(w)
  PROVE  IInv'
<1>1. /\ pc \in [Threads -> ReaderLabels \cup WriterLabels]
      /\ pc[w] = "entered" /\ pc' = [pc EXCEPT ![w] = "writing"]
      /\ w \in Threads /\ w \notin Readers
      /\ w \notin Sleepers(SemaphoreWriter)
      /\ SemaphoreWriter' = SemaphoreWriter
      /\ SemaphoreMutex' = SemaphoreMutex /\ ReaderCount' = ReaderCount
  BY ThreadsAssumption DEF IInv, TypeOK, WriterEnter_Return, Moves, Awake, Threads
<1>2. TypeOK'
  BY <1>1 DEF IInv, TypeOK, ReaderLabels, WriterLabels, Threads
<1>3. SleepersPlaced'
  BY <1>1 DEF IInv, LockInvariant, SleepersPlaced, Threads
<1>4. MutexHeld'
  BY <1>1 DEF IInv, LockInvariant, MutexHeld, MutexHolders, Threads
<1>5. CountedReaders' = CountedReaders /\ \A r \in Readers : AwaitsWriter(r)' <=> AwaitsWriter(r)
  BY <1>1 DEF CountedReaders, AwaitsWriter, Threads
<1>6. ReadersCounted' /\ (ReadersHold' <=> ReadersHold)
  BY <1>1, <1>5 DEF IInv, LockInvariant, ReadersCounted, ReadersHold, Threads
<1>7. WriterHolders' = WriterHolders
  BY <1>1 DEF WriterHolders, Threads
<1>8. WriterHeld'
  BY <1>1, <1>6, <1>7 DEF IInv, LockInvariant, WriterHeld
<1> QED  BY <1>2, <1>3, <1>4, <1>6, <1>8 DEF IInv, LockInvariant

(* up(&SemaphoreWriter) of a leaving writer (337): the semaphore goes to a *)
(* sleeping writer, to the readers through the one that sleeps for them,   *)
(* or to nobody.                                                           *)
LEMMA WriterLeave_UpInv ==
  ASSUME IInv, NEW w \in Writers, WriterLeave_Up(w)
  PROVE  IInv'
<1> DEFINE W == SemaphoreWriter
           u == Up(W)
<1>1. /\ pc \in [Threads -> ReaderLabels \cup WriterLabels]
      /\ pc[w] = "writing" /\ pc' = [pc EXCEPT ![w] = "idle"]
      /\ w \in Threads /\ w \notin Readers
      /\ w \notin Sleepers(W)
      /\ SemaphoreWriter' = u /\ SemaphoreMutex' = SemaphoreMutex /\ ReaderCount' = ReaderCount
  BY ThreadsAssumption DEF IInv, TypeOK, WriterLeave_Up, Moves, Awake, Threads
<1>2. WriterHolders = {w} /\ ~ReadersHold /\ W.count = 0
  BY <1>1 DEF IInv, TypeOK, Semaphores, LockInvariant, WriterHeld, WriterHolders
<1>3. /\ u \in Semaphores(Threads)
      /\ WellFormed(u)
      /\ \/ Sleepers(W) = {} /\ u.count = 1 /\ Sleepers(u) = {}
         \/ u.count = 0 /\ \E h \in Sleepers(W) : Sleepers(u) = Sleepers(W) \ {h}
  BY <1>2, UpFacts DEF IInv, TypeOK, LockInvariant, SleepersPlaced
<1> HIDE DEF u
<1>4. TypeOK'
  BY <1>1, <1>3 DEF IInv, TypeOK, ReaderLabels, WriterLabels, Threads
<1>5. SleepersPlaced'
  BY <1>1, <1>3 DEF IInv, LockInvariant, SleepersPlaced, Threads
<1>6. MutexHeld'
  BY <1>1 DEF IInv, LockInvariant, MutexHeld, MutexHolders, Threads
<1>7. CountedReaders' = CountedReaders /\ \A r \in Readers : AwaitsWriter(r)' => AwaitsWriter(r)
  BY <1>1, <1>3 DEF CountedReaders, AwaitsWriter, Threads
<1>8. ReadersCounted'
  BY <1>1, <1>7 DEF IInv, LockInvariant, ReadersCounted, Threads
<1>9. WriterHeld'
  <2>1. CASE Sleepers(W) = {} /\ u.count = 1 /\ Sleepers(u) = {}
    <3>1. ReadersHold' <=> ReadersHold
      BY <1>1, <1>7, <2>1 DEF ReadersHold, AwaitsWriter, Threads
    <3>2. WriterHolders' = {}
      BY <1>1, <1>2, <2>1 DEF WriterHolders, Threads
    <3> QED  BY <1>1, <1>2, <2>1, <3>1, <3>2 DEF WriterHeld
  <2>2. ASSUME u.count = 0, NEW h \in Sleepers(W), Sleepers(u) = Sleepers(W) \ {h}
        PROVE  WriterHeld'
    <3>1. CASE h \in Writers
      <4>1. WriterHolders' = {h}
        <5>1. pc[h] = "entered" /\ h # w
          BY <1>1, <3>1, ThreadsAssumption DEF IInv, LockInvariant, SleepersPlaced
        <5> QED  BY <1>1, <1>2, <2>2, <3>1, <5>1 DEF WriterHolders, Threads
      <4>2. ReadersHold' <=> ReadersHold
        BY <1>1, <1>7, <2>2, <3>1, ThreadsAssumption DEF ReadersHold, AwaitsWriter, Threads
      <4> QED  BY <1>1, <1>2, <2>2, <4>1, <4>2 DEF WriterHeld
    <3>2. CASE h \in Readers /\ h \notin Writers
      <4>1. WriterHolders' = {}
        BY <1>1, <1>2, <2>2, <3>2 DEF WriterHolders, Threads
      <4>2. CountedReaders = {h} /\ \A r \in Readers : AwaitsWriter(r) => r = h
        BY <3>2 DEF IInv, LockInvariant, ReadersCounted, AwaitsWriter
      <4>3. ~AwaitsWriter(h)'
        BY <1>1, <2>2, <3>2 DEF IInv, LockInvariant, SleepersPlaced, AwaitsWriter, Threads
      <4>4. ReadersHold'
        BY <1>7, <4>2, <4>3 DEF ReadersHold
      <4> QED  BY <1>1, <2>2, <4>1, <4>4 DEF WriterHeld
    <3> QED  BY <3>1, <3>2 DEF IInv, LockInvariant, SleepersPlaced
  <2> QED  BY <1>3, <2>1, <2>2
<1> QED  BY <1>4, <1>5, <1>6, <1>8, <1>9 DEF IInv, LockInvariant

(* down(&SemaphoreMutex) of an entering or a leaving reader (299, 373).    *)
(* A reader that leaves is counted until its --.                           *)
LEMMA DownMutexInv ==
  ASSUME IInv, NEW r \in Readers,
         ReaderEnter_DownMutex(r) \/ ReaderLeave_DownMutex(r)
  PROVE  IInv'
<1> DEFINE M == SemaphoreMutex
           d == Down(M, r)
<1>1. /\ pc \in [Threads -> ReaderLabels \cup WriterLabels]
      /\ \/ pc[r] = "idle" /\ pc' = [pc EXCEPT ![r] = "enterCount"]
         \/ pc[r] = "reading" /\ pc' = [pc EXCEPT ![r] = "leaveCount"]
      /\ r \in Threads /\ r \notin Writers
      /\ r \notin Sleepers(M) /\ r \notin Sleepers(SemaphoreWriter)
      /\ SemaphoreMutex' = d /\ SemaphoreWriter' = SemaphoreWriter /\ ReaderCount' = ReaderCount
  BY ThreadsAssumption
     DEF IInv, TypeOK, ReaderEnter_DownMutex, ReaderLeave_DownMutex, Moves, Awake, Threads
<1>2. /\ d \in Semaphores(Readers)
      /\ WellFormed(d)
      /\ \/ M.count > 0 /\ Sleepers(M) = {} /\ d.count = M.count - 1 /\ Sleepers(d) = {}
         \/ M.count = 0 /\ d.count = 0 /\ Sleepers(d) = Sleepers(M) \cup {r}
  BY <1>1, DownFacts DEF IInv, TypeOK, LockInvariant, SleepersPlaced
<1> HIDE DEF d
<1>3. TypeOK'
  BY <1>1, <1>2 DEF IInv, TypeOK, ReaderLabels, WriterLabels, Threads
<1>4. SleepersPlaced'
  BY <1>1, <1>2 DEF IInv, LockInvariant, SleepersPlaced, Threads
<1>5. MutexHeld'
  <2>1. CASE M.count > 0 /\ d.count = M.count - 1 /\ Sleepers(M) = {} /\ Sleepers(d) = {}
    <3>1. M.count = 1 /\ MutexHolders = {}
      BY <2>1 DEF IInv, TypeOK, Semaphores, LockInvariant, MutexHeld
    <3>2. MutexHolders' = {r}
      BY <1>1, <2>1, <3>1 DEF MutexHolders, MutexSections, Threads
    <3> QED  BY <1>1, <2>1, <3>1, <3>2 DEF MutexHeld
  <2>2. CASE M.count = 0 /\ d.count = 0 /\ Sleepers(d) = Sleepers(M) \cup {r}
    <3>1. MutexHolders' = MutexHolders
      BY <1>1, <2>2 DEF MutexHolders, MutexSections, Threads
    <3> QED  BY <1>1, <2>2, <3>1 DEF IInv, LockInvariant, MutexHeld
  <2> QED  BY <1>2, <2>1, <2>2
<1>6. CountedReaders' = CountedReaders /\ \A x \in Readers : AwaitsWriter(x)' <=> AwaitsWriter(x)
  BY <1>1 DEF CountedReaders, AwaitsWriter, Threads
<1>7. ReadersCounted' /\ (ReadersHold' <=> ReadersHold)
  BY <1>1, <1>6 DEF IInv, LockInvariant, ReadersCounted, ReadersHold, Threads
<1>8. WriterHolders' = WriterHolders
  BY <1>1 DEF WriterHolders, Threads
<1>9. WriterHeld'
  BY <1>1, <1>7, <1>8 DEF IInv, LockInvariant, WriterHeld
<1> QED  BY <1>3, <1>4, <1>5, <1>7, <1>9 DEF IInv, LockInvariant

(* up(&SemaphoreMutex) at the end of Enter and of Leave (305, 379).        *)
LEMMA UpMutexInv ==
  ASSUME IInv, NEW r \in Readers,
         ReaderEnter_UpMutex(r) \/ ReaderLeave_UpMutex(r)
  PROVE  IInv'
<1> DEFINE M == SemaphoreMutex
           u == Up(M)
<1>1. /\ pc \in [Threads -> ReaderLabels \cup WriterLabels]
      /\ \/ pc[r] = "enterUpMutex" /\ pc' = [pc EXCEPT ![r] = "reading"]
         \/ pc[r] = "leaveUpMutex" /\ pc' = [pc EXCEPT ![r] = "idle"]
      /\ r \in Threads /\ r \notin Writers
      /\ r \notin Sleepers(M) /\ r \notin Sleepers(SemaphoreWriter)
      /\ SemaphoreMutex' = u /\ SemaphoreWriter' = SemaphoreWriter /\ ReaderCount' = ReaderCount
  BY ThreadsAssumption
     DEF IInv, TypeOK, ReaderEnter_UpMutex, ReaderLeave_UpMutex, Moves, Awake, Threads
<1>2. MutexHolders = {r} /\ M.count = 0
  BY <1>1 DEF IInv, TypeOK, Semaphores, LockInvariant, MutexHeld, MutexHolders, MutexSections
<1>3. /\ u \in Semaphores(Readers)
      /\ WellFormed(u)
      /\ \/ Sleepers(M) = {} /\ u.count = 1 /\ Sleepers(u) = {}
         \/ u.count = 0 /\ \E h \in Sleepers(M) : Sleepers(u) = Sleepers(M) \ {h}
  BY <1>2, UpFacts DEF IInv, TypeOK, LockInvariant, SleepersPlaced
<1> HIDE DEF u
<1>4. TypeOK'
  BY <1>1, <1>3 DEF IInv, TypeOK, ReaderLabels, WriterLabels, Threads
<1>5. SleepersPlaced'
  BY <1>1, <1>3 DEF IInv, LockInvariant, SleepersPlaced, Threads
<1>6. MutexHeld'
  <2>1. CASE Sleepers(M) = {} /\ u.count = 1 /\ Sleepers(u) = {}
    <3>1. MutexHolders' = {}
      BY <1>1, <1>2, <2>1 DEF MutexHolders, MutexSections, Threads
    <3> QED  BY <1>1, <2>1, <3>1 DEF MutexHeld
  <2>2. ASSUME u.count = 0, NEW h \in Sleepers(M), Sleepers(u) = Sleepers(M) \ {h}
        PROVE  MutexHeld'
    <3>1. h \in Readers /\ pc[h] \in {"enterCount", "leaveCount"} /\ h # r
      BY <1>1 DEF IInv, LockInvariant, SleepersPlaced
    <3>2. MutexHolders' = {h}
      BY <1>1, <1>2, <2>2, <3>1 DEF MutexHolders, MutexSections, Threads
    <3> QED  BY <1>1, <2>2, <3>2 DEF MutexHeld
  <2> QED  BY <1>3, <2>1, <2>2
<1>7. CountedReaders' = CountedReaders /\ \A x \in Readers : AwaitsWriter(x)' <=> AwaitsWriter(x)
  BY <1>1 DEF CountedReaders, AwaitsWriter, Threads
<1>8. ReadersCounted' /\ (ReadersHold' <=> ReadersHold)
  BY <1>1, <1>7 DEF IInv, LockInvariant, ReadersCounted, ReadersHold, Threads
<1>9. WriterHolders' = WriterHolders
  BY <1>1 DEF WriterHolders, Threads
<1>10. WriterHeld'
  BY <1>1, <1>8, <1>9 DEF IInv, LockInvariant, WriterHeld
<1> QED  BY <1>4, <1>5, <1>6, <1>8, <1>10 DEF IInv, LockInvariant

(* While a reader holds SemaphoreMutex no other one is between the test of *)
(* ReaderCount and the semaphore call that the test decides (301-303,      *)
(* 375-377), not even asleep.                                              *)
LEMMA OnlyHolder ==
  ASSUME IInv, NEW r \in MutexHolders
  PROVE  \A x \in Readers : x # r => ~AwaitsWriter(x) /\ pc[x] # "leaveUpWriter"
<1>1. \A x \in Readers : x # r => x \notin MutexHolders
  BY DEF IInv, LockInvariant, MutexHeld
<1>2. ASSUME NEW x \in Readers, AwaitsWriter(x) \/ pc[x] = "leaveUpWriter"
      PROVE  x \in MutexHolders
  <2>1. pc[x] \in {"enterDownWriter", "enterUpMutex", "leaveUpWriter"}
    BY <1>2, ThreadsAssumption DEF AwaitsWriter, IInv, LockInvariant, SleepersPlaced
  <2> QED  BY <2>1 DEF IInv, LockInvariant, SleepersPlaced, MutexHolders, MutexSections
<1> QED  BY <1>1, <1>2

(* ReaderCount++ under SemaphoreMutex (300-301): the first reader goes on  *)
(* to SemaphoreWriter, alone, and any other joins readers that hold it.    *)
LEMMA ReaderEnter_CountInv ==
  ASSUME IInv, NEW r \in Readers, ReaderEnter_Count(r)
  PROVE  IInv'
<1> DEFINE to == IF FirstReader(ReaderCount + 1) THEN "enterDownWriter" ELSE "enterUpMutex"
<1>1. /\ pc \in [Threads -> ReaderLabels \cup WriterLabels]
      /\ pc[r] = "enterCount" /\ pc' = [pc EXCEPT ![r] = to]
      /\ to \in {"enterDownWriter", "enterUpMutex"}
      /\ r \in Threads /\ r \notin Writers
      /\ r \notin Sleepers(SemaphoreMutex) /\ r \notin Sleepers(SemaphoreWriter)
      /\ SemaphoreMutex' = SemaphoreMutex /\ SemaphoreWriter' = SemaphoreWriter
      /\ ReaderCount' = ReaderCount + 1 /\ ReaderCount \in Nat
  BY ThreadsAssumption DEF IInv, TypeOK, ReaderEnter_Count, Moves, Awake, Threads
<1>2. to = "enterDownWriter" <=> ReaderCount = 0
  BY <1>1 DEF FirstReader
<1> HIDE DEF to
<1>3. TypeOK'
  BY <1>1 DEF IInv, TypeOK, ReaderLabels, WriterLabels, Threads
<1>4. SleepersPlaced'
  BY <1>1 DEF IInv, LockInvariant, SleepersPlaced, Threads
<1>5. MutexHolders' = MutexHolders
  BY <1>1 DEF MutexHolders, MutexSections, Threads
<1>6. MutexHeld'
  BY <1>1, <1>5 DEF IInv, LockInvariant, MutexHeld
<1>7. /\ CountedReaders' = CountedReaders \cup {r} /\ r \notin CountedReaders
      /\ IsFiniteSet(CountedReaders)
  <2>1. CountedReaders' = CountedReaders \cup {r} /\ r \notin CountedReaders
    BY <1>1 DEF CountedReaders, Threads
  <2>2. CountedReaders \in SUBSET Readers
    BY DEF CountedReaders
  <2> QED  BY <2>1, <2>2, FS_Subset, ThreadsAssumption
<1>8. ReaderCount = 0 <=> CountedReaders = {}
  BY <1>7, FS_EmptySet DEF IInv, LockInvariant, ReadersCounted
<1>9. ReaderCount' = Cardinality(CountedReaders')
  BY <1>1, <1>7, FS_AddElement DEF IInv, LockInvariant, ReadersCounted
<1>10. \A x \in Readers : ~AwaitsWriter(x) /\ pc[x] # "leaveUpWriter"
  <2>1. r \in MutexHolders
    BY <1>1 DEF MutexHolders, MutexSections
  <2>2. ~AwaitsWriter(r) /\ pc[r] # "leaveUpWriter"
    BY <1>1 DEF AwaitsWriter
  <2> QED  BY <2>1, <2>2, OnlyHolder
<1>11. \A x \in Readers : /\ AwaitsWriter(x)' <=> x = r /\ ReaderCount = 0
                          /\ pc'[x] # "leaveUpWriter"
  BY <1>1, <1>2, <1>10 DEF AwaitsWriter, Threads
<1>12. ReadersCounted'
  BY <1>7, <1>8, <1>9, <1>11 DEF ReadersCounted
<1>13. ReadersHold' <=> ReadersHold
  BY <1>7, <1>8, <1>10, <1>11 DEF ReadersHold
<1>14. WriterHolders' = WriterHolders
  BY <1>1 DEF WriterHolders, Threads
<1>15. WriterHeld'
  BY <1>1, <1>13, <1>14 DEF IInv, LockInvariant, WriterHeld
<1> QED  BY <1>3, <1>4, <1>6, <1>12, <1>15 DEF IInv, LockInvariant

(* down(&SemaphoreWriter) of the first reader, SemaphoreMutex still held   *)
(* (303).                                                                  *)
LEMMA ReaderEnter_DownWriterInv ==
  ASSUME IInv, NEW r \in Readers, ReaderEnter_DownWriter(r)
  PROVE  IInv'
<1> DEFINE W == SemaphoreWriter
           d == Down(W, r)
<1>1. /\ pc \in [Threads -> ReaderLabels \cup WriterLabels]
      /\ pc[r] = "enterDownWriter" /\ pc' = [pc EXCEPT ![r] = "enterUpMutex"]
      /\ r \in Threads /\ r \notin Writers
      /\ r \notin Sleepers(SemaphoreMutex) /\ r \notin Sleepers(W)
      /\ SemaphoreWriter' = d /\ SemaphoreMutex' = SemaphoreMutex /\ ReaderCount' = ReaderCount
  BY ThreadsAssumption DEF IInv, TypeOK, ReaderEnter_DownWriter, Moves, Awake, Threads
<1>2. /\ d \in Semaphores(Threads)
      /\ WellFormed(d)
      /\ \/ W.count > 0 /\ Sleepers(W) = {} /\ d.count = W.count - 1 /\ Sleepers(d) = {}
         \/ W.count = 0 /\ d.count = 0 /\ Sleepers(d) = Sleepers(W) \cup {r}
  BY <1>1, DownFacts DEF IInv, TypeOK, LockInvariant, SleepersPlaced
<1> HIDE DEF d
<1>3. TypeOK'
  BY <1>1, <1>2 DEF IInv, TypeOK, ReaderLabels, WriterLabels, Threads
<1>4. SleepersPlaced'
  BY <1>1, <1>2 DEF IInv, LockInvariant, SleepersPlaced, Threads
<1>5. MutexHolders' = MutexHolders
  BY <1>1 DEF MutexHolders, MutexSections, Threads
<1>6. MutexHeld'
  BY <1>1, <1>5 DEF IInv, LockInvariant, MutexHeld
<1>7. /\ CountedReaders = {r} /\ CountedReaders' = CountedReaders
      /\ \A x \in Readers : /\ AwaitsWriter(x) <=> x = r
                           /\ pc[x] # "leaveUpWriter" /\ pc'[x] # "leaveUpWriter"
  BY <1>1 DEF IInv, LockInvariant, ReadersCounted, CountedReaders, AwaitsWriter, Threads
<1>8. \A x \in Readers : AwaitsWriter(x)' => x = r
  BY <1>1, <1>2, <1>7 DEF AwaitsWriter, Threads
<1>9. ReadersCounted'
  BY <1>1, <1>7, <1>8 DEF IInv, LockInvariant, ReadersCounted
<1>10. ~ReadersHold
  BY <1>7 DEF ReadersHold
<1>11. WriterHolders' = WriterHolders
  BY <1>1, <1>2 DEF WriterHolders, Threads
<1>12. WriterHeld'
  <2>1. CASE W.count > 0 /\ d.count = W.count - 1 /\ Sleepers(d) = {}
    <3>1. ReadersHold'
      BY <1>1, <1>7, <1>8, <2>1 DEF ReadersHold, AwaitsWriter, Threads
    <3>2. W.count = 1 /\ WriterHolders = {}
      BY <2>1 DEF IInv, TypeOK, Semaphores, LockInvariant, WriterHeld
    <3> QED  BY <1>1, <1>11, <2>1, <3>1, <3>2 DEF WriterHeld
  <2>2. CASE W.count = 0 /\ d.count = 0 /\ Sleepers(d) = Sleepers(W) \cup {r}
    <3>1. ~ReadersHold'
      BY <1>1, <1>7, <2>2 DEF ReadersHold, AwaitsWriter
    <3> QED  BY <1>1, <1>10, <1>11, <2>2, <3>1 DEF IInv, LockInvariant, WriterHeld
  <2> QED  BY <1>2, <2>1, <2>2
<1> QED  BY <1>3, <1>4, <1>6, <1>9, <1>12 DEF IInv, LockInvariant

(* ReaderCount-- under SemaphoreMutex (374-375): the last reader goes on   *)
(* to give SemaphoreWriter back, the others leave it with the rest.        *)
LEMMA ReaderLeave_CountInv ==
  ASSUME IInv, NEW r \in Readers, ReaderLeave_Count(r)
  PROVE  IInv'
<1> DEFINE to == IF LastReader(ReaderCount - 1) THEN "leaveUpWriter" ELSE "leaveUpMutex"
<1>1. /\ pc \in [Threads -> ReaderLabels \cup WriterLabels]
      /\ pc[r] = "leaveCount" /\ pc' = [pc EXCEPT ![r] = to]
      /\ to \in {"leaveUpWriter", "leaveUpMutex"}
      /\ r \in Threads /\ r \notin Writers
      /\ r \notin Sleepers(SemaphoreMutex) /\ r \notin Sleepers(SemaphoreWriter)
      /\ SemaphoreMutex' = SemaphoreMutex /\ SemaphoreWriter' = SemaphoreWriter
      /\ ReaderCount' = ReaderCount - 1 /\ ReaderCount \in Nat
  BY ThreadsAssumption DEF IInv, TypeOK, ReaderLeave_Count, Moves, Awake, Threads
<1>2. to = "leaveUpWriter" <=> ReaderCount' = 0
  BY <1>1 DEF LastReader
<1> HIDE DEF to
<1>3. /\ CountedReaders' = CountedReaders \ {r} /\ r \in CountedReaders
      /\ IsFiniteSet(CountedReaders) /\ IsFiniteSet(CountedReaders')
  <2>1. CountedReaders' = CountedReaders \ {r} /\ r \in CountedReaders
    BY <1>1 DEF CountedReaders, Threads
  <2>2. CountedReaders \in SUBSET Readers /\ CountedReaders' \in SUBSET Readers
    BY DEF CountedReaders
  <2> QED  BY <2>1, <2>2, FS_Subset, ThreadsAssumption
<1>4. ReaderCount' = Cardinality(CountedReaders') /\ ReaderCount' \in Nat
  BY <1>1, <1>3, FS_RemoveElement, FS_CardinalityType DEF IInv, LockInvariant, ReadersCounted
<1>5. ReaderCount' = 0 <=> CountedReaders' = {}
  BY <1>3, <1>4, FS_EmptySet
<1>6. TypeOK'
  BY <1>1, <1>4 DEF IInv, TypeOK, ReaderLabels, WriterLabels, Threads
<1>7. SleepersPlaced'
  BY <1>1 DEF IInv, LockInvariant, SleepersPlaced, Threads
<1>8. MutexHolders' = MutexHolders
  BY <1>1 DEF MutexHolders, MutexSections, Threads
<1>9. MutexHeld'
  BY <1>1, <1>8 DEF IInv, LockInvariant, MutexHeld
<1>10. \A x \in Readers : ~AwaitsWriter(x) /\ pc[x] # "leaveUpWriter"
  <2>1. r \in MutexHolders
    BY <1>1 DEF MutexHolders, MutexSections
  <2>2. ~AwaitsWriter(r) /\ pc[r] # "leaveUpWriter"
    BY <1>1 DEF AwaitsWriter
  <2> QED  BY <2>1, <2>2, OnlyHolder
<1>11. \A x \in Readers : /\ ~AwaitsWriter(x)'
                          /\ pc'[x] = "leaveUpWriter" <=> x = r /\ CountedReaders' = {}
  BY <1>1, <1>2, <1>5, <1>10 DEF AwaitsWriter, Threads
<1>12. ReadersCounted'
  BY <1>4, <1>11 DEF ReadersCounted
<1>13. ReadersHold /\ ReadersHold'
  BY <1>3, <1>10, <1>11 DEF ReadersHold
<1>14. WriterHolders' = WriterHolders
  BY <1>1 DEF WriterHolders, Threads
<1>15. WriterHeld'
  BY <1>1, <1>13, <1>14 DEF IInv, LockInvariant, WriterHeld
<1> QED  BY <1>6, <1>7, <1>9, <1>12, <1>15 DEF IInv, LockInvariant

(* up(&SemaphoreWriter) of the last reader (377): only writers can be      *)
(* asleep on it.                                                           *)
LEMMA ReaderLeave_UpWriterInv ==
  ASSUME IInv, NEW r \in Readers, ReaderLeave_UpWriter(r)
  PROVE  IInv'
<1> DEFINE W == SemaphoreWriter
           u == Up(W)
<1>1. /\ pc \in [Threads -> ReaderLabels \cup WriterLabels]
      /\ pc[r] = "leaveUpWriter" /\ pc' = [pc EXCEPT ![r] = "leaveUpMutex"]
      /\ r \in Threads /\ r \notin Writers
      /\ r \notin Sleepers(SemaphoreMutex) /\ r \notin Sleepers(W)
      /\ SemaphoreWriter' = u /\ SemaphoreMutex' = SemaphoreMutex /\ ReaderCount' = ReaderCount
  BY ThreadsAssumption DEF IInv, TypeOK, ReaderLeave_UpWriter, Moves, Awake, Threads
<1>2. WriterHolders = {} /\ W.count = 0
  BY <1>1 DEF IInv, TypeOK, Semaphores, LockInvariant, WriterHeld, ReadersHold
<1>3. /\ u \in Semaphores(Threads)
      /\ WellFormed(u)
      /\ \/ Sleepers(W) = {} /\ u.count = 1 /\ Sleepers(u) = {}
         \/ u.count = 0 /\ \E h \in Sleepers(W) : Sleepers(u) = Sleepers(W) \ {h}
  BY <1>2, UpFacts DEF IInv, TypeOK, LockInvariant, SleepersPlaced
<1> HIDE DEF u
<1>4. TypeOK'
  BY <1>1, <1>3 DEF IInv, TypeOK, ReaderLabels, WriterLabels, Threads
<1>5. SleepersPlaced'
  BY <1>1, <1>3 DEF IInv, LockInvariant, SleepersPlaced, Threads
<1>6. MutexHolders' = MutexHolders
  BY <1>1 DEF MutexHolders, MutexSections, Threads
<1>7. MutexHeld'
  BY <1>1, <1>6 DEF IInv, LockInvariant, MutexHeld
<1>8. CountedReaders = {} /\ CountedReaders' = {}
  BY <1>1 DEF IInv, LockInvariant, ReadersCounted, CountedReaders, Threads
<1>9. \A x \in Readers : ~AwaitsWriter(x)
  BY <1>8 DEF IInv, LockInvariant, ReadersCounted
<1>10. \A x \in Readers : ~AwaitsWriter(x)' /\ pc'[x] # "leaveUpWriter"
  <2>1. \A x \in Readers : x # r => pc[x] # "leaveUpWriter"
    BY <1>1, OnlyHolder DEF MutexHolders, MutexSections
  <2> QED  BY <1>1, <1>3, <1>9, <2>1 DEF AwaitsWriter, Threads
<1>11. ReadersCounted' /\ ~ReadersHold'
  BY <1>1, <1>8, <1>10 DEF IInv, LockInvariant, ReadersCounted, ReadersHold
<1>12. WriterHeld'
  <2>1. CASE Sleepers(W) = {} /\ u.count = 1 /\ Sleepers(u) = {}
    <3>1. WriterHolders' = {}
      BY <1>1, <1>2, <2>1 DEF WriterHolders, Threads
    <3> QED  BY <1>1, <1>11, <2>1, <3>1 DEF WriterHeld
  <2>2. ASSUME u.count = 0, NEW h \in Sleepers(W), Sleepers(u) = Sleepers(W) \ {h}
        PROVE  WriterHeld'
    <3>1. h \in Writers /\ pc[h] = "entered" /\ h # r
      BY <1>1, <1>9 DEF IInv, LockInvariant, SleepersPlaced, AwaitsWriter
    <3>2. WriterHolders' = {h}
      BY <1>1, <1>2, <2>2, <3>1 DEF WriterHolders, Threads
    <3> QED  BY <1>1, <1>11, <2>2, <3>2 DEF WriterHeld
  <2> QED  BY <1>3, <2>1, <2>2
<1> QED  BY <1>4, <1>5, <1>7, <1>11, <1>12 DEF IInv, LockInvariant

(* Every step of the specification, a stuttering one too, preserves the    *)
(* invariant.                                                              *)
LEMMA NextInv == IInv /\ [Next]_syncVars => IInv'
<1> SUFFICES ASSUME IInv, [Next]_syncVars PROVE IInv'
  OBVIOUS
<1>1. ASSUME NEW w \in Writers, WriterEnter_Down(w) \/ WriterStep(w) PROVE IInv'
  BY <1>1, WriterEnter_DownInv, WriterEnter_ReturnInv, WriterLeave_UpInv DEF WriterStep
<1>2. ASSUME NEW r \in Readers, ReaderEnter_DownMutex(r) \/ ReaderStep(r) PROVE IInv'
  BY <1>2, DownMutexInv, UpMutexInv, ReaderEnter_CountInv, ReaderEnter_DownWriterInv,
     ReaderLeave_CountInv, ReaderLeave_UpWriterInv DEF ReaderStep
<1>3. CASE UNCHANGED syncVars
  BY <1>3 DEF syncVars, IInv, TypeOK, LockInvariant, SleepersPlaced, MutexHeld, MutexHolders,
              ReadersCounted, CountedReaders, AwaitsWriter, WriterHeld, WriterHolders, ReadersHold
<1> QED  BY <1>1, <1>2, <1>3 DEF Next

(* IInv holds in every reachable state, for any finite set of readers and  *)
(* any set of writers.                                                     *)
THEOREM Invariance == Spec => []IInv
  BY InitInv, NextInv, PTL DEF Spec

(* A thread inside its critical section holds SemaphoreWriter, alone or    *)
(* with the other readers.                                                 *)
LEMMA InsideHolds ==
  ASSUME IInv
  PROVE  /\ WritersInside \subseteq WriterHolders
         /\ ReadersInside # {} => ReadersHold
         /\ ReadersInside # {} => Sleepers(SemaphoreWriter) \cap Readers = {}
<1>1. WritersInside \subseteq WriterHolders
  BY ThreadsAssumption DEF IInv, LockInvariant, SleepersPlaced, WritersInside, WriterHolders
<1>2. ASSUME NEW x \in ReadersInside, NEW r \in Readers, AwaitsWriter(r) PROVE FALSE
  <2>1. CountedReaders = {r} /\ x \in CountedReaders
    BY <1>2 DEF IInv, LockInvariant, ReadersCounted, ReadersInside, CountedReaders
  <2>2. pc[r] # "reading"
    BY <1>2, ThreadsAssumption DEF IInv, LockInvariant, SleepersPlaced, AwaitsWriter
  <2> QED  BY <2>1, <2>2 DEF ReadersInside
<1>3. ReadersInside # {} => ReadersHold
  BY <1>2 DEF ReadersHold, ReadersInside, CountedReaders
<1>4. ReadersInside # {} => Sleepers(SemaphoreWriter) \cap Readers = {}
  BY <1>2 DEF AwaitsWriter
<1> QED  BY <1>1, <1>3, <1>4

(* Exclusion follows from the invariant in every state.                    *)
LEMMA InvExclusion == IInv => Exclusion
<1> SUFFICES ASSUME IInv PROVE Exclusion
  OBVIOUS
<1>1. /\ WritersInside \subseteq WriterHolders
      /\ ReadersInside # {} => ReadersHold
  BY InsideHolds
<1>2. /\ \A w1, w2 \in WriterHolders : w1 = w2
      /\ WriterHolders # {} => ~ReadersHold
  BY DEF IInv, LockInvariant, WriterHeld
<1> QED  BY <1>1, <1>2 DEF Exclusion

(* Every variable keeps its type: in particular ReaderCount never goes     *)
(* below 0 at KboardModule.c:374.                                          *)
THEOREM TypeCorrect == Spec => []TypeOK
<1>1. IInv => TypeOK
  BY DEF IInv
<1> QED  BY <1>1, Invariance, PTL

(* Who holds and who waits for the two semaphores, in every reachable      *)
(* state.                                                                  *)
THEOREM LockInvariance == Spec => []LockInvariant
<1>1. IInv => LockInvariant
  BY DEF IInv
<1> QED  BY <1>1, Invariance, PTL

(* A writer between Enter and Leave is alone (264-379, solution 1).        *)
THEOREM MutualExclusion == Spec => []Exclusion
  BY InvExclusion, Invariance, PTL

(* No sequence of Enter and Leave calls raises a semaphore above 1.        *)
THEOREM SemaphoresBinary == Spec => []BinarySemaphores
<1>1. IInv => BinarySemaphores
  BY DEF IInv, LockInvariant, MutexHeld, WriterHeld, BinarySemaphores
<1> QED  BY <1>1, Invariance, PTL

(* While a reader is inside no reader sleeps for SemaphoreWriter (301).    *)
THEOREM ReadersPreferred == Spec => []ReadersShare
<1>1. IInv => ReadersShare
  BY InsideHolds DEF ReadersShare
<1> QED  BY <1>1, Invariance, PTL

(* Whose turn it is, said of the semaphore: the turn is free exactly when  *)
(* a unit is left, and whoever is inside has it.                           *)
TurnOK ==
  /\ SemaphoreWriter.count = 1 <=> Turn = {}
  /\ SemaphoreWriter.count \in {0, 1}
  /\ ReadersHold => Turn = Readers /\ WriterHolders = {}
  /\ \A w \in WriterHolders : Turn = {w} /\ ~ReadersHold
  /\ WritersInside \subseteq WriterHolders
  /\ ReadersInside # {} => ReadersHold

(* TurnOK follows from the invariant in every state.                       *)
LEMMA InvTurn == IInv => TurnOK
<1> SUFFICES ASSUME IInv PROVE TurnOK
  OBVIOUS
<1>1. ReadersHold => Readers # {}
  BY DEF ReadersHold, CountedReaders
<1>2. SemaphoreWriter.count \in {0, 1}
  BY DEF IInv, TypeOK, Semaphores, LockInvariant, WriterHeld
<1>3. /\ \A w1, w2 \in WriterHolders : w1 = w2
      /\ WriterHolders # {} => ~ReadersHold
      /\ SemaphoreWriter.count = 1 <=> WriterHolders = {} /\ ~ReadersHold
  BY DEF IInv, LockInvariant, WriterHeld
<1> QED  BY <1>1, <1>2, <1>3, InsideHolds DEF TurnOK, Turn

(* A step that leaves SemaphoreWriter and the writers that have it alone   *)
(* leaves the turn alone, whatever the readers do.                         *)
LEMMA SameTurn ==
  ASSUME TurnOK, TurnOK', SemaphoreWriter' = SemaphoreWriter, WriterHolders' = WriterHolders
  PROVE  /\ Turn' = Turn
         /\ Waiting(SemaphoreWriter, Party)' = Waiting(SemaphoreWriter, Party)
<1>1. Turn' = Turn
  <2>1. CASE SemaphoreWriter.count = 1
    BY <2>1 DEF TurnOK
  <2>2. CASE SemaphoreWriter.count # 1
    BY <2>2 DEF TurnOK, Turn
  <2> QED  BY <2>1, <2>2
<1> QED  BY <1>1

(* up(&SemaphoreWriter) by a thread that has the turn (337, 377) passes it *)
(* to the party at the head of the line.                                   *)
LEMMA PassTurn ==
  ASSUME IInv, IInv', SemaphoreWriter' = Up(SemaphoreWriter), SemaphoreWriter.count = 0,
         \A t \in Sleepers(SemaphoreWriter) : pc'[t] = pc[t]
  PROVE  LET line == Waiting(SemaphoreWriter, Party)
         IN  IF line = << >> THEN Turn' = {} /\ UNCHANGED line
                             ELSE Turn' = Head(line) /\ line' = Tail(line)
<1> DEFINE W == SemaphoreWriter
           line == Waiting(W, Party)
<1>1. W \in Semaphores(Threads) /\ WellFormed(W)
  BY DEF IInv, TypeOK, LockInvariant, SleepersPlaced
<1>2. TurnOK'
  BY InvTurn, PTL
<1>3. line' = Waiting(Up(W), Party)
  BY Zenon
<1>4. CASE W.wait_list = << >>
  <2>1. line = << >> /\ Waiting(Up(W), Party) = << >>
    BY <1>1, <1>4, WaitingUp
  <2>2. SemaphoreWriter'.count = 1
    BY <1>1, <1>4 DEF Up, Semaphores
  <2> QED  BY <1>2, <1>3, <2>1, <2>2 DEF TurnOK
<1>5. CASE W.wait_list # << >>
  <2> PICK h : h = Head(W.wait_list)
    OBVIOUS
  <2>1. line # << >> /\ Waiting(Up(W), Party) = Tail(line) /\ Party[h] = Head(line)
    BY <1>1, <1>5, WaitingUp
  <2>2. h \in Sleepers(W) /\ h \notin Sleepers(W)'
    BY <1>1, <1>5, UpHead
  <2>3. Turn' = Party[h]
    <3>1. CASE h \in Writers
      <4>1. h \in WriterHolders'
        BY <2>2, <3>1, ThreadsAssumption DEF IInv, LockInvariant, SleepersPlaced, WriterHolders
      <4> QED  BY <1>2, <3>1, <4>1 DEF TurnOK, Party, Threads
    <3>2. CASE h \in Readers
      <4>1. pc'[h] = "enterUpMutex"
        BY <2>2, <3>2, ThreadsAssumption DEF IInv, LockInvariant, SleepersPlaced
      <4>2. h \in CountedReaders' /\ ~AwaitsWriter(h)'
        BY <2>2, <3>2, <4>1 DEF CountedReaders, AwaitsWriter
      <4>3. \A r \in Readers : ~AwaitsWriter(r)'
        BY <3>2, <4>2 DEF IInv, LockInvariant, ReadersCounted
      <4>4. ReadersHold'
        BY <4>2, <4>3 DEF ReadersHold
      <4> QED  BY <1>2, <3>2, <4>4, ThreadsAssumption DEF TurnOK, Party, Threads
    <3> QED  BY <2>2, <3>1, <3>2 DEF IInv, LockInvariant, SleepersPlaced
  <2> QED  BY <1>3, <2>1, <2>3
<1> QED  BY <1>4, <1>5

(* The four functions of solution 1 implement the lock of ReadersWriters:  *)
(* the down() of SemaphoreWriter asks, its up() passes the turn on to the  *)
(* first in line, and every other step starts or ends one critical section *)
(* within the turn or is invisible.                                        *)
THEOREM Refinement == Spec => RWSpec
<1> DEFINE W == SemaphoreWriter
           line == Waiting(SemaphoreWriter, Party)
           inside == ReadersInside \cup WritersInside
<1>1. SyncInit => RW!Init
  <2> SUFFICES ASSUME SyncInit PROVE RW!Init
    OBVIOUS
  <2>1. IInv
    BY InitInv
  <2>2. SemaphoreWriter.count = 1 /\ SemaphoreWriter.wait_list = << >>
    BY DEF SyncInit, InitializeSemaphore
  <2>3. line = << >>
    BY <2>2 DEF Waiting
  <2>4. Turn = {}
    BY <2>1, <2>2, InvTurn DEF TurnOK
  <2>5. inside = {}
    BY DEF SyncInit, ReadersInside, WritersInside, Threads
  <2> QED  BY <2>3, <2>4, <2>5 DEF RW!Init
<1>2. ASSUME IInv, IInv', [Next]_syncVars
      PROVE  [RW!Next]_<<Turn, line, inside>>
  <2> USE <1>2
  <2>1. /\ pc \in [Threads -> ReaderLabels \cup WriterLabels]
        /\ W \in Semaphores(Threads) /\ WellFormed(W)
        /\ Readers \cap Writers = {} /\ Threads = Readers \cup Writers
        /\ Sleepers(W) \subseteq Threads
    BY ThreadsAssumption DEF IInv, TypeOK, LockInvariant, SleepersPlaced, Threads
  <2>2. TurnOK /\ TurnOK'
    <3>1. IInv' => TurnOK'
      BY InvTurn, PTL
    <3> QED  BY <3>1, InvTurn
  <2>3. \A t \in Threads : (t \in Writers => Party[t] = {t}) /\ (t \in Readers => Party[t] = Readers)
    BY <2>1 DEF Party
  <2>4. \A i \in DOMAIN line : \E t \in Sleepers(W) : line[i] = Party[t]
    BY DEF Waiting, Sleepers
  <2>5. ASSUME NEW p \in Threads, W' = Down(W, p)
        PROVE  /\ W.count > 0 => line' = line
               /\ W.count = 0 => line' = Append(line, Party[p])
    <3>1. line' = Waiting(Down(W, p), Party)
      BY <2>5, Zenon
    <3> QED  BY <2>1, <3>1, WaitingDown
  <2>6. ASSUME NEW w \in Writers, WriterEnter_Down(w)
        PROVE  RW!Ask({w})
    <3>1. /\ pc[w] = "idle" /\ pc' = [pc EXCEPT ![w] = "entered"] /\ w \in Threads
          /\ W' = Down(W, w) /\ w \notin Sleepers(W) /\ w \notin Readers
      BY <2>1, <2>6 DEF WriterEnter_Down, Moves, Awake
    <3>2. \/ W.count > 0 /\ Sleepers(W) = {} /\ Sleepers(W') = {}
          \/ W.count = 0 /\ Sleepers(W') = Sleepers(W) \cup {w}
      BY <2>1, <3>1, DownFacts
    <3>3. {w} # Turn /\ \A i \in DOMAIN line : line[i] # {w}
      <4>1. {w} # Turn
        BY <3>1 DEF Turn, WriterHolders
      <4>2. \A t \in Sleepers(W) : Party[t] # {w}
        BY <2>1, <2>3, <3>1
      <4> QED  BY <2>4, <4>1, <4>2
    <3>4. inside' = inside
      BY <2>1, <3>1 DEF ReadersInside, WritersInside
    <3>5. CASE W.count > 0
      <4>1. Turn = {}
        BY <2>2, <3>5 DEF TurnOK
      <4>2. w \in WriterHolders'
        BY <2>1, <3>1, <3>2, <3>5 DEF WriterHolders
      <4>3. Turn' = {w} /\ line' = line
        BY <2>2, <2>5, <3>1, <3>5, <4>2 DEF TurnOK
      <4> QED  BY <3>3, <3>4, <4>1, <4>3 DEF RW!Ask
    <3>6. CASE W.count = 0
      <4>1. WriterHolders' = WriterHolders /\ W'.count = 0
        <5>1. W'.count = 0
          BY <2>1, <3>1, <3>6, DownFacts
        <5> QED  BY <2>1, <3>1, <3>2, <3>6, <5>1 DEF WriterHolders
      <4>2. Turn # {} /\ Turn' = Turn
        BY <2>2, <3>6, <4>1 DEF TurnOK, Turn
      <4>3. line' = Append(line, {w})
        BY <2>3, <2>5, <3>1, <3>6
      <4> QED  BY <3>3, <3>4, <4>2, <4>3 DEF RW!Ask
    <3> QED  BY <2>2, <3>5, <3>6 DEF TurnOK
  <2>7. ASSUME NEW r \in Readers, ReaderEnter_DownWriter(r)
        PROVE  RW!Ask(Readers)
    <3>1. /\ pc[r] = "enterDownWriter" /\ pc' = [pc EXCEPT ![r] = "enterUpMutex"] /\ r \in Threads
          /\ W' = Down(W, r) /\ r \notin Sleepers(W) /\ r \notin Writers
      BY <2>1, <2>7 DEF ReaderEnter_DownWriter, Moves, Awake
    <3>2. \/ W.count > 0 /\ Sleepers(W) = {} /\ Sleepers(W') = {}
          \/ W.count = 0 /\ Sleepers(W') = Sleepers(W) \cup {r}
      BY <2>1, <3>1, DownFacts
    <3>3. \A t \in Sleepers(W) : t \in Writers
      BY <2>1, <3>1 DEF IInv, LockInvariant, ReadersCounted, AwaitsWriter, CountedReaders
    <3>4. ~ReadersHold
      <4>1. AwaitsWriter(r)
        BY <3>1 DEF AwaitsWriter
      <4> QED  BY <3>1, <4>1 DEF IInv, LockInvariant, ReadersCounted, ReadersHold, CountedReaders
    <3>5. Readers # Turn /\ \A i \in DOMAIN line : line[i] # Readers
      <4>1. Readers # Turn
        BY <3>1, <3>4 DEF Turn, WriterHolders
      <4>2. \A t \in Sleepers(W) : Party[t] # Readers
        BY <2>1, <2>3, <3>1, <3>3
      <4> QED  BY <2>4, <4>1, <4>2
    <3>6. inside' = inside
      BY <2>1, <3>1 DEF ReadersInside, WritersInside
    <3>7. WriterHolders' = WriterHolders
      BY <2>1, <3>1, <3>2 DEF WriterHolders
    <3>8. CASE W.count > 0
      <4>1. W.count = 1 /\ Turn = {} /\ WriterHolders = {}
        BY <2>2, <3>8 DEF TurnOK, Turn
      <4>2. W'.count = 0
        BY <2>1, <3>1, <4>1, DownFacts
      <4>3. Turn' = Readers /\ line' = line
        <5>1. Turn' # {}
          BY <2>2, <4>2 DEF TurnOK
        <5>2. ReadersHold'
          BY <3>7, <4>1, <5>1 DEF Turn
        <5> QED  BY <2>2, <2>5, <3>1, <3>8, <5>2 DEF TurnOK
      <4> QED  BY <3>5, <3>6, <4>1, <4>3 DEF RW!Ask
    <3>9. CASE W.count = 0
      <4>1. AwaitsWriter(r)'
        BY <3>2, <3>9 DEF AwaitsWriter
      <4>2. ~ReadersHold'
        <5>1. CountedReaders' = {r}
          BY <4>1 DEF IInv, LockInvariant, ReadersCounted
        <5> QED  BY <4>1, <5>1 DEF IInv, LockInvariant, ReadersCounted, ReadersHold
      <4>3. Turn # {} /\ Turn' = Turn
        BY <2>2, <3>4, <3>7, <3>9, <4>2 DEF TurnOK, Turn
      <4>4. line' = Append(line, Readers)
        BY <2>3, <2>5, <3>1, <3>9
      <4> QED  BY <3>5, <3>6, <4>3, <4>4 DEF RW!Ask
    <3> QED  BY <2>2, <3>8, <3>9 DEF TurnOK
  <2>8. ASSUME NEW w \in Writers, WriterEnter_Return(w)
        PROVE  RW!Start(w)
    <3>1. /\ pc[w] = "entered" /\ pc' = [pc EXCEPT ![w] = "writing"] /\ w \in Threads
          /\ W' = W /\ w \notin Sleepers(W) /\ w \notin Readers
      BY <2>1, <2>8 DEF WriterEnter_Return, Moves, Awake
    <3>2. WriterHolders' = WriterHolders /\ w \in WriterHolders
      BY <2>1, <3>1 DEF WriterHolders
    <3>3. Turn' = Turn /\ line' = line
      BY <2>2, <3>1, <3>2, SameTurn
    <3>4. inside' = inside \cup {w} /\ w \notin inside
      BY <2>1, <3>1 DEF ReadersInside, WritersInside
    <3>5. w \in Turn
      BY <3>2 DEF Turn
    <3> QED  BY <3>3, <3>4, <3>5 DEF RW!Start
  <2>9. ASSUME NEW r \in Readers, ReaderEnter_UpMutex(r)
        PROVE  RW!Start(r)
    <3>1. /\ pc[r] = "enterUpMutex" /\ pc' = [pc EXCEPT ![r] = "reading"] /\ r \in Threads
          /\ W' = W /\ r \notin Sleepers(W) /\ r \notin Writers
      BY <2>1, <2>9 DEF ReaderEnter_UpMutex, Moves, Awake
    <3>2. WriterHolders' = WriterHolders
      BY <2>1, <3>1 DEF WriterHolders
    <3>3. Turn' = Turn /\ line' = line
      BY <2>2, <3>1, <3>2, SameTurn
    <3>4. inside' = inside \cup {r} /\ r \notin inside /\ r \in ReadersInside'
      BY <2>1, <3>1 DEF ReadersInside, WritersInside
    <3>5. r \in Turn
      BY <2>2, <3>3, <3>4 DEF TurnOK
    <3> QED  BY <3>3, <3>4, <3>5 DEF RW!Start
  <2>10. ASSUME NEW r \in Readers, ReaderLeave_DownMutex(r)
         PROVE  RW!LeaveReader(r)
    <3>1. /\ pc[r] = "reading" /\ pc' = [pc EXCEPT ![r] = "leaveCount"] /\ r \in Threads
          /\ W' = W /\ r \notin Writers
      BY <2>1, <2>10 DEF ReaderLeave_DownMutex, Moves
    <3>2. WriterHolders' = WriterHolders
      BY <2>1, <3>1 DEF WriterHolders
    <3>3. Turn' = Turn /\ line' = line
      BY <2>2, <3>1, <3>2, SameTurn
    <3>4. inside' = inside \ {r} /\ r \in inside
      BY <2>1, <3>1 DEF ReadersInside, WritersInside
    <3> QED  BY <3>3, <3>4 DEF RW!LeaveReader
  <2>11. ASSUME NEW w \in Writers, WriterLeave_Up(w)
         PROVE  RW!LeaveWriter(w)
    <3>1. /\ pc[w] = "writing" /\ pc' = [pc EXCEPT ![w] = "idle"] /\ w \in Threads
          /\ W' = Up(W) /\ w \notin Sleepers(W) /\ w \notin Readers
      BY <2>1, <2>11 DEF WriterLeave_Up, Moves, Awake
    <3>2. w \in WritersInside /\ w \in WriterHolders
      BY <3>1 DEF WritersInside, WriterHolders
    <3>3. Turn = {w} /\ W.count = 0 /\ ReadersInside = {} /\ WritersInside = {w}
      BY <2>2, <3>2 DEF TurnOK, Turn
    <3>4. inside' = {}
      BY <2>1, <3>1, <3>3 DEF ReadersInside, WritersInside
    <3>5. \A t \in Sleepers(W) : pc'[t] = pc[t]
      BY <2>1, <3>1
    <3>6. IF line = << >> THEN Turn' = {} /\ UNCHANGED line
                          ELSE Turn' = Head(line) /\ line' = Tail(line)
      BY <3>1, <3>3, <3>5, PassTurn
    <3> QED  BY <3>3, <3>4, <3>6 DEF RW!LeaveWriter, RW!Pass
  <2>12. ASSUME NEW r \in Readers, ReaderLeave_UpWriter(r)
         PROVE  RW!PassReaders
    <3>1. /\ pc[r] = "leaveUpWriter" /\ pc' = [pc EXCEPT ![r] = "leaveUpMutex"] /\ r \in Threads
          /\ W' = Up(W) /\ r \notin Sleepers(W) /\ r \notin Writers
      BY <2>1, <2>12 DEF ReaderLeave_UpWriter, Moves, Awake
    <3>2. ReadersHold /\ CountedReaders = {}
      BY <3>1 DEF ReadersHold, IInv, LockInvariant, ReadersCounted
    <3>3. Turn = Readers /\ WriterHolders = {} /\ W.count = 0
      BY <2>2, <3>2 DEF TurnOK, Turn
    <3>4. inside = {}
      BY <2>2, <3>2, <3>3 DEF TurnOK, ReadersInside, CountedReaders
    <3>5. inside' = inside
      BY <2>1, <3>1 DEF ReadersInside, WritersInside
    <3>6. \A t \in Sleepers(W) : pc'[t] = pc[t]
      BY <2>1, <3>1
    <3>7. IF line = << >> THEN Turn' = {} /\ UNCHANGED line
                          ELSE Turn' = Head(line) /\ line' = Tail(line)
      BY <3>1, <3>3, <3>6, PassTurn
    <3> QED  BY <3>3, <3>4, <3>5, <3>7 DEF RW!PassReaders, RW!Pass
  <2>13. ASSUME NEW r \in Readers,
                \/ ReaderEnter_DownMutex(r) \/ ReaderEnter_Count(r)
                \/ ReaderLeave_Count(r) \/ ReaderLeave_UpMutex(r)
         PROVE  UNCHANGED <<Turn, line, inside>>
    <3>1. PICK from, to \in ReaderLabels \ {"reading"} : Moves(r, from, to)
      BY <2>13 DEF ReaderEnter_DownMutex, ReaderEnter_Count, ReaderLeave_Count,
                   ReaderLeave_UpMutex, ReaderLabels
    <3>2. W' = W
      BY <2>13 DEF ReaderEnter_DownMutex, ReaderEnter_Count, ReaderLeave_Count, ReaderLeave_UpMutex
    <3>3. WriterHolders' = WriterHolders /\ inside' = inside
      BY <2>1, <3>1, <3>2 DEF Moves, WriterHolders, ReadersInside, WritersInside
    <3> QED  BY <2>2, <3>2, <3>3, SameTurn
  <2>14. CASE UNCHANGED syncVars
    <3>1. W' = W /\ pc' = pc
      BY <2>14 DEF syncVars
    <3>2. WriterHolders' = WriterHolders /\ inside' = inside
      BY <3>1 DEF WriterHolders, ReadersInside, WritersInside
    <3> QED  BY <2>2, <3>1, <3>2, SameTurn
  <2> HIDE DEF line, inside
  <2>15. ASSUME NEW w \in Writers, WriterEnter_Down(w) \/ WriterStep(w) PROVE RW!Next
    BY <2>6, <2>8, <2>11, <2>15 DEF WriterStep, RW!Next, RW!Parties
  <2>16. ASSUME NEW r \in Readers, ReaderEnter_DownMutex(r) \/ ReaderStep(r)
         PROVE  RW!Next \/ UNCHANGED <<Turn, line, inside>>
    BY <2>7, <2>9, <2>10, <2>12, <2>13, <2>16 DEF ReaderStep, RW!Next, RW!Parties
  <2> QED  BY <2>14, <2>15, <2>16 DEF Next
<1> QED  BY <1>1, <1>2, Invariance, PTL DEF Spec, RWSpec, RW!Spec
=============================================================================
