------------------------- MODULE SyncSolution2Proofs -------------------------
(***************************************************************************)
(* Proofs about SyncSolution2 for any number of readers and writers.  Its  *)
(* two groups mirror each other: the writers share SemaphoreReader through *)
(* WriterCount as the readers share SemaphoreWriter through ReaderCount.   *)
(* The invariant says of each semaphore who holds it (Held), and of each   *)
(* counter whom it counts (Counted).                                       *)
(***************************************************************************)
EXTENDS SyncSolution2, DataProofs, FiniteSetTheorems

(* Who may sleep where.                                                    *)
SleepersPlaced ==
  /\ WellFormed(SemaphoreWriterMutex) /\ WellFormed(SemaphoreReaderMutex)
  /\ WellFormed(SemaphoreWriter) /\ WellFormed(SemaphoreReader)
  /\ \A t \in Sleepers(SemaphoreWriterMutex) :
       t \in Writers /\ pc[t] \in {"enterCount", "leaveCount"}
  /\ \A t \in Sleepers(SemaphoreReaderMutex) :
       t \in Readers /\ pc[t] \in {"enterCount", "leaveCount"}
  /\ \A t \in Sleepers(SemaphoreReader) :
       \/ t \in Writers /\ pc[t] = "enterUpMutex"
       \/ t \in Readers /\ pc[t] = "enterUpReader"
  /\ \A t \in Sleepers(SemaphoreWriter) :
       \/ t \in Writers /\ pc[t] = "entered"
       \/ t \in Readers /\ pc[t] = "enterUpMutex"

(* Who holds a mutex: a thread between its down() and its up().            *)
WriterMutexHolders ==
  {w \in Writers : /\ pc[w] \in {"enterCount", "enterDownReader", "enterUpMutex",
                                 "leaveCount", "leaveUpReader", "leaveUpMutex"}
                   /\ w \notin Sleepers(SemaphoreWriterMutex)}
ReaderMutexHolders ==
  {r \in Readers : /\ pc[r] \in {"enterCount", "enterDownWriter", "enterUpMutex",
                                 "leaveCount", "leaveUpWriter", "leaveUpMutex"}
                   /\ r \notin Sleepers(SemaphoreReaderMutex)}

(* The threads of a group between their ++ and their --, the one that is   *)
(* about to take the group's semaphore or sleeps for it, and the one that  *)
(* is about to give it back.                                               *)
CountedWriters ==
  {w \in Writers : pc[w] \in {"enterDownReader", "enterUpMutex", "enterDownWriter", "entered",
                              "writing", "leaveDownMutex", "leaveCount"}}
FirstWriters == {w \in Writers : pc[w] = "enterDownReader" \/ w \in Sleepers(SemaphoreReader)}
LastWriters == {w \in Writers : pc[w] = "leaveUpReader"}

(* A counter is the number of threads counted; the first of them is alone, *)
(* and so is the last.                                                     *)
Counted(count, group, first, last) ==
  /\ count = Cardinality(group)
  /\ \A t \in first : group = {t}
  /\ last # {} => group = {}

(* The threads that share a group's semaphore.                             *)
Sharing(group, first, last) == last \cup IF first = {} THEN group ELSE {}

(* The single holders: a reader in the turnstile, a writer that is in.     *)
PassingReaders ==
  {r \in Readers : pc[r] = "enterUpReader" /\ r \notin Sleepers(SemaphoreReader)}

WritersCounted == Counted(WriterCount, CountedWriters, FirstWriters, LastWriters)
ReadersCounted == Counted(ReaderCount, CountedReaders, FirstReaders, LastReaders)
WriterMutexHeld == Held(SemaphoreWriterMutex, WriterMutexHolders, {})
ReaderMutexHeld == Held(SemaphoreReaderMutex, ReaderMutexHolders, {})
ReaderHeld ==
  Held(SemaphoreReader, PassingReaders, Sharing(CountedWriters, FirstWriters, LastWriters))
WriterHeld ==
  Held(SemaphoreWriter, WriterHolders, Sharing(CountedReaders, FirstReaders, LastReaders))

IInv ==
  /\ TypeOK /\ SleepersPlaced
  /\ WriterMutexHeld /\ ReaderMutexHeld
  /\ WritersCounted /\ ReadersCounted
  /\ ReaderHeld /\ WriterHeld
-----------------------------------------------------------------------------
(* ++ under the mutex: the first of a group goes on to take the group's    *)
(* semaphore, any other joins those that have it (271-274, 311-314).       *)
LEMMA CountIn ==
  ASSUME NEW count \in Nat, NEW group, IsFiniteSet(group), NEW t, t \notin group,
         Counted(count, group, {}, {}),
         NEW first, first = IF count = 0 THEN {t} ELSE {}
  PROVE  /\ Counted(count + 1, group \cup {t}, first, {})
         /\ Sharing(group, {}, {}) = {} <=> Sharing(group \cup {t}, first, {}) = {}
<1>1. count = Cardinality(group) /\ (count = 0 <=> group = {})
  BY FS_EmptySet DEF Counted
<1>2. Cardinality(group \cup {t}) = count + 1
  BY <1>1, FS_AddElement
<1>3. Counted(count + 1, group \cup {t}, first, {})
  BY <1>1, <1>2 DEF Counted
<1>4. Sharing(group, {}, {}) = {} <=> Sharing(group \cup {t}, first, {}) = {}
  BY <1>1 DEF Sharing
<1> QED  BY <1>3, <1>4

(* -- under the mutex: the last of a group goes on to give the group's     *)
(* semaphore back (342-345, 383-386).                                      *)
LEMMA CountOut ==
  ASSUME NEW count \in Nat, NEW group, IsFiniteSet(group), NEW t \in group,
         Counted(count, group, {}, {}),
         NEW last, last = IF count - 1 = 0 THEN {t} ELSE {}
  PROVE  /\ Counted(count - 1, group \ {t}, {}, last) /\ count - 1 \in Nat
         /\ Sharing(group, {}, {}) # {} /\ Sharing(group \ {t}, {}, last) # {}
<1>1. /\ count = Cardinality(group) /\ IsFiniteSet(group \ {t})
      /\ Cardinality(group \ {t}) = count - 1 /\ count - 1 \in Nat
  <2>1. count = Cardinality(group) /\ IsFiniteSet(group \ {t})
        /\ Cardinality(group \ {t}) = Cardinality(group) - 1
    BY FS_RemoveElement DEF Counted
  <2>2. Cardinality(group \ {t}) \in Nat
    BY <2>1, FS_CardinalityType
  <2> QED  BY <2>1, <2>2
<1>2. count - 1 = 0 <=> group \ {t} = {}
  BY <1>1, FS_EmptySet
<1>3. Counted(count - 1, group \ {t}, {}, last)
  BY <1>1, <1>2 DEF Counted
<1>4. Sharing(group, {}, {}) # {} /\ Sharing(group \ {t}, {}, last) # {}
  BY <1>2 DEF Sharing
<1> QED  BY <1>1, <1>3, <1>4

(* Held only asks whether a group holds the semaphore, not who is in it.   *)
LEMMA SameHolders ==
  ASSUME NEW s, NEW H, NEW G, NEW G2, Held(s, H, G), G = {} <=> G2 = {}
  PROVE  Held(s, H, G2)
  BY DEF Held

(* The thread that holds SemaphoreWriterMutex is the only writer between   *)
(* the test of WriterCount and the call that the test decides.             *)
LEMMA WriterAlone ==
  ASSUME IInv, NEW w \in WriterMutexHolders
  PROVE  /\ WriterMutexHolders = {w}
         /\ FirstWriters \subseteq {w} /\ LastWriters \subseteq {w}
<1>1. WriterMutexHolders = {w}
  BY DEF IInv, WriterMutexHeld, Held
<1>2. FirstWriters \subseteq WriterMutexHolders
  BY ThreadsAssumption DEF IInv, SleepersPlaced, FirstWriters, WriterMutexHolders
<1>3. LastWriters \subseteq WriterMutexHolders
  BY DEF IInv, SleepersPlaced, LastWriters, WriterMutexHolders
<1> QED  BY <1>1, <1>2, <1>3

(* And so is a reader with SemaphoreReaderMutex and ReaderCount.           *)
LEMMA ReaderAlone ==
  ASSUME IInv, NEW r \in ReaderMutexHolders
  PROVE  /\ ReaderMutexHolders = {r}
         /\ FirstReaders \subseteq {r} /\ LastReaders \subseteq {r}
<1>1. ReaderMutexHolders = {r}
  BY DEF IInv, ReaderMutexHeld, Held
<1>2. FirstReaders \subseteq ReaderMutexHolders
  BY ThreadsAssumption DEF IInv, SleepersPlaced, FirstReaders, ReaderMutexHolders
<1>3. LastReaders \subseteq ReaderMutexHolders
  BY DEF IInv, SleepersPlaced, LastReaders, ReaderMutexHolders
<1> QED  BY <1>1, <1>2, <1>3

(* The state InitializeSyncSolution leaves (KboardModule.c:243-249)        *)
(* satisfies the invariant.                                                *)
LEMMA InitInv == SyncInit => IInv
<1> SUFFICES ASSUME SyncInit PROVE IInv
  OBVIOUS
<1> DEFINE s == InitializeSemaphore(1)
<1>1. /\ s \in Semaphores(Readers) /\ s \in Semaphores(Writers) /\ s \in Semaphores(Threads)
      /\ WellFormed(s) /\ Sleepers(s) = {} /\ s.count = 1
  BY InitializeFacts
<1> HIDE DEF s
<1>2. /\ SemaphoreWriterMutex = s /\ SemaphoreReaderMutex = s
      /\ SemaphoreWriter = s /\ SemaphoreReader = s /\ WriterCount = 0 /\ ReaderCount = 0
      /\ pc = [t \in Threads |-> "idle"]
  BY DEF SyncInit, s
<1>3. TypeOK /\ SleepersPlaced
  BY <1>1, <1>2 DEF TypeOK, SleepersPlaced, ReaderLabels, WriterLabels, Threads
<1>4. /\ WriterMutexHolders = {} /\ ReaderMutexHolders = {}
      /\ CountedWriters = {} /\ FirstWriters = {} /\ LastWriters = {}
      /\ CountedReaders = {} /\ FirstReaders = {} /\ LastReaders = {}
      /\ PassingReaders = {} /\ WriterHolders = {}
  BY <1>1, <1>2 DEF WriterMutexHolders, ReaderMutexHolders, CountedWriters, FirstWriters,
     LastWriters, CountedReaders, FirstReaders, LastReaders, PassingReaders, WriterHolders, Threads
<1>5. Held(s, {}, {}) /\ Counted(0, {}, {}, {}) /\ Sharing({}, {}, {}) = {}
  BY <1>1, FS_EmptySet DEF Held, Counted, Sharing
<1> QED  BY <1>2, <1>3, <1>4, <1>5 DEF IInv, WriterMutexHeld, ReaderMutexHeld, WritersCounted,
         ReadersCounted, ReaderHeld, WriterHeld
-----------------------------------------------------------------------------
(* down(&SemaphoreWriterMutex) of an entering or a leaving writer (270,    *)
(* 341).                                                                   *)
LEMMA DownWriterMutexInv ==
  ASSUME IInv, NEW w \in Writers, WriterEnter_DownMutex(w) \/ WriterLeave_DownMutex(w)
  PROVE  IInv'
<1> DEFINE s == SemaphoreWriterMutex
           d == Down(s, w)
<1>1. /\ TypeOK /\ SleepersPlaced
      /\ \/ pc[w] = "idle" /\ pc' = [pc EXCEPT ![w] = "enterCount"]
         \/ pc[w] = "leaveDownMutex" /\ pc' = [pc EXCEPT ![w] = "leaveCount"]
      /\ w \in Threads /\ w \notin Readers
      /\ w \notin Sleepers(s) /\ w \notin Sleepers(SemaphoreReader) /\ w \notin Sleepers(SemaphoreWriter)
      /\ s' = d
      /\ UNCHANGED <<SemaphoreReaderMutex, SemaphoreWriter, SemaphoreReader, WriterCount, ReaderCount>>
  BY ThreadsAssumption DEF IInv, WriterEnter_DownMutex, WriterLeave_DownMutex, DownWriterMutex,
     OnWriterMutex, Moves, Awake, counts, Threads
<1>2. /\ d \in Semaphores(Writers) /\ WellFormed(d)
      /\ \/ WriterMutexHolders = {} /\ Sleepers(s) = {} /\ Sleepers(d) = {} /\ Held(d, {w}, {})
         \/ Sleepers(d) = Sleepers(s) \cup {w} /\ Held(d, WriterMutexHolders, {})
  BY <1>1, DownHeld DEF IInv, TypeOK, SleepersPlaced, WriterMutexHeld
<1> HIDE DEF d
<1>3. TypeOK'
  BY <1>1, <1>2 DEF TypeOK, WriterLabels, ReaderLabels, Threads
<1>4. SleepersPlaced'
  BY <1>1, <1>2 DEF TypeOK, SleepersPlaced, Threads
<1>5. WriterMutexHeld'
  <2>1. \/ WriterMutexHolders' = {w} /\ Held(d, {w}, {})
        \/ WriterMutexHolders' = WriterMutexHolders /\ Held(d, WriterMutexHolders, {})
    BY <1>1, <1>2 DEF TypeOK, WriterMutexHolders, Threads
  <2> QED  BY <1>1, <2>1 DEF WriterMutexHeld
<1>6. /\ CountedWriters' = CountedWriters /\ FirstWriters' = FirstWriters /\ LastWriters' = LastWriters
      /\ CountedReaders' = CountedReaders /\ FirstReaders' = FirstReaders /\ LastReaders' = LastReaders
      /\ PassingReaders' = PassingReaders /\ WriterHolders' = WriterHolders
      /\ ReaderMutexHolders' = ReaderMutexHolders
  BY <1>1 DEF TypeOK, CountedWriters, FirstWriters, LastWriters, CountedReaders, FirstReaders,
     LastReaders, PassingReaders, WriterHolders, ReaderMutexHolders, Threads
<1> QED  BY <1>1, <1>3, <1>4, <1>5, <1>6 DEF IInv, ReaderMutexHeld, WritersCounted,
         ReadersCounted, ReaderHeld, WriterHeld

(* up(&SemaphoreWriterMutex) of an entering or a leaving writer (276, 347).*)
LEMMA UpWriterMutexInv ==
  ASSUME IInv, NEW w \in Writers, WriterEnter_UpMutex(w) \/ WriterLeave_UpMutex(w)
  PROVE  IInv'
<1> DEFINE s == SemaphoreWriterMutex
           u == Up(s)
<1>1. /\ TypeOK /\ SleepersPlaced
      /\ \/ pc[w] = "enterUpMutex" /\ pc' = [pc EXCEPT ![w] = "enterDownWriter"]
         \/ pc[w] = "leaveUpMutex" /\ pc' = [pc EXCEPT ![w] = "idle"]
      /\ w \in Threads /\ w \notin Readers
      /\ w \notin Sleepers(s) /\ w \notin Sleepers(SemaphoreReader) /\ w \notin Sleepers(SemaphoreWriter)
      /\ s' = u
      /\ UNCHANGED <<SemaphoreReaderMutex, SemaphoreWriter, SemaphoreReader, WriterCount, ReaderCount>>
  BY ThreadsAssumption DEF IInv, WriterEnter_UpMutex, WriterLeave_UpMutex, UpWriterMutex,
     OnWriterMutex, Moves, Awake, counts, Threads
<1>2. WriterMutexHolders = {w}
  BY <1>1, WriterAlone DEF WriterMutexHolders
<1>3. /\ u \in Semaphores(Writers) /\ WellFormed(u)
      /\ \/ Sleepers(s) = {} /\ Sleepers(u) = {} /\ Held(u, {}, {})
         \/ \E h \in Sleepers(s) : Sleepers(u) = Sleepers(s) \ {h} /\ Held(u, {h}, {})
  BY <1>1, <1>2, UpHeld DEF IInv, TypeOK, SleepersPlaced, WriterMutexHeld
<1> HIDE DEF u
<1>4. TypeOK'
  BY <1>1, <1>3 DEF TypeOK, WriterLabels, ReaderLabels, Threads
<1>5. SleepersPlaced'
  BY <1>1, <1>3 DEF TypeOK, SleepersPlaced, Threads
<1>6. WriterMutexHeld'
  <2>1. CASE Sleepers(s) = {} /\ Sleepers(u) = {} /\ Held(u, {}, {})
    <3>1. WriterMutexHolders' = {}
      BY <1>1, <1>2, <2>1 DEF TypeOK, WriterMutexHolders, Threads
    <3> QED  BY <1>1, <2>1, <3>1 DEF WriterMutexHeld
  <2>2. ASSUME NEW h \in Sleepers(s), Sleepers(u) = Sleepers(s) \ {h}, Held(u, {h}, {})
        PROVE  WriterMutexHeld'
    <3>1. h \in Writers /\ pc[h] \in {"enterCount", "leaveCount"} /\ h # w
      BY <1>1, <2>2 DEF SleepersPlaced
    <3>2. WriterMutexHolders' = {h}
      BY <1>1, <1>2, <2>2, <3>1 DEF TypeOK, WriterMutexHolders, Threads
    <3> QED  BY <1>1, <2>2, <3>2 DEF WriterMutexHeld
  <2> QED  BY <1>3, <2>1, <2>2
<1>7. /\ CountedWriters' = CountedWriters /\ FirstWriters' = FirstWriters /\ LastWriters' = LastWriters
      /\ CountedReaders' = CountedReaders /\ FirstReaders' = FirstReaders /\ LastReaders' = LastReaders
      /\ PassingReaders' = PassingReaders /\ WriterHolders' = WriterHolders
      /\ ReaderMutexHolders' = ReaderMutexHolders
  BY <1>1 DEF TypeOK, CountedWriters, FirstWriters, LastWriters, CountedReaders, FirstReaders,
     LastReaders, PassingReaders, WriterHolders, ReaderMutexHolders, Threads
<1> QED  BY <1>1, <1>4, <1>5, <1>6, <1>7 DEF IInv, ReaderMutexHeld, WritersCounted,
         ReadersCounted, ReaderHeld, WriterHeld

(* down(&SemaphoreReaderMutex) of an entering or a leaving reader (310,    *)
(* 382).                                                                   *)
LEMMA DownReaderMutexInv ==
  ASSUME IInv, NEW r \in Readers, ReaderEnter_DownMutex(r) \/ ReaderLeave_DownMutex(r)
  PROVE  IInv'
<1> DEFINE s == SemaphoreReaderMutex
           d == Down(s, r)
<1>1. /\ TypeOK /\ SleepersPlaced
      /\ \/ pc[r] = "enterDownMutex" /\ pc' = [pc EXCEPT ![r] = "enterCount"]
         \/ pc[r] = "reading" /\ pc' = [pc EXCEPT ![r] = "leaveCount"]
      /\ r \in Threads /\ r \notin Writers
      /\ r \notin Sleepers(s) /\ r \notin Sleepers(SemaphoreReader) /\ r \notin Sleepers(SemaphoreWriter)
      /\ s' = d
      /\ UNCHANGED <<SemaphoreWriterMutex, SemaphoreWriter, SemaphoreReader, WriterCount, ReaderCount>>
  BY ThreadsAssumption DEF IInv, ReaderEnter_DownMutex, ReaderLeave_DownMutex, DownReaderMutex,
     OnReaderMutex, Moves, Awake, counts, Threads
<1>2. /\ d \in Semaphores(Readers) /\ WellFormed(d)
      /\ \/ ReaderMutexHolders = {} /\ Sleepers(s) = {} /\ Sleepers(d) = {} /\ Held(d, {r}, {})
         \/ Sleepers(d) = Sleepers(s) \cup {r} /\ Held(d, ReaderMutexHolders, {})
  BY <1>1, DownHeld DEF IInv, TypeOK, SleepersPlaced, ReaderMutexHeld
<1> HIDE DEF d
<1>3. TypeOK'
  BY <1>1, <1>2 DEF TypeOK, WriterLabels, ReaderLabels, Threads
<1>4. SleepersPlaced'
  BY <1>1, <1>2 DEF TypeOK, SleepersPlaced, Threads
<1>5. ReaderMutexHeld'
  <2>1. \/ ReaderMutexHolders' = {r} /\ Held(d, {r}, {})
        \/ ReaderMutexHolders' = ReaderMutexHolders /\ Held(d, ReaderMutexHolders, {})
    BY <1>1, <1>2 DEF TypeOK, ReaderMutexHolders, Threads
  <2> QED  BY <1>1, <2>1 DEF ReaderMutexHeld
<1>6. /\ CountedWriters' = CountedWriters /\ FirstWriters' = FirstWriters /\ LastWriters' = LastWriters
      /\ CountedReaders' = CountedReaders /\ FirstReaders' = FirstReaders /\ LastReaders' = LastReaders
      /\ PassingReaders' = PassingReaders /\ WriterHolders' = WriterHolders
      /\ WriterMutexHolders' = WriterMutexHolders
  BY <1>1 DEF TypeOK, CountedWriters, FirstWriters, LastWriters, CountedReaders, FirstReaders,
     LastReaders, PassingReaders, WriterHolders, WriterMutexHolders, Threads
<1> QED  BY <1>1, <1>3, <1>4, <1>5, <1>6 DEF IInv, WriterMutexHeld, WritersCounted,
         ReadersCounted, ReaderHeld, WriterHeld

(* up(&SemaphoreReaderMutex) of an entering or a leaving reader (316, 388).*)
LEMMA UpReaderMutexInv ==
  ASSUME IInv, NEW r \in Readers, ReaderEnter_UpMutex(r) \/ ReaderLeave_UpMutex(r)
  PROVE  IInv'
<1> DEFINE s == SemaphoreReaderMutex
           u == Up(s)
<1>1. /\ TypeOK /\ SleepersPlaced
      /\ \/ pc[r] = "enterUpMutex" /\ pc' = [pc EXCEPT ![r] = "reading"]
         \/ pc[r] = "leaveUpMutex" /\ pc' = [pc EXCEPT ![r] = "idle"]
      /\ r \in Threads /\ r \notin Writers
      /\ r \notin Sleepers(s) /\ r \notin Sleepers(SemaphoreReader) /\ r \notin Sleepers(SemaphoreWriter)
      /\ s' = u
      /\ UNCHANGED <<SemaphoreWriterMutex, SemaphoreWriter, SemaphoreReader, WriterCount, ReaderCount>>
  BY ThreadsAssumption DEF IInv, ReaderEnter_UpMutex, ReaderLeave_UpMutex, UpReaderMutex,
     OnReaderMutex, Moves, Awake, counts, Threads
<1>2. ReaderMutexHolders = {r}
  BY <1>1, ReaderAlone DEF ReaderMutexHolders
<1>3. /\ u \in Semaphores(Readers) /\ WellFormed(u)
      /\ \/ Sleepers(s) = {} /\ Sleepers(u) = {} /\ Held(u, {}, {})
         \/ \E h \in Sleepers(s) : Sleepers(u) = Sleepers(s) \ {h} /\ Held(u, {h}, {})
  BY <1>1, <1>2, UpHeld DEF IInv, TypeOK, SleepersPlaced, ReaderMutexHeld
<1> HIDE DEF u
<1>4. TypeOK'
  BY <1>1, <1>3 DEF TypeOK, WriterLabels, ReaderLabels, Threads
<1>5. SleepersPlaced'
  BY <1>1, <1>3 DEF TypeOK, SleepersPlaced, Threads
<1>6. ReaderMutexHeld'
  <2>1. CASE Sleepers(s) = {} /\ Sleepers(u) = {} /\ Held(u, {}, {})
    <3>1. ReaderMutexHolders' = {}
      BY <1>1, <1>2, <2>1 DEF TypeOK, ReaderMutexHolders, Threads
    <3> QED  BY <1>1, <2>1, <3>1 DEF ReaderMutexHeld
  <2>2. ASSUME NEW h \in Sleepers(s), Sleepers(u) = Sleepers(s) \ {h}, Held(u, {h}, {})
        PROVE  ReaderMutexHeld'
    <3>1. h \in Readers /\ pc[h] \in {"enterCount", "leaveCount"} /\ h # r
      BY <1>1, <2>2 DEF SleepersPlaced
    <3>2. ReaderMutexHolders' = {h}
      BY <1>1, <1>2, <2>2, <3>1 DEF TypeOK, ReaderMutexHolders, Threads
    <3> QED  BY <1>1, <2>2, <3>2 DEF ReaderMutexHeld
  <2> QED  BY <1>3, <2>1, <2>2
<1>7. /\ CountedWriters' = CountedWriters /\ FirstWriters' = FirstWriters /\ LastWriters' = LastWriters
      /\ CountedReaders' = CountedReaders /\ FirstReaders' = FirstReaders /\ LastReaders' = LastReaders
      /\ PassingReaders' = PassingReaders /\ WriterHolders' = WriterHolders
      /\ WriterMutexHolders' = WriterMutexHolders
  BY <1>1 DEF TypeOK, CountedWriters, FirstWriters, LastWriters, CountedReaders, FirstReaders,
     LastReaders, PassingReaders, WriterHolders, WriterMutexHolders, Threads
<1> QED  BY <1>1, <1>4, <1>5, <1>6, <1>7 DEF IInv, WriterMutexHeld, WritersCounted,
         ReadersCounted, ReaderHeld, WriterHeld

(* WriterCount++ (271-272): the first writer goes on to the turnstile.     *)
LEMMA WriterEnter_CountInv ==
  ASSUME IInv, NEW w \in Writers, WriterEnter_Count(w)
  PROVE  IInv'
<1> DEFINE to == IF FirstWriter(WriterCount + 1) THEN "enterDownReader" ELSE "enterUpMutex"
<1>1. /\ TypeOK /\ SleepersPlaced
      /\ pc[w] = "enterCount" /\ pc' = [pc EXCEPT ![w] = to]
      /\ to \in {"enterDownReader", "enterUpMutex"}
      /\ w \in Threads /\ w \notin Readers
      /\ w \notin Sleepers(SemaphoreWriterMutex)
      /\ w \notin Sleepers(SemaphoreReader) /\ w \notin Sleepers(SemaphoreWriter)
      /\ WriterCount' = WriterCount + 1 /\ WriterCount \in Nat
      /\ UNCHANGED <<SemaphoreWriterMutex, SemaphoreReaderMutex, SemaphoreWriter, SemaphoreReader, ReaderCount>>
  BY ThreadsAssumption DEF IInv, TypeOK, WriterEnter_Count, Moves, Awake, semaphores, Threads
<1>2. to = "enterDownReader" <=> WriterCount = 0
  BY <1>1 DEF FirstWriter
<1> HIDE DEF to
<1>3. TypeOK'
  BY <1>1 DEF TypeOK, WriterLabels, ReaderLabels, Threads
<1>4. SleepersPlaced'
  BY <1>1 DEF TypeOK, SleepersPlaced, Threads
<1>5. FirstWriters = {} /\ LastWriters = {}
  <2>1. w \in WriterMutexHolders /\ w \notin FirstWriters /\ w \notin LastWriters
    BY <1>1 DEF WriterMutexHolders, FirstWriters, LastWriters
  <2> QED  BY <2>1, WriterAlone
<1>6. /\ CountedWriters' = CountedWriters \cup {w} /\ w \notin CountedWriters
      /\ FirstWriters' = (IF WriterCount = 0 THEN {w} ELSE {}) /\ LastWriters' = {}
  <2>1. CountedWriters' = CountedWriters \cup {w} /\ w \notin CountedWriters
    BY <1>1 DEF TypeOK, CountedWriters, Threads
  <2>2. LastWriters' = {}
    BY <1>1, <1>5 DEF TypeOK, LastWriters, Threads
  <2>3. FirstWriters' = (IF WriterCount = 0 THEN {w} ELSE {})
    BY <1>1, <1>2, <1>5 DEF TypeOK, FirstWriters, Threads
  <2> QED  BY <2>1, <2>2, <2>3
<1>7. IsFiniteSet(CountedWriters)
  <2>1. CountedWriters \subseteq Writers
    BY DEF CountedWriters
  <2> QED  BY <2>1, FS_Subset, ThreadsAssumption
<1>8. /\ WritersCounted'
      /\ Sharing(CountedWriters, FirstWriters, LastWriters) = {}
           <=> Sharing(CountedWriters, FirstWriters, LastWriters)' = {}
  <2>1. Counted(WriterCount, CountedWriters, {}, {})
    BY <1>5 DEF IInv, WritersCounted
  <2>2. /\ Counted(WriterCount + 1, CountedWriters \cup {w}, FirstWriters', {})
        /\ Sharing(CountedWriters, {}, {}) = {} <=> Sharing(CountedWriters \cup {w}, FirstWriters', {}) = {}
    BY <1>1, <1>6, <1>7, <2>1, CountIn
  <2> QED  BY <1>1, <1>5, <1>6, <2>2 DEF WritersCounted
<1>9. /\ CountedReaders' = CountedReaders /\ FirstReaders' = FirstReaders /\ LastReaders' = LastReaders
      /\ PassingReaders' = PassingReaders /\ WriterHolders' = WriterHolders
      /\ WriterMutexHolders' = WriterMutexHolders /\ ReaderMutexHolders' = ReaderMutexHolders
  BY <1>1 DEF TypeOK, CountedReaders, FirstReaders, LastReaders, PassingReaders, WriterHolders,
     WriterMutexHolders, ReaderMutexHolders, Threads
<1>10. ReaderHeld'
  BY <1>1, <1>8, <1>9, SameHolders DEF IInv, ReaderHeld
<1> QED  BY <1>1, <1>3, <1>4, <1>8, <1>9, <1>10 DEF IInv, WriterMutexHeld, ReaderMutexHeld,
         ReadersCounted, WriterHeld

(* WriterCount-- (342-343): the last writer goes on to open the turnstile. *)
LEMMA WriterLeave_CountInv ==
  ASSUME IInv, NEW w \in Writers, WriterLeave_Count(w)
  PROVE  IInv'
<1> DEFINE to == IF LastWriter(WriterCount - 1) THEN "leaveUpReader" ELSE "leaveUpMutex"
<1>1. /\ TypeOK /\ SleepersPlaced
      /\ pc[w] = "leaveCount" /\ pc' = [pc EXCEPT ![w] = to]
      /\ to \in {"leaveUpReader", "leaveUpMutex"}
      /\ w \in Threads /\ w \notin Readers
      /\ w \notin Sleepers(SemaphoreWriterMutex)
      /\ w \notin Sleepers(SemaphoreReader) /\ w \notin Sleepers(SemaphoreWriter)
      /\ WriterCount' = WriterCount - 1 /\ WriterCount \in Nat
      /\ UNCHANGED <<SemaphoreWriterMutex, SemaphoreReaderMutex, SemaphoreWriter, SemaphoreReader, ReaderCount>>
  BY ThreadsAssumption DEF IInv, TypeOK, WriterLeave_Count, Moves, Awake, semaphores, Threads
<1>2. to = "leaveUpReader" <=> WriterCount - 1 = 0
  BY <1>1 DEF LastWriter
<1> HIDE DEF to
<1>3. FirstWriters = {} /\ LastWriters = {}
  <2>1. w \in WriterMutexHolders /\ w \notin FirstWriters /\ w \notin LastWriters
    BY <1>1 DEF WriterMutexHolders, FirstWriters, LastWriters
  <2> QED  BY <2>1, WriterAlone
<1>4. /\ CountedWriters' = CountedWriters \ {w} /\ w \in CountedWriters
      /\ LastWriters' = (IF WriterCount - 1 = 0 THEN {w} ELSE {}) /\ FirstWriters' = {}
  <2>1. CountedWriters' = CountedWriters \ {w} /\ w \in CountedWriters
    BY <1>1 DEF TypeOK, CountedWriters, Threads
  <2>2. FirstWriters' = {}
    BY <1>1, <1>3 DEF TypeOK, FirstWriters, Threads
  <2>3. LastWriters' = (IF WriterCount - 1 = 0 THEN {w} ELSE {})
    BY <1>1, <1>2, <1>3 DEF TypeOK, LastWriters, Threads
  <2> QED  BY <2>1, <2>2, <2>3
<1>5. IsFiniteSet(CountedWriters)
  <2>1. CountedWriters \subseteq Writers
    BY DEF CountedWriters
  <2> QED  BY <2>1, FS_Subset, ThreadsAssumption
<1>6. /\ WritersCounted' /\ WriterCount' \in Nat
      /\ Sharing(CountedWriters, FirstWriters, LastWriters) # {}
      /\ Sharing(CountedWriters, FirstWriters, LastWriters)' # {}
  <2>1. Counted(WriterCount, CountedWriters, {}, {})
    BY <1>3 DEF IInv, WritersCounted
  <2>2. /\ Counted(WriterCount - 1, CountedWriters \ {w}, {}, LastWriters') /\ WriterCount - 1 \in Nat
        /\ Sharing(CountedWriters, {}, {}) # {} /\ Sharing(CountedWriters \ {w}, {}, LastWriters') # {}
    BY <1>1, <1>4, <1>5, <2>1, CountOut
  <2> QED  BY <1>1, <1>3, <1>4, <2>2 DEF WritersCounted
<1>7. TypeOK'
  BY <1>1, <1>6 DEF TypeOK, WriterLabels, ReaderLabels, Threads
<1>8. SleepersPlaced'
  BY <1>1 DEF TypeOK, SleepersPlaced, Threads
<1>9. /\ CountedReaders' = CountedReaders /\ FirstReaders' = FirstReaders /\ LastReaders' = LastReaders
      /\ PassingReaders' = PassingReaders /\ WriterHolders' = WriterHolders
      /\ WriterMutexHolders' = WriterMutexHolders /\ ReaderMutexHolders' = ReaderMutexHolders
  BY <1>1 DEF TypeOK, CountedReaders, FirstReaders, LastReaders, PassingReaders, WriterHolders,
     WriterMutexHolders, ReaderMutexHolders, Threads
<1>10. ReaderHeld'
  BY <1>1, <1>6, <1>9, SameHolders DEF IInv, ReaderHeld
<1> QED  BY <1>1, <1>6, <1>7, <1>8, <1>9, <1>10 DEF IInv, WriterMutexHeld, ReaderMutexHeld,
         ReadersCounted, WriterHeld

(* ReaderCount++ (311-312): the first reader goes on to SemaphoreWriter.   *)
LEMMA ReaderEnter_CountInv ==
  ASSUME IInv, NEW r \in Readers, ReaderEnter_Count(r)
  PROVE  IInv'
<1> DEFINE to == IF FirstReader(ReaderCount + 1) THEN "enterDownWriter" ELSE "enterUpMutex"
<1>1. /\ TypeOK /\ SleepersPlaced
      /\ pc[r] = "enterCount" /\ pc' = [pc EXCEPT ![r] = to]
      /\ to \in {"enterDownWriter", "enterUpMutex"}
      /\ r \in Threads /\ r \notin Writers
      /\ r \notin Sleepers(SemaphoreReaderMutex)
      /\ r \notin Sleepers(SemaphoreReader) /\ r \notin Sleepers(SemaphoreWriter)
      /\ ReaderCount' = ReaderCount + 1 /\ ReaderCount \in Nat
      /\ UNCHANGED <<SemaphoreWriterMutex, SemaphoreReaderMutex, SemaphoreWriter, SemaphoreReader, WriterCount>>
  BY ThreadsAssumption DEF IInv, TypeOK, ReaderEnter_Count, Moves, Awake, semaphores, Threads
<1>2. to = "enterDownWriter" <=> ReaderCount = 0
  BY <1>1 DEF FirstReader
<1> HIDE DEF to
<1>3. TypeOK'
  BY <1>1 DEF TypeOK, WriterLabels, ReaderLabels, Threads
<1>4. SleepersPlaced'
  BY <1>1 DEF TypeOK, SleepersPlaced, Threads
<1>5. FirstReaders = {} /\ LastReaders = {}
  <2>1. r \in ReaderMutexHolders /\ r \notin FirstReaders /\ r \notin LastReaders
    BY <1>1 DEF ReaderMutexHolders, FirstReaders, LastReaders
  <2> QED  BY <2>1, ReaderAlone
<1>6. /\ CountedReaders' = CountedReaders \cup {r} /\ r \notin CountedReaders
      /\ FirstReaders' = (IF ReaderCount = 0 THEN {r} ELSE {}) /\ LastReaders' = {}
  <2>1. CountedReaders' = CountedReaders \cup {r} /\ r \notin CountedReaders
    BY <1>1 DEF TypeOK, CountedReaders, Threads
  <2>2. LastReaders' = {}
    BY <1>1, <1>5 DEF TypeOK, LastReaders, Threads
  <2>3. FirstReaders' = (IF ReaderCount = 0 THEN {r} ELSE {})
    BY <1>1, <1>2, <1>5 DEF TypeOK, FirstReaders, Threads
  <2> QED  BY <2>1, <2>2, <2>3
<1>7. IsFiniteSet(CountedReaders)
  <2>1. CountedReaders \subseteq Readers
    BY DEF CountedReaders
  <2> QED  BY <2>1, FS_Subset, ThreadsAssumption
<1>8. /\ ReadersCounted'
      /\ Sharing(CountedReaders, FirstReaders, LastReaders) = {}
           <=> Sharing(CountedReaders, FirstReaders, LastReaders)' = {}
  <2>1. Counted(ReaderCount, CountedReaders, {}, {})
    BY <1>5 DEF IInv, ReadersCounted
  <2>2. /\ Counted(ReaderCount + 1, CountedReaders \cup {r}, FirstReaders', {})
        /\ Sharing(CountedReaders, {}, {}) = {} <=> Sharing(CountedReaders \cup {r}, FirstReaders', {}) = {}
    BY <1>1, <1>6, <1>7, <2>1, CountIn
  <2> QED  BY <1>1, <1>5, <1>6, <2>2 DEF ReadersCounted
<1>9. /\ CountedWriters' = CountedWriters /\ FirstWriters' = FirstWriters /\ LastWriters' = LastWriters
      /\ PassingReaders' = PassingReaders /\ WriterHolders' = WriterHolders
      /\ WriterMutexHolders' = WriterMutexHolders /\ ReaderMutexHolders' = ReaderMutexHolders
  BY <1>1 DEF TypeOK, CountedWriters, FirstWriters, LastWriters, PassingReaders, WriterHolders,
     WriterMutexHolders, ReaderMutexHolders, Threads
<1>10. WriterHeld'
  BY <1>1, <1>8, <1>9, SameHolders DEF IInv, WriterHeld
<1> QED  BY <1>1, <1>3, <1>4, <1>8, <1>9, <1>10 DEF IInv, WriterMutexHeld, ReaderMutexHeld,
         WritersCounted, ReaderHeld

(* ReaderCount-- (383-384): the last reader goes on to give SemaphoreWriter*)
(* back.                                                                   *)
LEMMA ReaderLeave_CountInv ==
  ASSUME IInv, NEW r \in Readers, ReaderLeave_Count(r)
  PROVE  IInv'
<1> DEFINE to == IF LastReader(ReaderCount - 1) THEN "leaveUpWriter" ELSE "leaveUpMutex"
<1>1. /\ TypeOK /\ SleepersPlaced
      /\ pc[r] = "leaveCount" /\ pc' = [pc EXCEPT ![r] = to]
      /\ to \in {"leaveUpWriter", "leaveUpMutex"}
      /\ r \in Threads /\ r \notin Writers
      /\ r \notin Sleepers(SemaphoreReaderMutex)
      /\ r \notin Sleepers(SemaphoreReader) /\ r \notin Sleepers(SemaphoreWriter)
      /\ ReaderCount' = ReaderCount - 1 /\ ReaderCount \in Nat
      /\ UNCHANGED <<SemaphoreWriterMutex, SemaphoreReaderMutex, SemaphoreWriter, SemaphoreReader, WriterCount>>
  BY ThreadsAssumption DEF IInv, TypeOK, ReaderLeave_Count, Moves, Awake, semaphores, Threads
<1>2. to = "leaveUpWriter" <=> ReaderCount - 1 = 0
  BY <1>1 DEF LastReader
<1> HIDE DEF to
<1>3. FirstReaders = {} /\ LastReaders = {}
  <2>1. r \in ReaderMutexHolders /\ r \notin FirstReaders /\ r \notin LastReaders
    BY <1>1 DEF ReaderMutexHolders, FirstReaders, LastReaders
  <2> QED  BY <2>1, ReaderAlone
<1>4. /\ CountedReaders' = CountedReaders \ {r} /\ r \in CountedReaders
      /\ LastReaders' = (IF ReaderCount - 1 = 0 THEN {r} ELSE {}) /\ FirstReaders' = {}
  <2>1. CountedReaders' = CountedReaders \ {r} /\ r \in CountedReaders
    BY <1>1 DEF TypeOK, CountedReaders, Threads
  <2>2. FirstReaders' = {}
    BY <1>1, <1>3 DEF TypeOK, FirstReaders, Threads
  <2>3. LastReaders' = (IF ReaderCount - 1 = 0 THEN {r} ELSE {})
    BY <1>1, <1>2, <1>3 DEF TypeOK, LastReaders, Threads
  <2> QED  BY <2>1, <2>2, <2>3
<1>5. IsFiniteSet(CountedReaders)
  <2>1. CountedReaders \subseteq Readers
    BY DEF CountedReaders
  <2> QED  BY <2>1, FS_Subset, ThreadsAssumption
<1>6. /\ ReadersCounted' /\ ReaderCount' \in Nat
      /\ Sharing(CountedReaders, FirstReaders, LastReaders) # {}
      /\ Sharing(CountedReaders, FirstReaders, LastReaders)' # {}
  <2>1. Counted(ReaderCount, CountedReaders, {}, {})
    BY <1>3 DEF IInv, ReadersCounted
  <2>2. /\ Counted(ReaderCount - 1, CountedReaders \ {r}, {}, LastReaders') /\ ReaderCount - 1 \in Nat
        /\ Sharing(CountedReaders, {}, {}) # {} /\ Sharing(CountedReaders \ {r}, {}, LastReaders') # {}
    BY <1>1, <1>4, <1>5, <2>1, CountOut
  <2> QED  BY <1>1, <1>3, <1>4, <2>2 DEF ReadersCounted
<1>7. TypeOK'
  BY <1>1, <1>6 DEF TypeOK, WriterLabels, ReaderLabels, Threads
<1>8. SleepersPlaced'
  BY <1>1 DEF TypeOK, SleepersPlaced, Threads
<1>9. /\ CountedWriters' = CountedWriters /\ FirstWriters' = FirstWriters /\ LastWriters' = LastWriters
      /\ PassingReaders' = PassingReaders /\ WriterHolders' = WriterHolders
      /\ WriterMutexHolders' = WriterMutexHolders /\ ReaderMutexHolders' = ReaderMutexHolders
  BY <1>1 DEF TypeOK, CountedWriters, FirstWriters, LastWriters, PassingReaders, WriterHolders,
     WriterMutexHolders, ReaderMutexHolders, Threads
<1>10. WriterHeld'
  BY <1>1, <1>6, <1>9, SameHolders DEF IInv, WriterHeld
<1> QED  BY <1>1, <1>6, <1>7, <1>8, <1>9, <1>10 DEF IInv, WriterMutexHeld, ReaderMutexHeld,
         WritersCounted, ReaderHeld

(* down(&SemaphoreReader) of the first writer, SemaphoreWriterMutex still  *)
(* held (274): with it the writers have the turnstile, or the first of     *)
(* them sleeps.                                                            *)
LEMMA WriterEnter_DownReaderInv ==
  ASSUME IInv, NEW w \in Writers, WriterEnter_DownReader(w)
  PROVE  IInv'
<1> DEFINE s == SemaphoreReader
           d == Down(s, w)
<1>1. /\ TypeOK /\ SleepersPlaced
      /\ pc[w] = "enterDownReader" /\ pc' = [pc EXCEPT ![w] = "enterUpMutex"]
      /\ w \in Threads /\ w \notin Readers
      /\ w \notin Sleepers(SemaphoreWriterMutex) /\ w \notin Sleepers(s) /\ w \notin Sleepers(SemaphoreWriter)
      /\ s' = d
      /\ UNCHANGED <<SemaphoreWriterMutex, SemaphoreReaderMutex, SemaphoreWriter, WriterCount, ReaderCount>>
  BY ThreadsAssumption DEF IInv, WriterEnter_DownReader, DownReader, OnReader, Moves, Awake, counts, Threads
<1>2. /\ FirstWriters = {w} /\ LastWriters = {} /\ CountedWriters = {w}
      /\ Sharing(CountedWriters, FirstWriters, LastWriters) = {}
  <2>1. w \in WriterMutexHolders /\ w \in FirstWriters /\ w \notin LastWriters
    BY <1>1 DEF WriterMutexHolders, FirstWriters, LastWriters
  <2>2. FirstWriters = {w} /\ LastWriters = {}
    BY <2>1, WriterAlone
  <2>3. CountedWriters = {w}
    BY <2>2 DEF IInv, WritersCounted, Counted
  <2> QED  BY <2>2, <2>3 DEF Sharing
<1>3. /\ d \in Semaphores(Threads) /\ WellFormed(d)
      /\ \/ PassingReaders = {} /\ Sleepers(s) = {} /\ Sleepers(d) = {} /\ Held(d, {}, {w})
         \/ Sleepers(d) = Sleepers(s) \cup {w} /\ Held(d, PassingReaders, {})
  <2>1. Held(s, PassingReaders, {}) /\ s \in Semaphores(Threads) /\ WellFormed(s)
    BY <1>1, <1>2 DEF IInv, TypeOK, SleepersPlaced, ReaderHeld
  <2> QED  BY <1>1, <2>1, DownHeld
<1> HIDE DEF d
<1>4. TypeOK'
  BY <1>1, <1>3 DEF TypeOK, WriterLabels, ReaderLabels, Threads
<1>5. SleepersPlaced'
  BY <1>1, <1>3 DEF TypeOK, SleepersPlaced, Threads
<1>6. CountedWriters' = CountedWriters /\ LastWriters' = LastWriters /\ PassingReaders' = PassingReaders
  BY <1>1, <1>3 DEF TypeOK, CountedWriters, LastWriters, PassingReaders, Threads
<1>7. ReaderHeld' /\ FirstWriters' \subseteq {w}
  <2>1. CASE PassingReaders = {} /\ Sleepers(s) = {} /\ Sleepers(d) = {} /\ Held(d, {}, {w})
    <3>1. FirstWriters' = {}
      BY <1>1, <1>2, <2>1 DEF TypeOK, FirstWriters, Threads
    <3>2. Sharing(CountedWriters, FirstWriters, LastWriters)' = {w}
      BY <1>2, <1>6, <3>1 DEF Sharing
    <3> QED  BY <1>1, <1>6, <2>1, <3>1, <3>2 DEF ReaderHeld
  <2>2. CASE Sleepers(d) = Sleepers(s) \cup {w} /\ Held(d, PassingReaders, {})
    <3>1. FirstWriters' = {w}
      BY <1>1, <1>2, <2>2 DEF TypeOK, FirstWriters, Threads
    <3>2. Sharing(CountedWriters, FirstWriters, LastWriters)' = {}
      BY <1>2, <1>6, <3>1 DEF Sharing
    <3> QED  BY <1>1, <1>6, <2>2, <3>1, <3>2 DEF ReaderHeld
  <2> QED  BY <1>3, <2>1, <2>2
<1>8. WritersCounted'
  BY <1>1, <1>2, <1>6, <1>7 DEF IInv, WritersCounted, Counted
<1>9. /\ CountedReaders' = CountedReaders /\ FirstReaders' = FirstReaders /\ LastReaders' = LastReaders
      /\ WriterHolders' = WriterHolders
      /\ WriterMutexHolders' = WriterMutexHolders /\ ReaderMutexHolders' = ReaderMutexHolders
  BY <1>1 DEF TypeOK, CountedReaders, FirstReaders, LastReaders, WriterHolders,
     WriterMutexHolders, ReaderMutexHolders, Threads
<1> QED  BY <1>1, <1>4, <1>5, <1>7, <1>8, <1>9 DEF IInv, WriterMutexHeld, ReaderMutexHeld,
         ReadersCounted, WriterHeld

(* up(&SemaphoreReader) of the last writer (345): only readers can be      *)
(* asleep on it, and the one it wakes is in the turnstile.                 *)
LEMMA WriterLeave_UpReaderInv ==
  ASSUME IInv, NEW w \in Writers, WriterLeave_UpReader(w)
  PROVE  IInv'
<1> DEFINE s == SemaphoreReader
           u == Up(s)
<1>1. /\ TypeOK /\ SleepersPlaced
      /\ pc[w] = "leaveUpReader" /\ pc' = [pc EXCEPT ![w] = "leaveUpMutex"]
      /\ w \in Threads /\ w \notin Readers
      /\ w \notin Sleepers(SemaphoreWriterMutex) /\ w \notin Sleepers(s) /\ w \notin Sleepers(SemaphoreWriter)
      /\ s' = u
      /\ UNCHANGED <<SemaphoreWriterMutex, SemaphoreReaderMutex, SemaphoreWriter, WriterCount, ReaderCount>>
  BY ThreadsAssumption DEF IInv, WriterLeave_UpReader, UpReader, OnReader, Moves, Awake, counts, Threads
<1>2. /\ FirstWriters = {} /\ LastWriters = {w} /\ CountedWriters = {}
      /\ Sharing(CountedWriters, FirstWriters, LastWriters) # {} /\ PassingReaders = {}
  <2>1. w \in WriterMutexHolders /\ w \notin FirstWriters /\ w \in LastWriters
    BY <1>1 DEF WriterMutexHolders, FirstWriters, LastWriters
  <2>2. FirstWriters = {} /\ LastWriters = {w}
    BY <2>1, WriterAlone
  <2>3. CountedWriters = {}
    BY <2>2 DEF IInv, WritersCounted, Counted
  <2>4. Sharing(CountedWriters, FirstWriters, LastWriters) # {}
    BY <2>2 DEF Sharing
  <2> QED  BY <2>2, <2>3, <2>4 DEF IInv, ReaderHeld, Held
<1>3. /\ u \in Semaphores(Threads) /\ WellFormed(u)
      /\ \/ Sleepers(s) = {} /\ Sleepers(u) = {} /\ Held(u, {}, {})
         \/ \E h \in Sleepers(s) : Sleepers(u) = Sleepers(s) \ {h} /\ Held(u, {h}, {})
  BY <1>1, <1>2, UpHeld DEF IInv, TypeOK, SleepersPlaced, ReaderHeld
<1> HIDE DEF u
<1>4. TypeOK'
  BY <1>1, <1>3 DEF TypeOK, WriterLabels, ReaderLabels, Threads
<1>5. SleepersPlaced'
  BY <1>1, <1>3 DEF TypeOK, SleepersPlaced, Threads
<1>6. /\ CountedWriters' = {} /\ LastWriters' = {} /\ FirstWriters' = {}
      /\ Sharing(CountedWriters, FirstWriters, LastWriters)' = {}
  <2>1. CountedWriters' = {} /\ LastWriters' = {}
    BY <1>1, <1>2 DEF TypeOK, CountedWriters, LastWriters, Threads
  <2>2. FirstWriters' = {}
    BY <1>1, <1>2, <1>3 DEF TypeOK, FirstWriters, Threads
  <2> QED  BY <2>1, <2>2 DEF Sharing
<1>7. ReaderHeld'
  <2>1. CASE Sleepers(s) = {} /\ Sleepers(u) = {} /\ Held(u, {}, {})
    <3>1. PassingReaders' = {}
      BY <1>1, <1>2, <2>1 DEF TypeOK, PassingReaders, Threads
    <3> QED  BY <1>1, <1>6, <2>1, <3>1 DEF ReaderHeld
  <2>2. ASSUME NEW h \in Sleepers(s), Sleepers(u) = Sleepers(s) \ {h}, Held(u, {h}, {})
        PROVE  ReaderHeld'
    <3>1. h \in Readers /\ pc[h] = "enterUpReader" /\ h # w
      BY <1>1, <1>2, <2>2 DEF SleepersPlaced, FirstWriters
    <3>2. PassingReaders' = {h}
      BY <1>1, <1>2, <2>2, <3>1 DEF TypeOK, PassingReaders, Threads
    <3> QED  BY <1>1, <1>6, <2>2, <3>2 DEF ReaderHeld
  <2> QED  BY <1>3, <2>1, <2>2
<1>8. WritersCounted'
  BY <1>1, <1>2, <1>6 DEF IInv, WritersCounted, Counted
<1>9. /\ CountedReaders' = CountedReaders /\ FirstReaders' = FirstReaders /\ LastReaders' = LastReaders
      /\ WriterHolders' = WriterHolders
      /\ WriterMutexHolders' = WriterMutexHolders /\ ReaderMutexHolders' = ReaderMutexHolders
  BY <1>1 DEF TypeOK, CountedReaders, FirstReaders, LastReaders, WriterHolders,
     WriterMutexHolders, ReaderMutexHolders, Threads
<1> QED  BY <1>1, <1>4, <1>5, <1>7, <1>8, <1>9 DEF IInv, WriterMutexHeld, ReaderMutexHeld,
         ReadersCounted, WriterHeld

(* down(&SemaphoreReader) of a reader (308): it is in the turnstile, or    *)
(* sleeps.                                                                 *)
LEMMA ReaderEnter_DownReaderInv ==
  ASSUME IInv, NEW r \in Readers, ReaderEnter_DownReader(r)
  PROVE  IInv'
<1> DEFINE s == SemaphoreReader
           d == Down(s, r)
<1>1. /\ TypeOK /\ SleepersPlaced
      /\ pc[r] = "idle" /\ pc' = [pc EXCEPT ![r] = "enterUpReader"]
      /\ r \in Threads /\ r \notin Writers
      /\ r \notin Sleepers(SemaphoreReaderMutex) /\ r \notin Sleepers(s) /\ r \notin Sleepers(SemaphoreWriter)
      /\ s' = d
      /\ UNCHANGED <<SemaphoreWriterMutex, SemaphoreReaderMutex, SemaphoreWriter, WriterCount, ReaderCount>>
  BY ThreadsAssumption DEF IInv, ReaderEnter_DownReader, DownReader, OnReader, Moves, Awake, counts, Threads
<1> DEFINE share == Sharing(CountedWriters, FirstWriters, LastWriters)
<1>2. /\ d \in Semaphores(Threads) /\ WellFormed(d)
      /\ \/ PassingReaders = {} /\ share = {} /\ Sleepers(s) = {} /\ Sleepers(d) = {} /\ Held(d, {r}, {})
         \/ Sleepers(d) = Sleepers(s) \cup {r} /\ Held(d, PassingReaders, share)
  BY <1>1, DownHeld DEF IInv, TypeOK, SleepersPlaced, ReaderHeld
<1> HIDE DEF d
<1>3. TypeOK'
  BY <1>1, <1>2 DEF TypeOK, WriterLabels, ReaderLabels, Threads
<1>4. SleepersPlaced'
  BY <1>1, <1>2 DEF TypeOK, SleepersPlaced, Threads
<1>5. CountedWriters' = CountedWriters /\ FirstWriters' = FirstWriters /\ LastWriters' = LastWriters
  BY <1>1, <1>2 DEF TypeOK, CountedWriters, FirstWriters, LastWriters, Threads
<1>6. share' = share
  BY <1>5
<1> HIDE DEF share
<1>7. ReaderHeld'
  <2>1. \/ PassingReaders' = {r} /\ share = {} /\ Held(d, {r}, {})
        \/ PassingReaders' = PassingReaders /\ Held(d, PassingReaders, share)
    BY <1>1, <1>2 DEF TypeOK, PassingReaders, Threads
  <2>2. Held(d, PassingReaders', share')
    BY <1>6, <2>1
  <2> QED  BY <1>1, <2>2 DEF ReaderHeld, share
<1>8. WritersCounted'
  BY <1>1, <1>5 DEF IInv, WritersCounted
<1>9. /\ CountedReaders' = CountedReaders /\ FirstReaders' = FirstReaders /\ LastReaders' = LastReaders
      /\ WriterHolders' = WriterHolders
      /\ WriterMutexHolders' = WriterMutexHolders /\ ReaderMutexHolders' = ReaderMutexHolders
  BY <1>1 DEF TypeOK, CountedReaders, FirstReaders, LastReaders, WriterHolders,
     WriterMutexHolders, ReaderMutexHolders, Threads
<1> QED  BY <1>1, <1>3, <1>4, <1>7, <1>8, <1>9 DEF IInv, WriterMutexHeld, ReaderMutexHeld,
         ReadersCounted, WriterHeld

(* up(&SemaphoreReader) of the reader in the turnstile (309): the next     *)
(* reader is in, or the writers have it through the one that sleeps for    *)
(* them.                                                                   *)
LEMMA ReaderEnter_UpReaderInv ==
  ASSUME IInv, NEW r \in Readers, ReaderEnter_UpReader(r)
  PROVE  IInv'
<1> DEFINE s == SemaphoreReader
           u == Up(s)
<1>1. /\ TypeOK /\ SleepersPlaced
      /\ pc[r] = "enterUpReader" /\ pc' = [pc EXCEPT ![r] = "enterDownMutex"]
      /\ r \in Threads /\ r \notin Writers
      /\ r \notin Sleepers(SemaphoreReaderMutex) /\ r \notin Sleepers(s) /\ r \notin Sleepers(SemaphoreWriter)
      /\ s' = u
      /\ UNCHANGED <<SemaphoreWriterMutex, SemaphoreReaderMutex, SemaphoreWriter, WriterCount, ReaderCount>>
  BY ThreadsAssumption DEF IInv, ReaderEnter_UpReader, UpReader, OnReader, Moves, Awake, counts, Threads
<1>2. PassingReaders = {r} /\ Sharing(CountedWriters, FirstWriters, LastWriters) = {}
  <2>1. r \in PassingReaders
    BY <1>1 DEF PassingReaders
  <2> QED  BY <2>1 DEF IInv, ReaderHeld, Held
<1>3. /\ u \in Semaphores(Threads) /\ WellFormed(u)
      /\ \/ Sleepers(s) = {} /\ Sleepers(u) = {} /\ Held(u, {}, {})
         \/ \E h \in Sleepers(s) : /\ Sleepers(u) = Sleepers(s) \ {h}
                                   /\ Held(u, {h}, {}) /\ Held(u, {}, {h})
  BY <1>1, <1>2, UpHeld DEF IInv, TypeOK, SleepersPlaced, ReaderHeld
<1> HIDE DEF u
<1>4. TypeOK'
  BY <1>1, <1>3 DEF TypeOK, WriterLabels, ReaderLabels, Threads
<1>5. SleepersPlaced'
  BY <1>1, <1>3 DEF TypeOK, SleepersPlaced, Threads
<1>6. CountedWriters' = CountedWriters /\ LastWriters' = LastWriters /\ FirstWriters' \subseteq FirstWriters
  BY <1>1, <1>3 DEF TypeOK, CountedWriters, LastWriters, FirstWriters, Threads
<1>7. WritersCounted'
  BY <1>1, <1>6 DEF IInv, WritersCounted, Counted
<1>8. ReaderHeld'
  <2>1. CASE Sleepers(s) = {} /\ Sleepers(u) = {} /\ Held(u, {}, {})
    <3>1. PassingReaders' = {} /\ FirstWriters' = FirstWriters
      BY <1>1, <1>2, <2>1 DEF TypeOK, PassingReaders, FirstWriters, Threads
    <3>2. Sharing(CountedWriters, FirstWriters, LastWriters)' = {}
      BY <1>2, <1>6, <3>1
    <3> QED  BY <1>1, <2>1, <3>1, <3>2 DEF ReaderHeld
  <2>2. ASSUME NEW h \in Sleepers(s), Sleepers(u) = Sleepers(s) \ {h},
               Held(u, {h}, {}), Held(u, {}, {h})
        PROVE  ReaderHeld'
    <3>1. CASE h \in Readers
      <4>1. h \notin Writers /\ pc[h] = "enterUpReader" /\ h # r
        BY <1>1, <2>2, <3>1, ThreadsAssumption DEF SleepersPlaced
      <4>2. PassingReaders' = {h} /\ FirstWriters' = FirstWriters
        BY <1>1, <1>2, <2>2, <3>1, <4>1 DEF TypeOK, PassingReaders, FirstWriters, Threads
      <4>3. Sharing(CountedWriters, FirstWriters, LastWriters)' = {}
        BY <1>2, <1>6, <4>2
      <4> QED  BY <1>1, <2>2, <4>2, <4>3 DEF ReaderHeld
    <3>2. CASE h \in Writers
      <4>1. h \notin Readers /\ pc[h] = "enterUpMutex" /\ h # r /\ h \in FirstWriters
        BY <1>1, <2>2, <3>2, ThreadsAssumption DEF SleepersPlaced, FirstWriters
      <4>2. PassingReaders' = {}
        BY <1>1, <1>2, <2>2, <4>1 DEF TypeOK, PassingReaders, Threads
      <4>3. CountedWriters = {h} /\ FirstWriters = {h} /\ LastWriters = {}
        BY <4>1 DEF IInv, WritersCounted, Counted
      <4>4. FirstWriters' = {}
        BY <1>1, <2>2, <4>1, <4>3 DEF TypeOK, FirstWriters, Threads
      <4>5. Sharing(CountedWriters, FirstWriters, LastWriters)' = {h}
        BY <1>6, <4>3, <4>4 DEF Sharing
      <4> QED  BY <1>1, <2>2, <4>2, <4>5 DEF ReaderHeld
    <3> QED  BY <1>1, <2>2, <3>1, <3>2 DEF SleepersPlaced
  <2> QED  BY <1>3, <2>1, <2>2
<1>9. /\ CountedReaders' = CountedReaders /\ FirstReaders' = FirstReaders /\ LastReaders' = LastReaders
      /\ WriterHolders' = WriterHolders
      /\ WriterMutexHolders' = WriterMutexHolders /\ ReaderMutexHolders' = ReaderMutexHolders
  BY <1>1 DEF TypeOK, CountedReaders, FirstReaders, LastReaders, WriterHolders,
     WriterMutexHolders, ReaderMutexHolders, Threads
<1> QED  BY <1>1, <1>4, <1>5, <1>7, <1>8, <1>9 DEF IInv, WriterMutexHeld, ReaderMutexHeld,
         ReadersCounted, WriterHeld

-----------------------------------------------------------------------------
(* down(&SemaphoreWriter) of the first reader, SemaphoreReaderMutex still  *)
(* held (314).                                                             *)
LEMMA ReaderEnter_DownWriterInv ==
  ASSUME IInv, NEW r \in Readers, ReaderEnter_DownWriter(r)
  PROVE  IInv'
<1> DEFINE s == SemaphoreWriter
           d == Down(s, r)
<1>1. /\ TypeOK /\ SleepersPlaced
      /\ pc[r] = "enterDownWriter" /\ pc' = [pc EXCEPT ![r] = "enterUpMutex"]
      /\ r \in Threads /\ r \notin Writers
      /\ r \notin Sleepers(SemaphoreReaderMutex) /\ r \notin Sleepers(s) /\ r \notin Sleepers(SemaphoreReader)
      /\ s' = d
      /\ UNCHANGED <<SemaphoreWriterMutex, SemaphoreReaderMutex, SemaphoreReader, WriterCount, ReaderCount>>
  BY ThreadsAssumption DEF IInv, ReaderEnter_DownWriter, DownWriter, OnWriter, Moves, Awake, counts, Threads
<1>2. /\ FirstReaders = {r} /\ LastReaders = {} /\ CountedReaders = {r}
      /\ Sharing(CountedReaders, FirstReaders, LastReaders) = {}
  <2>1. r \in ReaderMutexHolders /\ r \in FirstReaders /\ r \notin LastReaders
    BY <1>1 DEF ReaderMutexHolders, FirstReaders, LastReaders
  <2>2. FirstReaders = {r} /\ LastReaders = {}
    BY <2>1, ReaderAlone
  <2>3. CountedReaders = {r}
    BY <2>2 DEF IInv, ReadersCounted, Counted
  <2> QED  BY <2>2, <2>3 DEF Sharing
<1>3. /\ d \in Semaphores(Threads) /\ WellFormed(d)
      /\ \/ WriterHolders = {} /\ Sleepers(s) = {} /\ Sleepers(d) = {} /\ Held(d, {}, {r})
         \/ Sleepers(d) = Sleepers(s) \cup {r} /\ Held(d, WriterHolders, {})
  <2>1. Held(s, WriterHolders, {}) /\ s \in Semaphores(Threads) /\ WellFormed(s)
    BY <1>1, <1>2 DEF IInv, TypeOK, SleepersPlaced, WriterHeld
  <2> QED  BY <1>1, <2>1, DownHeld
<1> HIDE DEF d
<1>4. TypeOK'
  BY <1>1, <1>3 DEF TypeOK, WriterLabels, ReaderLabels, Threads
<1>5. SleepersPlaced'
  BY <1>1, <1>3 DEF TypeOK, SleepersPlaced, Threads
<1>6. CountedReaders' = CountedReaders /\ LastReaders' = LastReaders /\ WriterHolders' = WriterHolders
  BY <1>1, <1>3 DEF TypeOK, CountedReaders, LastReaders, WriterHolders, Threads
<1>7. WriterHeld' /\ FirstReaders' \subseteq {r}
  <2>1. CASE WriterHolders = {} /\ Sleepers(s) = {} /\ Sleepers(d) = {} /\ Held(d, {}, {r})
    <3>1. FirstReaders' = {}
      BY <1>1, <1>2, <2>1 DEF TypeOK, FirstReaders, Threads
    <3>2. Sharing(CountedReaders, FirstReaders, LastReaders)' = {r}
      BY <1>2, <1>6, <3>1 DEF Sharing
    <3> QED  BY <1>1, <1>6, <2>1, <3>1, <3>2 DEF WriterHeld
  <2>2. CASE Sleepers(d) = Sleepers(s) \cup {r} /\ Held(d, WriterHolders, {})
    <3>1. FirstReaders' = {r}
      BY <1>1, <1>2, <2>2 DEF TypeOK, FirstReaders, Threads
    <3>2. Sharing(CountedReaders, FirstReaders, LastReaders)' = {}
      BY <1>2, <1>6, <3>1 DEF Sharing
    <3> QED  BY <1>1, <1>6, <2>2, <3>1, <3>2 DEF WriterHeld
  <2> QED  BY <1>3, <2>1, <2>2
<1>8. ReadersCounted'
  BY <1>1, <1>2, <1>6, <1>7 DEF IInv, ReadersCounted, Counted
<1>9. /\ CountedWriters' = CountedWriters /\ FirstWriters' = FirstWriters /\ LastWriters' = LastWriters
      /\ PassingReaders' = PassingReaders
      /\ WriterMutexHolders' = WriterMutexHolders /\ ReaderMutexHolders' = ReaderMutexHolders
  BY <1>1 DEF TypeOK, CountedWriters, FirstWriters, LastWriters, PassingReaders,
     WriterMutexHolders, ReaderMutexHolders, Threads
<1> QED  BY <1>1, <1>4, <1>5, <1>7, <1>8, <1>9 DEF IInv, WriterMutexHeld, ReaderMutexHeld,
         WritersCounted, ReaderHeld

(* up(&SemaphoreWriter) of the last reader (386): only writers can be      *)
(* asleep on it.                                                           *)
LEMMA ReaderLeave_UpWriterInv ==
  ASSUME IInv, NEW r \in Readers, ReaderLeave_UpWriter(r)
  PROVE  IInv'
<1> DEFINE s == SemaphoreWriter
           u == Up(s)
<1>1. /\ TypeOK /\ SleepersPlaced
      /\ pc[r] = "leaveUpWriter" /\ pc' = [pc EXCEPT ![r] = "leaveUpMutex"]
      /\ r \in Threads /\ r \notin Writers
      /\ r \notin Sleepers(SemaphoreReaderMutex) /\ r \notin Sleepers(s) /\ r \notin Sleepers(SemaphoreReader)
      /\ s' = u
      /\ UNCHANGED <<SemaphoreWriterMutex, SemaphoreReaderMutex, SemaphoreReader, WriterCount, ReaderCount>>
  BY ThreadsAssumption DEF IInv, ReaderLeave_UpWriter, UpWriter, OnWriter, Moves, Awake, counts, Threads
<1>2. /\ FirstReaders = {} /\ LastReaders = {r} /\ CountedReaders = {}
      /\ Sharing(CountedReaders, FirstReaders, LastReaders) # {} /\ WriterHolders = {}
  <2>1. r \in ReaderMutexHolders /\ r \notin FirstReaders /\ r \in LastReaders
    BY <1>1 DEF ReaderMutexHolders, FirstReaders, LastReaders
  <2>2. FirstReaders = {} /\ LastReaders = {r}
    BY <2>1, ReaderAlone
  <2>3. CountedReaders = {}
    BY <2>2 DEF IInv, ReadersCounted, Counted
  <2>4. Sharing(CountedReaders, FirstReaders, LastReaders) # {}
    BY <2>2 DEF Sharing
  <2> QED  BY <2>2, <2>3, <2>4 DEF IInv, WriterHeld, Held
<1>3. /\ u \in Semaphores(Threads) /\ WellFormed(u)
      /\ \/ Sleepers(s) = {} /\ Sleepers(u) = {} /\ Held(u, {}, {})
         \/ \E h \in Sleepers(s) : Sleepers(u) = Sleepers(s) \ {h} /\ Held(u, {h}, {})
  BY <1>1, <1>2, UpHeld DEF IInv, TypeOK, SleepersPlaced, WriterHeld
<1> HIDE DEF u
<1>4. TypeOK'
  BY <1>1, <1>3 DEF TypeOK, WriterLabels, ReaderLabels, Threads
<1>5. SleepersPlaced'
  BY <1>1, <1>3 DEF TypeOK, SleepersPlaced, Threads
<1>6. /\ CountedReaders' = {} /\ LastReaders' = {} /\ FirstReaders' = {}
      /\ Sharing(CountedReaders, FirstReaders, LastReaders)' = {}
  <2>1. CountedReaders' = {} /\ LastReaders' = {}
    BY <1>1, <1>2 DEF TypeOK, CountedReaders, LastReaders, Threads
  <2>2. FirstReaders' = {}
    BY <1>1, <1>2, <1>3 DEF TypeOK, FirstReaders, Threads
  <2> QED  BY <2>1, <2>2 DEF Sharing
<1>7. WriterHeld'
  <2>1. CASE Sleepers(s) = {} /\ Sleepers(u) = {} /\ Held(u, {}, {})
    <3>1. WriterHolders' = {}
      BY <1>1, <1>2, <2>1 DEF TypeOK, WriterHolders, Threads
    <3> QED  BY <1>1, <1>6, <2>1, <3>1 DEF WriterHeld
  <2>2. ASSUME NEW h \in Sleepers(s), Sleepers(u) = Sleepers(s) \ {h}, Held(u, {h}, {})
        PROVE  WriterHeld'
    <3>1. h \in Writers /\ pc[h] = "entered" /\ h # r
      BY <1>1, <1>2, <2>2 DEF SleepersPlaced, FirstReaders
    <3>2. WriterHolders' = {h}
      BY <1>1, <1>2, <2>2, <3>1 DEF TypeOK, WriterHolders, Threads
    <3> QED  BY <1>1, <1>6, <2>2, <3>2 DEF WriterHeld
  <2> QED  BY <1>3, <2>1, <2>2
<1>8. ReadersCounted'
  BY <1>1, <1>2, <1>6 DEF IInv, ReadersCounted, Counted
<1>9. /\ CountedWriters' = CountedWriters /\ FirstWriters' = FirstWriters /\ LastWriters' = LastWriters
      /\ PassingReaders' = PassingReaders
      /\ WriterMutexHolders' = WriterMutexHolders /\ ReaderMutexHolders' = ReaderMutexHolders
  BY <1>1 DEF TypeOK, CountedWriters, FirstWriters, LastWriters, PassingReaders,
     WriterMutexHolders, ReaderMutexHolders, Threads
<1> QED  BY <1>1, <1>4, <1>5, <1>7, <1>8, <1>9 DEF IInv, WriterMutexHeld, ReaderMutexHeld,
         WritersCounted, ReaderHeld

(* down(&SemaphoreWriter) of a writer (277).                               *)
LEMMA WriterEnter_DownWriterInv ==
  ASSUME IInv, NEW w \in Writers, WriterEnter_DownWriter(w)
  PROVE  IInv'
<1> DEFINE s == SemaphoreWriter
           d == Down(s, w)
<1>1. /\ TypeOK /\ SleepersPlaced
      /\ pc[w] = "enterDownWriter" /\ pc' = [pc EXCEPT ![w] = "entered"]
      /\ w \in Threads /\ w \notin Readers
      /\ w \notin Sleepers(SemaphoreWriterMutex) /\ w \notin Sleepers(s) /\ w \notin Sleepers(SemaphoreReader)
      /\ s' = d
      /\ UNCHANGED <<SemaphoreWriterMutex, SemaphoreReaderMutex, SemaphoreReader, WriterCount, ReaderCount>>
  BY ThreadsAssumption DEF IInv, WriterEnter_DownWriter, DownWriter, OnWriter, Moves, Awake, counts, Threads
<1> DEFINE share == Sharing(CountedReaders, FirstReaders, LastReaders)
<1>2. /\ d \in Semaphores(Threads) /\ WellFormed(d)
      /\ \/ WriterHolders = {} /\ share = {} /\ Sleepers(s) = {} /\ Sleepers(d) = {} /\ Held(d, {w}, {})
         \/ Sleepers(d) = Sleepers(s) \cup {w} /\ Held(d, WriterHolders, share)
  BY <1>1, DownHeld DEF IInv, TypeOK, SleepersPlaced, WriterHeld
<1> HIDE DEF d
<1>3. TypeOK'
  BY <1>1, <1>2 DEF TypeOK, WriterLabels, ReaderLabels, Threads
<1>4. SleepersPlaced'
  BY <1>1, <1>2 DEF TypeOK, SleepersPlaced, Threads
<1>5. CountedReaders' = CountedReaders /\ FirstReaders' = FirstReaders /\ LastReaders' = LastReaders
  BY <1>1, <1>2 DEF TypeOK, CountedReaders, FirstReaders, LastReaders, Threads
<1>6. share' = share
  BY <1>5
<1> HIDE DEF share
<1>7. WriterHeld'
  <2>1. \/ WriterHolders' = {w} /\ share = {} /\ Held(d, {w}, {})
        \/ WriterHolders' = WriterHolders /\ Held(d, WriterHolders, share)
    BY <1>1, <1>2 DEF TypeOK, WriterHolders, Threads
  <2>2. Held(d, WriterHolders', share')
    BY <1>6, <2>1
  <2> QED  BY <1>1, <2>2 DEF WriterHeld, share
<1>8. ReadersCounted'
  BY <1>1, <1>5 DEF IInv, ReadersCounted
<1>9. /\ CountedWriters' = CountedWriters /\ FirstWriters' = FirstWriters /\ LastWriters' = LastWriters
      /\ PassingReaders' = PassingReaders
      /\ WriterMutexHolders' = WriterMutexHolders /\ ReaderMutexHolders' = ReaderMutexHolders
  BY <1>1 DEF TypeOK, CountedWriters, FirstWriters, LastWriters, PassingReaders,
     WriterMutexHolders, ReaderMutexHolders, Threads
<1> QED  BY <1>1, <1>3, <1>4, <1>7, <1>8, <1>9 DEF IInv, WriterMutexHeld, ReaderMutexHeld,
         WritersCounted, ReaderHeld

(* up(&SemaphoreWriter) of a leaving writer (340): the semaphore goes to a *)
(* sleeping writer, to the readers through the one that sleeps for them,   *)
(* or to nobody.                                                           *)
LEMMA WriterLeave_UpWriterInv ==
  ASSUME IInv, NEW w \in Writers, WriterLeave_UpWriter(w)
  PROVE  IInv'
<1> DEFINE s == SemaphoreWriter
           u == Up(s)
<1>1. /\ TypeOK /\ SleepersPlaced
      /\ pc[w] = "writing" /\ pc' = [pc EXCEPT ![w] = "leaveDownMutex"]
      /\ w \in Threads /\ w \notin Readers
      /\ w \notin Sleepers(SemaphoreWriterMutex) /\ w \notin Sleepers(s) /\ w \notin Sleepers(SemaphoreReader)
      /\ s' = u
      /\ UNCHANGED <<SemaphoreWriterMutex, SemaphoreReaderMutex, SemaphoreReader, WriterCount, ReaderCount>>
  BY ThreadsAssumption DEF IInv, WriterLeave_UpWriter, UpWriter, OnWriter, Moves, Awake, counts, Threads
<1>2. WriterHolders = {w} /\ Sharing(CountedReaders, FirstReaders, LastReaders) = {}
  <2>1. w \in WriterHolders
    BY <1>1 DEF WriterHolders
  <2> QED  BY <2>1 DEF IInv, WriterHeld, Held
<1>3. /\ u \in Semaphores(Threads) /\ WellFormed(u)
      /\ \/ Sleepers(s) = {} /\ Sleepers(u) = {} /\ Held(u, {}, {})
         \/ \E h \in Sleepers(s) : /\ Sleepers(u) = Sleepers(s) \ {h}
                                   /\ Held(u, {h}, {}) /\ Held(u, {}, {h})
  BY <1>1, <1>2, UpHeld DEF IInv, TypeOK, SleepersPlaced, WriterHeld
<1> HIDE DEF u
<1>4. TypeOK'
  BY <1>1, <1>3 DEF TypeOK, WriterLabels, ReaderLabels, Threads
<1>5. SleepersPlaced'
  BY <1>1, <1>3 DEF TypeOK, SleepersPlaced, Threads
<1>6. CountedReaders' = CountedReaders /\ LastReaders' = LastReaders /\ FirstReaders' \subseteq FirstReaders
  BY <1>1, <1>3 DEF TypeOK, CountedReaders, LastReaders, FirstReaders, Threads
<1>7. ReadersCounted'
  BY <1>1, <1>6 DEF IInv, ReadersCounted, Counted
<1>8. WriterHeld'
  <2>1. CASE Sleepers(s) = {} /\ Sleepers(u) = {} /\ Held(u, {}, {})
    <3>1. WriterHolders' = {} /\ FirstReaders' = FirstReaders
      BY <1>1, <1>2, <2>1 DEF TypeOK, WriterHolders, FirstReaders, Threads
    <3>2. Sharing(CountedReaders, FirstReaders, LastReaders)' = {}
      BY <1>2, <1>6, <3>1
    <3> QED  BY <1>1, <2>1, <3>1, <3>2 DEF WriterHeld
  <2>2. ASSUME NEW h \in Sleepers(s), Sleepers(u) = Sleepers(s) \ {h},
               Held(u, {h}, {}), Held(u, {}, {h})
        PROVE  WriterHeld'
    <3>1. CASE h \in Writers
      <4>1. h \notin Readers /\ pc[h] = "entered" /\ h # w
        BY <1>1, <2>2, <3>1, ThreadsAssumption DEF SleepersPlaced
      <4>2. WriterHolders' = {h} /\ FirstReaders' = FirstReaders
        BY <1>1, <1>2, <2>2, <3>1, <4>1 DEF TypeOK, WriterHolders, FirstReaders, Threads
      <4>3. Sharing(CountedReaders, FirstReaders, LastReaders)' = {}
        BY <1>2, <1>6, <4>2
      <4> QED  BY <1>1, <2>2, <4>2, <4>3 DEF WriterHeld
    <3>2. CASE h \in Readers
      <4>1. h \notin Writers /\ pc[h] = "enterUpMutex" /\ h # w /\ h \in FirstReaders
        BY <1>1, <2>2, <3>2, ThreadsAssumption DEF SleepersPlaced, FirstReaders
      <4>2. WriterHolders' = {}
        BY <1>1, <1>2, <2>2, <4>1 DEF TypeOK, WriterHolders, Threads
      <4>3. CountedReaders = {h} /\ FirstReaders = {h} /\ LastReaders = {}
        BY <4>1 DEF IInv, ReadersCounted, Counted
      <4>4. FirstReaders' = {}
        BY <1>1, <2>2, <4>1, <4>3 DEF TypeOK, FirstReaders, Threads
      <4>5. Sharing(CountedReaders, FirstReaders, LastReaders)' = {h}
        BY <1>6, <4>3, <4>4 DEF Sharing
      <4> QED  BY <1>1, <2>2, <4>2, <4>5 DEF WriterHeld
    <3> QED  BY <1>1, <2>2, <3>1, <3>2 DEF SleepersPlaced
  <2> QED  BY <1>3, <2>1, <2>2
<1>9. /\ CountedWriters' = CountedWriters /\ FirstWriters' = FirstWriters /\ LastWriters' = LastWriters
      /\ PassingReaders' = PassingReaders
      /\ WriterMutexHolders' = WriterMutexHolders /\ ReaderMutexHolders' = ReaderMutexHolders
  BY <1>1 DEF TypeOK, CountedWriters, FirstWriters, LastWriters, PassingReaders,
     WriterMutexHolders, ReaderMutexHolders, Threads
<1> QED  BY <1>1, <1>4, <1>5, <1>7, <1>8, <1>9 DEF IInv, WriterMutexHeld, ReaderMutexHeld,
         WritersCounted, ReaderHeld
-----------------------------------------------------------------------------
(* The return of down(&SemaphoreWriter) at 277, once the writer has it.    *)
LEMMA WriterEnter_ReturnInv ==
  ASSUME IInv, NEW w \in Writers, WriterEnter_Return(w)
  PROVE  IInv'
<1>1. /\ TypeOK /\ SleepersPlaced
      /\ pc[w] = "entered" /\ pc' = [pc EXCEPT ![w] = "writing"]
      /\ w \in Threads /\ w \notin Readers /\ w \notin Sleepers(SemaphoreWriter)
      /\ UNCHANGED <<SemaphoreWriterMutex, SemaphoreReaderMutex, SemaphoreWriter, SemaphoreReader,
                     WriterCount, ReaderCount>>
  BY ThreadsAssumption DEF IInv, WriterEnter_Return, Moves, Awake, semaphores, counts, Threads
<1>2. TypeOK'
  BY <1>1 DEF TypeOK, WriterLabels, ReaderLabels, Threads
<1>3. SleepersPlaced'
  BY <1>1 DEF TypeOK, SleepersPlaced, Threads
<1>4. /\ CountedWriters' = CountedWriters /\ FirstWriters' = FirstWriters /\ LastWriters' = LastWriters
      /\ CountedReaders' = CountedReaders /\ FirstReaders' = FirstReaders /\ LastReaders' = LastReaders
      /\ PassingReaders' = PassingReaders /\ WriterHolders' = WriterHolders
      /\ WriterMutexHolders' = WriterMutexHolders /\ ReaderMutexHolders' = ReaderMutexHolders
  BY <1>1 DEF TypeOK, CountedWriters, FirstWriters, LastWriters, CountedReaders, FirstReaders,
     LastReaders, PassingReaders, WriterHolders, WriterMutexHolders, ReaderMutexHolders, Threads
<1> QED  BY <1>1, <1>2, <1>3, <1>4 DEF IInv, WriterMutexHeld, ReaderMutexHeld, WritersCounted,
         ReadersCounted, ReaderHeld, WriterHeld

(* Every step of the specification, a stuttering one too, preserves the    *)
(* invariant.                                                              *)
LEMMA NextInv == IInv /\ [Next]_syncVars => IInv'
<1> SUFFICES ASSUME IInv, [Next]_syncVars PROVE IInv'
  OBVIOUS
<1>1. ASSUME NEW w \in Writers, WriterEnter_DownMutex(w) \/ WriterStep(w) PROVE IInv'
  BY <1>1, DownWriterMutexInv, UpWriterMutexInv, WriterEnter_CountInv, WriterEnter_DownReaderInv,
     WriterEnter_DownWriterInv, WriterEnter_ReturnInv, WriterLeave_UpWriterInv,
     WriterLeave_CountInv, WriterLeave_UpReaderInv DEF WriterStep
<1>2. ASSUME NEW r \in Readers, ReaderEnter_DownReader(r) \/ ReaderStep(r) PROVE IInv'
  BY <1>2, DownReaderMutexInv, UpReaderMutexInv, ReaderEnter_DownReaderInv,
     ReaderEnter_UpReaderInv, ReaderEnter_CountInv, ReaderEnter_DownWriterInv,
     ReaderLeave_CountInv, ReaderLeave_UpWriterInv DEF ReaderStep
<1>3. CASE UNCHANGED syncVars
  <2>1. UNCHANGED <<SemaphoreWriterMutex, SemaphoreReaderMutex, SemaphoreWriter, SemaphoreReader,
                    WriterCount, ReaderCount, pc>>
    BY <1>3 DEF syncVars, semaphores, counts
  <2>2. /\ CountedWriters' = CountedWriters /\ FirstWriters' = FirstWriters /\ LastWriters' = LastWriters
        /\ CountedReaders' = CountedReaders /\ FirstReaders' = FirstReaders /\ LastReaders' = LastReaders
        /\ PassingReaders' = PassingReaders /\ WriterHolders' = WriterHolders
        /\ WriterMutexHolders' = WriterMutexHolders /\ ReaderMutexHolders' = ReaderMutexHolders
    BY <2>1 DEF CountedWriters, FirstWriters, LastWriters, CountedReaders, FirstReaders,
       LastReaders, PassingReaders, WriterHolders, WriterMutexHolders, ReaderMutexHolders
  <2>3. TypeOK' /\ SleepersPlaced'
    BY <2>1 DEF IInv, TypeOK, SleepersPlaced
  <2> QED  BY <2>1, <2>2, <2>3 DEF IInv, WriterMutexHeld, ReaderMutexHeld, WritersCounted,
           ReadersCounted, ReaderHeld, WriterHeld
<1> QED  BY <1>1, <1>2, <1>3 DEF Next

(* IInv holds in every reachable state, for any finite sets of readers and *)
(* of writers.                                                             *)
LEMMA Invariance == Spec => []IInv
  BY InitInv, NextInv, PTL DEF Spec

(* Exclusion follows from the invariant in every state: a writer that is   *)
(* inside holds SemaphoreWriter alone, readers hold it together.           *)
LEMMA InvExclusion == IInv => Exclusion
<1> SUFFICES ASSUME IInv PROVE Exclusion
  OBVIOUS
<1>1. WritersInside \subseteq WriterHolders
  BY ThreadsAssumption DEF IInv, SleepersPlaced, WritersInside, WriterHolders
<1>2. ASSUME NEW x \in ReadersInside PROVE Sharing(CountedReaders, FirstReaders, LastReaders) # {}
  <2>1. x \in CountedReaders /\ pc[x] = "reading"
    BY DEF ReadersInside, CountedReaders
  <2>2. FirstReaders = {}
    <3>1. \A y \in FirstReaders : y = x
      BY <2>1 DEF IInv, ReadersCounted, Counted
    <3>2. x \notin FirstReaders
      BY <2>1, ThreadsAssumption DEF IInv, SleepersPlaced, FirstReaders
    <3> QED  BY <3>1, <3>2
  <2> QED  BY <2>1, <2>2 DEF Sharing
<1>3. /\ \A w1, w2 \in WriterHolders : w1 = w2
      /\ WriterHolders = {} \/ Sharing(CountedReaders, FirstReaders, LastReaders) = {}
  BY DEF IInv, WriterHeld, Held
<1> QED  BY <1>1, <1>2, <1>3 DEF Exclusion

(* Every variable keeps its type: in particular neither counter goes below *)
(* 0 at KboardModule.c:342 and 383.                                        *)
THEOREM TypeCorrect == Spec => []TypeOK
<1>1. IInv => TypeOK
  BY DEF IInv
<1> QED  BY <1>1, Invariance, PTL

(* A writer between Enter and Leave is alone (269-388, solution 2).        *)
THEOREM MutualExclusion == Spec => []Exclusion
  BY InvExclusion, Invariance, PTL

(* No sequence of Enter and Leave calls raises one of the four semaphores  *)
(* above 1.                                                                *)
THEOREM SemaphoresBinary == Spec => []BinarySemaphores
<1>1. IInv => BinarySemaphores
  BY DEF IInv, WriterMutexHeld, ReaderMutexHeld, WriterHeld, ReaderHeld, Held, BinarySemaphores
<1> QED  BY <1>1, Invariance, PTL

(* A writer that has the turnstile shares it with all counted writers, so  *)
(* that no reader is in it and the next one sleeps (308).                  *)
LEMMA ClosedFacts ==
  ASSUME IInv, TurnstileClosed
  PROVE  PassingReaders = {} /\ Sharing(CountedWriters, FirstWriters, LastWriters) # {}
<1>1. PICK w \in Writers :
        /\ pc[w] \in {"enterUpMutex", "enterDownWriter", "entered", "writing",
                      "leaveDownMutex", "leaveCount", "leaveUpReader"}
        /\ w \notin Sleepers(SemaphoreReader)
  BY DEF TurnstileClosed
<1>2. Sharing(CountedWriters, FirstWriters, LastWriters) # {}
  <2>1. CASE pc[w] = "leaveUpReader"
    BY <2>1 DEF LastWriters, Sharing
  <2>2. CASE pc[w] # "leaveUpReader"
    <3>1. w \in CountedWriters /\ w \notin FirstWriters
      BY <1>1, <2>2 DEF CountedWriters, FirstWriters
    <3>2. FirstWriters = {}
      BY <3>1 DEF IInv, WritersCounted, Counted
    <3> QED  BY <3>1, <3>2 DEF Sharing
  <2> QED  BY <2>1, <2>2
<1> QED  BY <1>2 DEF IInv, ReaderHeld, Held

(* The writers' preference: while the writers have the turnstile no reader *)
(* comes through it (274, 308, 345), whatever else the threads do.         *)
THEOREM WritersPreferred == Spec => WritersFirst
<1> DEFINE Closes == TurnstileClosed /\ TurnstileClosed' => ReadersPast' \subseteq ReadersPast
<1>1. ASSUME IInv, [Next]_syncVars PROVE [Closes]_syncVars
  <2> USE <1>1
  <2>1. /\ TypeOK /\ SleepersPlaced /\ Readers \cap Writers = {}
        /\ pc \in [Threads -> ReaderLabels \cup WriterLabels]
    BY ThreadsAssumption DEF IInv, TypeOK
  <2>2. ASSUME NEW w \in Writers, WriterLeave_UpReader(w), TurnstileClosed' PROVE FALSE
    <3>1. /\ pc[w] = "leaveUpReader" /\ pc' = [pc EXCEPT ![w] = "leaveUpMutex"]
          /\ w \notin Sleepers(SemaphoreWriterMutex)
      BY <2>2 DEF WriterLeave_UpReader, UpReader, Moves, Awake
    <3>2. w \in WriterMutexHolders /\ w \in LastWriters
      BY <3>1 DEF WriterMutexHolders, LastWriters
    <3>3. LastWriters = {w} /\ CountedWriters = {}
      BY <3>2, WriterAlone DEF IInv, WritersCounted, Counted
    <3> QED  BY <2>1, <2>2, <3>1, <3>3 DEF TurnstileClosed, LastWriters, CountedWriters, Threads
  <2>3. ASSUME NEW r \in Readers, ReaderEnter_UpReader(r), TurnstileClosed PROVE FALSE
    <3>1. r \in PassingReaders
      BY <2>3 DEF ReaderEnter_UpReader, UpReader, Moves, Awake, PassingReaders
    <3> QED  BY <2>3, <3>1, ClosedFacts
  <2>4. ASSUME NEW r \in Readers, ReaderEnter_DownReader(r), TurnstileClosed
        PROVE  ReadersPast' \subseteq ReadersPast
    <3>1. /\ pc[r] = "idle" /\ pc' = [pc EXCEPT ![r] = "enterUpReader"]
          /\ r \notin Sleepers(SemaphoreReader)
          /\ SemaphoreReader' = Down(SemaphoreReader, r) /\ r \in Threads
      BY <2>4 DEF ReaderEnter_DownReader, DownReader, OnReader, Moves, Awake, Threads
    <3>2. /\ Held(SemaphoreReader, PassingReaders, Sharing(CountedWriters, FirstWriters, LastWriters))
          /\ SemaphoreReader \in Semaphores(Threads) /\ WellFormed(SemaphoreReader)
          /\ Sharing(CountedWriters, FirstWriters, LastWriters) # {}
      BY <2>1, <2>4, ClosedFacts DEF IInv, TypeOK, SleepersPlaced, ReaderHeld
    <3>3. Sleepers(SemaphoreReader') = Sleepers(SemaphoreReader) \cup {r}
      BY <3>1, <3>2, DownHeld
    <3> QED  BY <2>1, <3>1, <3>3 DEF ReadersPast, Threads
  <2>5. ASSUME NEW w \in Writers, WriterEnter_DownReader(w)
        PROVE  ReadersPast' \subseteq ReadersPast
    <3>1. /\ pc' = [pc EXCEPT ![w] = "enterUpMutex"] /\ w \notin Sleepers(SemaphoreReader)
          /\ SemaphoreReader' = Down(SemaphoreReader, w) /\ w \in Threads /\ w \notin Readers
      BY <2>1, <2>5 DEF WriterEnter_DownReader, DownReader, OnReader, Moves, Awake, Threads
    <3>2. SemaphoreReader \in Semaphores(Threads) /\ WellFormed(SemaphoreReader)
      BY <2>1 DEF TypeOK, SleepersPlaced
    <3>3. Sleepers(SemaphoreReader) \subseteq Sleepers(SemaphoreReader')
      BY <3>1, <3>2, DownFacts
    <3> QED  BY <2>1, <3>1, <3>3 DEF ReadersPast, Threads
  <2>6. ASSUME NEW w \in Writers, WriterEnter_DownMutex(w) \/ WriterStep(w),
               ~WriterEnter_DownReader(w), ~WriterLeave_UpReader(w)
        PROVE  ReadersPast' \subseteq ReadersPast
    <3>1. SemaphoreReader' = SemaphoreReader /\ \E to : pc' = [pc EXCEPT ![w] = to]
      BY <2>6 DEF WriterStep, WriterEnter_DownMutex, WriterEnter_Count, WriterEnter_UpMutex,
         WriterEnter_DownWriter, WriterEnter_Return, WriterLeave_UpWriter, WriterLeave_DownMutex,
         WriterLeave_Count, WriterLeave_UpMutex, DownWriterMutex, UpWriterMutex, DownWriter,
         UpWriter, OnWriterMutex, OnWriter, Moves, semaphores
    <3> QED  BY <2>1, <3>1 DEF ReadersPast, Threads
  <2>7. ASSUME NEW r \in Readers, ReaderStep(r), ~ReaderEnter_UpReader(r)
        PROVE  ReadersPast' \subseteq ReadersPast
    <3>1. /\ SemaphoreReader' = SemaphoreReader
          /\ \E to : /\ pc' = [pc EXCEPT ![r] = to]
                     /\ \/ pc[r] \in {"enterDownMutex", "enterCount", "enterDownWriter",
                                      "enterUpMutex", "reading", "leaveCount"}
                        \/ to \in {"leaveUpMutex", "idle"}
      BY <2>7 DEF ReaderStep, ReaderEnter_DownMutex, ReaderEnter_Count, ReaderEnter_DownWriter,
         ReaderEnter_UpMutex, ReaderLeave_DownMutex, ReaderLeave_Count, ReaderLeave_UpWriter,
         ReaderLeave_UpMutex, DownReaderMutex, UpReaderMutex, DownWriter, UpWriter,
         OnReaderMutex, OnWriter, Moves, semaphores
    <3>2. r \in Threads
      BY DEF Threads
    <3> QED  BY <2>1, <3>1, <3>2 DEF ReadersPast, ReaderLabels, Threads
  <2> QED  BY <2>2, <2>3, <2>4, <2>5, <2>6, <2>7 DEF Next
<1> QED  BY <1>1, Invariance, PTL DEF Spec, WritersFirst

(* Whose turn it is, said of the semaphore: the turn is free exactly when  *)
(* a unit is left, and whoever is inside has it, as does a reader that is  *)
(* past its down() of SemaphoreWriter.                                     *)
TurnOK ==
  /\ SemaphoreWriter.count = 1 <=> Turn = {}
  /\ SemaphoreWriter.count \in {0, 1}
  /\ ReadersHold => Turn = Readers /\ WriterHolders = {}
  /\ \A w \in WriterHolders : Turn = {w} /\ ~ReadersHold
  /\ WritersInside \subseteq WriterHolders
  /\ \A r \in Readers : /\ pc[r] \in {"enterUpMutex", "reading"}
                         /\ r \notin Sleepers(SemaphoreWriter)
                         => ReadersHold
  /\ ReadersInside # {} => ReadersHold

(* TurnOK follows from the invariant in every state.                       *)
LEMMA InvTurn == IInv => TurnOK
<1> SUFFICES ASSUME IInv PROVE TurnOK
  OBVIOUS
<1> DEFINE G == Sharing(CountedReaders, FirstReaders, LastReaders)
<1>1. /\ ReadersHold <=> G # {}
      /\ ReadersHold => Readers # {}
  BY DEF ReadersHold, Sharing, CountedReaders, LastReaders
<1>2. SemaphoreWriter.count \in {0, 1}
  BY DEF IInv, TypeOK, Semaphores, WriterHeld, Held
<1>3. /\ \A w1, w2 \in WriterHolders : w1 = w2
      /\ WriterHolders # {} => ~ReadersHold
      /\ SemaphoreWriter.count = 1 <=> WriterHolders = {} /\ ~ReadersHold
  BY <1>1 DEF IInv, WriterHeld, Held
<1>4. WritersInside \subseteq WriterHolders
  BY ThreadsAssumption DEF IInv, SleepersPlaced, WritersInside, WriterHolders
<1>5. ASSUME NEW x \in Readers, pc[x] \in {"enterUpMutex", "reading"},
             x \notin Sleepers(SemaphoreWriter)
      PROVE  ReadersHold
  <2>1. x \in CountedReaders /\ x \notin FirstReaders
    BY <1>5 DEF CountedReaders, FirstReaders
  <2>2. \A y \in FirstReaders : y = x
    BY <2>1 DEF IInv, ReadersCounted, Counted
  <2> QED  BY <2>1, <2>2 DEF ReadersHold
<1>6. ReadersInside # {} => ReadersHold
  BY <1>5, ThreadsAssumption DEF ReadersInside, IInv, SleepersPlaced
<1> QED  BY <1>1, <1>2, <1>3, <1>4, <1>5, <1>6 DEF TurnOK, Turn

(* A step that leaves SemaphoreWriter and the writers that have it alone   *)
(* leaves the turn alone, whatever the readers do.                         *)
LEMMA SameTurn ==
  ASSUME TurnOK, TurnOK', SemaphoreWriter' = SemaphoreWriter, WriterHolders' = WriterHolders
  PROVE  /\ Turn' = Turn
         /\ Waiting(SemaphoreWriter, Party)' = Waiting(SemaphoreWriter, Party)
<1>1. Turn' = Turn
  <2>1. CASE SemaphoreWriter.count = 1
    BY <2>1 DEF TurnOK
  <2>2. CASE SemaphoreWriter.count # 1
    BY <2>2 DEF TurnOK, Turn
  <2> QED  BY <2>1, <2>2
<1> QED  BY <1>1

(* up(&SemaphoreWriter) by a thread that has the turn (340, 386) passes it *)
(* to the party at the head of the line.                                   *)
LEMMA PassTurn ==
  ASSUME IInv, IInv', SemaphoreWriter' = Up(SemaphoreWriter), SemaphoreWriter.count = 0,
         \A t \in Sleepers(SemaphoreWriter) : pc'[t] = pc[t]
  PROVE  LET line == Waiting(SemaphoreWriter, Party)
         IN  IF line = << >> THEN Turn' = {} /\ UNCHANGED line
                             ELSE Turn' = Head(line) /\ line' = Tail(line)
<1> DEFINE W == SemaphoreWriter
           line == Waiting(W, Party)
<1>1. W \in Semaphores(Threads) /\ WellFormed(W)
  BY DEF IInv, TypeOK, SleepersPlaced
<1>2. TurnOK'
  BY InvTurn, PTL
<1>3. line' = Waiting(Up(W), Party)
  BY Zenon
<1>4. CASE W.wait_list = << >>
  <2>1. line = << >> /\ Waiting(Up(W), Party) = << >>
    BY <1>1, <1>4, WaitingUp
  <2>2. SemaphoreWriter'.count = 1
    BY <1>1, <1>4 DEF Up, Semaphores
  <2> QED  BY <1>2, <1>3, <2>1, <2>2 DEF TurnOK
<1>5. CASE W.wait_list # << >>
  <2> PICK h : h = Head(W.wait_list)
    OBVIOUS
  <2>1. line # << >> /\ Waiting(Up(W), Party) = Tail(line) /\ Party[h] = Head(line)
    BY <1>1, <1>5, WaitingUp
  <2>2. h \in Sleepers(W) /\ h \notin Sleepers(W)'
    BY <1>1, <1>5, UpHead
  <2>3. Turn' = Party[h]
    <3>1. CASE h \in Writers
      <4>1. h \in WriterHolders'
        BY <2>2, <3>1, ThreadsAssumption DEF IInv, SleepersPlaced, WriterHolders
      <4> QED  BY <1>2, <3>1, <4>1 DEF TurnOK, Party, Threads
    <3>2. CASE h \in Readers
      <4>1. pc'[h] = "enterUpMutex"
        BY <2>2, <3>2, ThreadsAssumption DEF IInv, SleepersPlaced
      <4>2. ReadersHold'
        BY <1>2, <2>2, <3>2, <4>1 DEF TurnOK
      <4> QED  BY <1>2, <3>2, <4>2, ThreadsAssumption DEF TurnOK, Party, Threads
    <3> QED  BY <2>2, <3>1, <3>2 DEF IInv, SleepersPlaced
  <2> QED  BY <1>3, <2>1, <2>3
<1> QED  BY <1>4, <1>5

(* The four functions of solution 2 implement the lock of ReadersWriters:  *)
(* the down() of SemaphoreWriter asks, its up() passes the turn on to the  *)
(* first in line, and every other step starts or ends one critical section *)
(* within the turn or is invisible.                                        *)
THEOREM Refinement == Spec => RWSpec
<1> DEFINE W == SemaphoreWriter
           line == Waiting(SemaphoreWriter, Party)
           inside == ReadersInside \cup WritersInside
<1>1. SyncInit => RW!Init
  <2> SUFFICES ASSUME SyncInit PROVE RW!Init
    OBVIOUS
  <2>1. IInv
    BY InitInv
  <2>2. SemaphoreWriter.count = 1 /\ SemaphoreWriter.wait_list = << >>
    BY DEF SyncInit, InitializeSemaphore
  <2>3. line = << >>
    BY <2>2 DEF Waiting
  <2>4. Turn = {}
    BY <2>1, <2>2, InvTurn DEF TurnOK
  <2>5. inside = {}
    BY DEF SyncInit, ReadersInside, WritersInside, Threads
  <2> QED  BY <2>3, <2>4, <2>5 DEF RW!Init
<1>2. ASSUME IInv, IInv', [Next]_syncVars
      PROVE  [RW!Next]_<<Turn, line, inside>>
  <2> USE <1>2
  <2>1. /\ pc \in [Threads -> ReaderLabels \cup WriterLabels]
        /\ W \in Semaphores(Threads) /\ WellFormed(W)
        /\ Readers \cap Writers = {} /\ Threads = Readers \cup Writers
        /\ Sleepers(W) \subseteq Threads
    BY ThreadsAssumption DEF IInv, TypeOK, SleepersPlaced, Threads
  <2>2. TurnOK /\ TurnOK'
    <3>1. IInv' => TurnOK'
      BY InvTurn, PTL
    <3> QED  BY <3>1, InvTurn
  <2>3. \A t \in Threads : (t \in Writers => Party[t] = {t}) /\ (t \in Readers => Party[t] = Readers)
    BY <2>1 DEF Party
  <2>4. \A i \in DOMAIN line : \E t \in Sleepers(W) : line[i] = Party[t]
    BY DEF Waiting, Sleepers
  <2>5. ASSUME NEW p \in Threads, W' = Down(W, p)
        PROVE  /\ W.count > 0 => line' = line
               /\ W.count = 0 => line' = Append(line, Party[p])
    <3>1. line' = Waiting(Down(W, p), Party)
      BY <2>5, Zenon
    <3> QED  BY <2>1, <3>1, WaitingDown
  <2>6. ASSUME NEW w \in Writers, WriterEnter_DownWriter(w)
        PROVE  RW!Ask({w})
    <3>1. /\ pc[w] = "enterDownWriter" /\ pc' = [pc EXCEPT ![w] = "entered"] /\ w \in Threads
          /\ W' = Down(W, w) /\ w \notin Sleepers(W) /\ w \notin Readers
      BY <2>1, <2>6 DEF WriterEnter_DownWriter, DownWriter, OnWriter, Moves, Awake
    <3>2. \/ W.count > 0 /\ Sleepers(W) = {} /\ Sleepers(W') = {}
          \/ W.count = 0 /\ Sleepers(W') = Sleepers(W) \cup {w}
      BY <2>1, <3>1, DownFacts
    <3>3. {w} # Turn /\ \A i \in DOMAIN line : line[i] # {w}
      <4>1. {w} # Turn
        BY <3>1 DEF Turn, WriterHolders
      <4>2. \A t \in Sleepers(W) : Party[t] # {w}
        BY <2>1, <2>3, <3>1
      <4> QED  BY <2>4, <4>1, <4>2
    <3>4. inside' = inside
      BY <2>1, <3>1 DEF ReadersInside, WritersInside
    <3>5. CASE W.count > 0
      <4>1. Turn = {}
        BY <2>2, <3>5 DEF TurnOK
      <4>2. w \in WriterHolders'
        BY <2>1, <3>1, <3>2, <3>5 DEF WriterHolders
      <4>3. Turn' = {w} /\ line' = line
        BY <2>2, <2>5, <3>1, <3>5, <4>2 DEF TurnOK
      <4> QED  BY <3>3, <3>4, <4>1, <4>3 DEF RW!Ask
    <3>6. CASE W.count = 0
      <4>1. WriterHolders' = WriterHolders /\ W'.count = 0
        <5>1. W'.count = 0
          BY <2>1, <3>1, <3>6, DownFacts
        <5> QED  BY <2>1, <3>1, <3>2, <3>6, <5>1 DEF WriterHolders
      <4>2. Turn # {} /\ Turn' = Turn
        BY <2>2, <3>6, <4>1 DEF TurnOK, Turn
      <4>3. line' = Append(line, {w})
        BY <2>3, <2>5, <3>1, <3>6
      <4> QED  BY <3>3, <3>4, <4>2, <4>3 DEF RW!Ask
    <3> QED  BY <2>2, <3>5, <3>6 DEF TurnOK
  <2>7. ASSUME NEW r \in Readers, ReaderEnter_DownWriter(r)
        PROVE  RW!Ask(Readers)
    <3>1. /\ pc[r] = "enterDownWriter" /\ pc' = [pc EXCEPT ![r] = "enterUpMutex"] /\ r \in Threads
          /\ W' = Down(W, r) /\ r \notin Sleepers(W) /\ r \notin Writers
      BY <2>1, <2>7 DEF ReaderEnter_DownWriter, DownWriter, OnWriter, Moves, Awake
    <3>2. \/ W.count > 0 /\ Sleepers(W) = {} /\ Sleepers(W') = {}
          \/ W.count = 0 /\ Sleepers(W') = Sleepers(W) \cup {r}
      BY <2>1, <3>1, DownFacts
    <3>3. \A t \in Sleepers(W) : t \in Writers
      BY <2>1, <3>1 DEF IInv, ReadersCounted, Counted, FirstReaders, CountedReaders
    <3>4. ~ReadersHold
      <4>1. r \in FirstReaders /\ r \in CountedReaders
        BY <3>1 DEF FirstReaders, CountedReaders
      <4> QED  BY <4>1 DEF IInv, ReadersCounted, Counted, ReadersHold
    <3>5. Readers # Turn /\ \A i \in DOMAIN line : line[i] # Readers
      <4>1. Readers # Turn
        BY <3>1, <3>4 DEF Turn, WriterHolders
      <4>2. \A t \in Sleepers(W) : Party[t] # Readers
        BY <2>1, <2>3, <3>1, <3>3
      <4> QED  BY <2>4, <4>1, <4>2
    <3>6. inside' = inside
      BY <2>1, <3>1 DEF ReadersInside, WritersInside
    <3>7. WriterHolders' = WriterHolders
      BY <2>1, <3>1, <3>2 DEF WriterHolders
    <3>8. CASE W.count > 0
      <4>1. W.count = 1 /\ Turn = {} /\ WriterHolders = {}
        BY <2>2, <3>8 DEF TurnOK, Turn
      <4>2. W'.count = 0
        BY <2>1, <3>1, <4>1, DownFacts
      <4>3. Turn' = Readers /\ line' = line
        <5>1. Turn' # {}
          BY <2>2, <4>2 DEF TurnOK
        <5>2. ReadersHold'
          BY <3>7, <4>1, <5>1 DEF Turn
        <5> QED  BY <2>2, <2>5, <3>1, <3>8, <5>2 DEF TurnOK
      <4> QED  BY <3>5, <3>6, <4>1, <4>3 DEF RW!Ask
    <3>9. CASE W.count = 0
      <4>1. r \in FirstReaders'
        BY <3>2, <3>9 DEF FirstReaders
      <4>2. ~ReadersHold'
        <5>1. CountedReaders' = {r}
          BY <4>1 DEF IInv, ReadersCounted, Counted
        <5> QED  BY <4>1, <5>1 DEF IInv, ReadersCounted, Counted, ReadersHold
      <4>3. Turn # {} /\ Turn' = Turn
        BY <2>2, <3>4, <3>7, <3>9, <4>2 DEF TurnOK, Turn
      <4>4. line' = Append(line, Readers)
        BY <2>3, <2>5, <3>1, <3>9
      <4> QED  BY <3>5, <3>6, <4>3, <4>4 DEF RW!Ask
    <3> QED  BY <2>2, <3>8, <3>9 DEF TurnOK
  <2>8. ASSUME NEW w \in Writers, WriterEnter_Return(w)
        PROVE  RW!Start(w)
    <3>1. /\ pc[w] = "entered" /\ pc' = [pc EXCEPT ![w] = "writing"] /\ w \in Threads
          /\ W' = W /\ w \notin Sleepers(W) /\ w \notin Readers
      BY <2>1, <2>8 DEF WriterEnter_Return, semaphores, Moves, Awake
    <3>2. WriterHolders' = WriterHolders /\ w \in WriterHolders
      BY <2>1, <3>1 DEF WriterHolders
    <3>3. Turn' = Turn /\ line' = line
      BY <2>2, <3>1, <3>2, SameTurn
    <3>4. inside' = inside \cup {w} /\ w \notin inside
      BY <2>1, <3>1 DEF ReadersInside, WritersInside
    <3>5. w \in Turn
      BY <3>2 DEF Turn
    <3> QED  BY <3>3, <3>4, <3>5 DEF RW!Start
  <2>9. ASSUME NEW r \in Readers, ReaderEnter_UpMutex(r)
        PROVE  RW!Start(r)
    <3>1. /\ pc[r] = "enterUpMutex" /\ pc' = [pc EXCEPT ![r] = "reading"] /\ r \in Threads
          /\ W' = W /\ r \notin Sleepers(W) /\ r \notin Writers
      BY <2>1, <2>9 DEF ReaderEnter_UpMutex, UpReaderMutex, OnReaderMutex, Moves, Awake
    <3>2. WriterHolders' = WriterHolders
      BY <2>1, <3>1 DEF WriterHolders
    <3>3. Turn' = Turn /\ line' = line
      BY <2>2, <3>1, <3>2, SameTurn
    <3>4. inside' = inside \cup {r} /\ r \notin inside /\ r \in ReadersInside'
      BY <2>1, <3>1 DEF ReadersInside, WritersInside
    <3>5. r \in Turn
      BY <2>2, <3>3, <3>4 DEF TurnOK
    <3> QED  BY <3>3, <3>4, <3>5 DEF RW!Start
  <2>10. ASSUME NEW r \in Readers, ReaderLeave_DownMutex(r)
         PROVE  RW!LeaveReader(r)
    <3>1. /\ pc[r] = "reading" /\ pc' = [pc EXCEPT ![r] = "leaveCount"] /\ r \in Threads
          /\ W' = W /\ r \notin Writers
      BY <2>1, <2>10 DEF ReaderLeave_DownMutex, DownReaderMutex, OnReaderMutex, Moves
    <3>2. WriterHolders' = WriterHolders
      BY <2>1, <3>1 DEF WriterHolders
    <3>3. Turn' = Turn /\ line' = line
      BY <2>2, <3>1, <3>2, SameTurn
    <3>4. inside' = inside \ {r} /\ r \in inside
      BY <2>1, <3>1 DEF ReadersInside, WritersInside
    <3> QED  BY <3>3, <3>4 DEF RW!LeaveReader
  <2>11. ASSUME NEW w \in Writers, WriterLeave_UpWriter(w)
         PROVE  RW!LeaveWriter(w)
    <3>1. /\ pc[w] = "writing" /\ pc' = [pc EXCEPT ![w] = "leaveDownMutex"] /\ w \in Threads
          /\ W' = Up(W) /\ w \notin Sleepers(W) /\ w \notin Readers
      BY <2>1, <2>11 DEF WriterLeave_UpWriter, UpWriter, OnWriter, Moves, Awake
    <3>2. w \in WritersInside /\ w \in WriterHolders
      BY <3>1 DEF WritersInside, WriterHolders
    <3>3. Turn = {w} /\ W.count = 0 /\ ReadersInside = {} /\ WritersInside = {w}
      BY <2>2, <3>2 DEF TurnOK, Turn
    <3>4. inside' = {}
      BY <2>1, <3>1, <3>3 DEF ReadersInside, WritersInside
    <3>5. \A t \in Sleepers(W) : pc'[t] = pc[t]
      BY <2>1, <3>1
    <3>6. IF line = << >> THEN Turn' = {} /\ UNCHANGED line
                          ELSE Turn' = Head(line) /\ line' = Tail(line)
      BY <3>1, <3>3, <3>5, PassTurn
    <3> QED  BY <3>3, <3>4, <3>6 DEF RW!LeaveWriter, RW!Pass
  <2>12. ASSUME NEW r \in Readers, ReaderLeave_UpWriter(r)
         PROVE  RW!PassReaders
    <3>1. /\ pc[r] = "leaveUpWriter" /\ pc' = [pc EXCEPT ![r] = "leaveUpMutex"] /\ r \in Threads
          /\ W' = Up(W) /\ r \notin Sleepers(W) /\ r \notin Writers
      BY <2>1, <2>12 DEF ReaderLeave_UpWriter, UpWriter, OnWriter, Moves, Awake
    <3>2. ReadersHold /\ CountedReaders = {}
      BY <3>1 DEF ReadersHold, LastReaders, IInv, ReadersCounted, Counted
    <3>3. Turn = Readers /\ WriterHolders = {} /\ W.count = 0
      BY <2>2, <3>2 DEF TurnOK, Turn
    <3>4. inside = {}
      BY <2>2, <3>2, <3>3 DEF TurnOK, ReadersInside, CountedReaders
    <3>5. inside' = inside
      BY <2>1, <3>1 DEF ReadersInside, WritersInside
    <3>6. \A t \in Sleepers(W) : pc'[t] = pc[t]
      BY <2>1, <3>1
    <3>7. IF line = << >> THEN Turn' = {} /\ UNCHANGED line
                          ELSE Turn' = Head(line) /\ line' = Tail(line)
      BY <3>1, <3>3, <3>6, PassTurn
    <3> QED  BY <3>3, <3>4, <3>5, <3>7 DEF RW!PassReaders, RW!Pass
  <2>13. ASSUME NEW r \in Readers, ReaderEnter_DownReader(r) \/ ReaderStep(r),
                ~ReaderEnter_DownWriter(r), ~ReaderEnter_UpMutex(r),
                ~ReaderLeave_DownMutex(r), ~ReaderLeave_UpWriter(r)
         PROVE  UNCHANGED <<Turn, line, inside>>
    <3>1. (\E from, to \in ReaderLabels \ {"reading"} : Moves(r, from, to)) /\ W' = W
      BY <2>13 DEF ReaderStep, ReaderEnter_DownReader, ReaderEnter_UpReader, ReaderEnter_DownMutex,
         ReaderEnter_Count, ReaderLeave_Count, ReaderLeave_UpMutex, DownReaderMutex, UpReaderMutex,
         DownReader, UpReader, OnReaderMutex, OnReader, semaphores, ReaderLabels
    <3>2. PICK from, to \in ReaderLabels \ {"reading"} : Moves(r, from, to)
      BY <3>1
    <3>3. WriterHolders' = WriterHolders /\ inside' = inside
      BY <2>1, <3>1, <3>2 DEF Moves, WriterHolders, ReadersInside, WritersInside
    <3> QED  BY <2>2, <3>1, <3>3, SameTurn
  <2>14. ASSUME NEW w \in Writers, WriterEnter_DownMutex(w) \/ WriterStep(w),
                ~WriterEnter_DownWriter(w), ~WriterEnter_Return(w), ~WriterLeave_UpWriter(w)
         PROVE  UNCHANGED <<Turn, line, inside>>
    <3>1. /\ \E from, to \in WriterLabels \ {"entered", "writing"} : Moves(w, from, to)
          /\ W' = W
      BY <2>14 DEF WriterStep, WriterEnter_DownMutex, WriterEnter_Count, WriterEnter_DownReader,
         WriterEnter_UpMutex, WriterLeave_DownMutex, WriterLeave_Count, WriterLeave_UpReader,
         WriterLeave_UpMutex, DownWriterMutex, UpWriterMutex, DownReader, UpReader,
         OnWriterMutex, OnReader, semaphores, WriterLabels
    <3>2. PICK from, to \in WriterLabels \ {"entered", "writing"} : Moves(w, from, to)
      BY <3>1
    <3>3. WriterHolders' = WriterHolders /\ inside' = inside
      BY <2>1, <3>1, <3>2 DEF Moves, WriterHolders, ReadersInside, WritersInside
    <3> QED  BY <2>2, <3>1, <3>3, SameTurn
  <2>15. CASE UNCHANGED syncVars
    <3>1. W' = W /\ pc' = pc
      BY <2>15 DEF syncVars, semaphores
    <3>2. WriterHolders' = WriterHolders /\ inside' = inside
      BY <3>1 DEF WriterHolders, ReadersInside, WritersInside
    <3> QED  BY <2>2, <3>1, <3>2, SameTurn
  <2> HIDE DEF line, inside
  <2>16. ASSUME NEW w \in Writers, WriterEnter_DownMutex(w) \/ WriterStep(w)
         PROVE  RW!Next \/ UNCHANGED <<Turn, line, inside>>
    BY <2>6, <2>8, <2>11, <2>14, <2>16 DEF RW!Next, RW!Parties
  <2>17. ASSUME NEW r \in Readers, ReaderEnter_DownReader(r) \/ ReaderStep(r)
         PROVE  RW!Next \/ UNCHANGED <<Turn, line, inside>>
    BY <2>7, <2>9, <2>10, <2>12, <2>13, <2>17 DEF RW!Next, RW!Parties
  <2> QED  BY <2>15, <2>16, <2>17 DEF Next
<1> QED  BY <1>1, <1>2, Invariance, PTL DEF Spec, RWSpec, RW!Spec
=============================================================================
