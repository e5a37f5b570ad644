---------------------------- MODULE SyncSolution2 ----------------------------
(***************************************************************************)
(* SYNC_SOLUTION 2 of lab2/KboardModule.c: the first writer closes the     *)
(* turnstile SemaphoreReader and the last one opens it again; a reader     *)
(* goes through the turnstile (down, up) before it counts itself in.       *)
(* SemaphoreWriterMutex protects WriterCount, SemaphoreReaderMutex         *)
(* ReaderCount.  One action per semaphore call and per counter update.     *)
(***************************************************************************)
EXTENDS Semaphore, FiniteSets

CONSTANTS Readers,   \* threads reading /proc/kboard/reader
          Writers    \* threads reading or writing /proc/kboard/writer

ASSUME ThreadsAssumption ==
  /\ IsFiniteSet(Readers) /\ IsFiniteSet(Writers)
  /\ Readers \cap Writers = {}

VARIABLES SemaphoreWriterMutex, SemaphoreReaderMutex,
          SemaphoreWriter, SemaphoreReader,
          WriterCount, ReaderCount,
          pc         \* the control point of each thread

semaphores == <<SemaphoreWriterMutex, SemaphoreReaderMutex,
                SemaphoreWriter, SemaphoreReader>>
counts == <<WriterCount, ReaderCount>>
syncVars == <<semaphores, counts, pc>>

Threads == Readers \cup Writers

WriterLabels == {"idle", "enterCount", "enterDownReader", "enterUpMutex",
                 "enterDownWriter", "entered", "writing", "leaveDownMutex",
                 "leaveCount", "leaveUpReader", "leaveUpMutex"}

ReaderLabels == {"idle", "enterUpReader", "enterDownMutex", "enterCount",
                 "enterDownWriter", "enterUpMutex", "reading", "leaveCount",
                 "leaveUpWriter", "leaveUpMutex"}

(* InitializeSyncSolution; no thread is in a handler before the proc files *)
(* exist.                                                                  *)
SyncInit ==
  /\ SemaphoreWriterMutex = InitializeSemaphore(1)
  /\ SemaphoreReaderMutex = InitializeSemaphore(1)
  /\ SemaphoreWriter = InitializeSemaphore(1)
  /\ SemaphoreReader = InitializeSemaphore(1)
  /\ WriterCount = 0
  /\ ReaderCount = 0
  /\ pc = [t \in Threads |-> "idle"]

Awake(t) ==
  t \notin UNION {Sleepers(SemaphoreWriterMutex), Sleepers(SemaphoreReaderMutex),
                  Sleepers(SemaphoreWriter), Sleepers(SemaphoreReader)}

(* Thread t, not asleep in a down(), moves from one control point on.      *)
Moves(t, from, to) ==
  /\ pc[t] = from
  /\ Awake(t)
  /\ pc' = [pc EXCEPT ![t] = to]

(* The next value of one semaphore; the other three keep theirs. *)
OnWriterMutex(sema) ==
  /\ SemaphoreWriterMutex' = sema
  /\ UNCHANGED <<SemaphoreReaderMutex, SemaphoreWriter, SemaphoreReader, counts>>
OnReaderMutex(sema) ==
  /\ SemaphoreReaderMutex' = sema
  /\ UNCHANGED <<SemaphoreWriterMutex, SemaphoreWriter, SemaphoreReader, counts>>
OnWriter(sema) ==
  /\ SemaphoreWriter' = sema
  /\ UNCHANGED <<SemaphoreWriterMutex, SemaphoreReaderMutex, SemaphoreReader, counts>>
OnReader(sema) ==
  /\ SemaphoreReader' = sema
  /\ UNCHANGED <<SemaphoreWriterMutex, SemaphoreReaderMutex, SemaphoreWriter, counts>>

(* down() and up() of each semaphore, between two control points. *)
DownWriterMutex(t, from, to) == Moves(t, from, to) /\ OnWriterMutex(Down(SemaphoreWriterMutex, t))
UpWriterMutex(t, from, to) == Moves(t, from, to) /\ OnWriterMutex(Up(SemaphoreWriterMutex))
DownReaderMutex(t, from, to) == Moves(t, from, to) /\ OnReaderMutex(Down(SemaphoreReaderMutex, t))
UpReaderMutex(t, from, to) == Moves(t, from, to) /\ OnReaderMutex(Up(SemaphoreReaderMutex))
DownWriter(t, from, to) == Moves(t, from, to) /\ OnWriter(Down(SemaphoreWriter, t))
UpWriter(t, from, to) == Moves(t, from, to) /\ OnWriter(Up(SemaphoreWriter))
DownReader(t, from, to) == Moves(t, from, to) /\ OnReader(Down(SemaphoreReader, t))
UpReader(t, from, to) == Moves(t, from, to) /\ OnReader(Up(SemaphoreReader))
-----------------------------------------------------------------------------
(* EnterCriticalSection_Writer *)
WriterEnter_DownMutex(w) == DownWriterMutex(w, "idle", "enterCount")

FirstWriter(count) == count = 1

WriterEnter_Count(w) ==
  /\ Moves(w, "enterCount", IF FirstWriter(WriterCount + 1)
                              THEN "enterDownReader" ELSE "enterUpMutex")
  /\ WriterCount' = WriterCount + 1
  /\ UNCHANGED <<semaphores, ReaderCount>>

WriterEnter_DownReader(w) == DownReader(w, "enterDownReader", "enterUpMutex")
WriterEnter_UpMutex(w) == UpWriterMutex(w, "enterUpMutex", "enterDownWriter")

WriterEnter_DownWriter(w) == DownWriter(w, "enterDownWriter", "entered")

WriterEnter_Return(w) ==
  /\ Moves(w, "entered", "writing")
  /\ UNCHANGED <<semaphores, counts>>
-----------------------------------------------------------------------------
(* LeaveCriticalSection_Writer *)
WriterLeave_UpWriter(w) == UpWriter(w, "writing", "leaveDownMutex")
WriterLeave_DownMutex(w) == DownWriterMutex(w, "leaveDownMutex", "leaveCount")

LastWriter_Early(count) == count <= 1
LastWriter_Never(count) == count < 0

LastWriter(count) == count = 0

WriterLeave_Count(w) ==
  /\ Moves(w, "leaveCount", IF LastWriter(WriterCount - 1)
                              THEN "leaveUpReader" ELSE "leaveUpMutex")
  /\ WriterCount' = WriterCount - 1
  /\ UNCHANGED <<semaphores, ReaderCount>>

WriterLeave_UpReader(w) == UpReader(w, "leaveUpReader", "leaveUpMutex")
WriterLeave_UpMutex(w) == UpWriterMutex(w, "leaveUpMutex", "idle")
-----------------------------------------------------------------------------
(* EnterCriticalSection_Reader *)
ReaderEnter_DownReader_Skipped(r) ==
  /\ Moves(r, "idle", "enterDownMutex")
  /\ UNCHANGED <<semaphores, counts>>

ReaderEnter_DownReader(r) == DownReader(r, "idle", "enterUpReader")
ReaderEnter_UpReader(r) == UpReader(r, "enterUpReader", "enterDownMutex")
ReaderEnter_DownMutex(r) == DownReaderMutex(r, "enterDownMutex", "enterCount")

FirstReader_Second(count) == count = 2
FirstReader_Any(count) == count >= 1

FirstReader(count) == count = 1

ReaderEnter_Count(r) ==
  /\ Moves(r, "enterCount", IF FirstReader(ReaderCount + 1)
                              THEN "enterDownWriter" ELSE "enterUpMutex")
  /\ ReaderCount' = ReaderCount + 1
  /\ UNCHANGED <<semaphores, WriterCount>>

ReaderEnter_DownWriter(r) == DownWriter(r, "enterDownWriter", "enterUpMutex")
ReaderEnter_UpMutex(r) == UpReaderMutex(r, "enterUpMutex", "reading")
-----------------------------------------------------------------------------
(* LeaveCriticalSection_Reader *)
ReaderLeave_DownMutex(r) == DownReaderMutex(r, "reading", "leaveCount")

LastReader_Never(count) == count < 0

LastReader(count) == count = 0

ReaderLeave_Count_Twice(r) ==
  /\ Moves(r, "leaveCount", "leaveUpMutex")
  /\ ReaderCount' = ReaderCount - 2
  /\ UNCHANGED <<semaphores, WriterCount>>

ReaderLeave_Count(r) ==
  /\ Moves(r, "leaveCount", IF LastReader(ReaderCount - 1)
                              THEN "leaveUpWriter" ELSE "leaveUpMutex")
  /\ ReaderCount' = ReaderCount - 1
  /\ UNCHANGED <<semaphores, WriterCount>>

ReaderLeave_UpWriter(r) == UpWriter(r, "leaveUpWriter", "leaveUpMutex")
ReaderLeave_UpMutex(r) == UpReaderMutex(r, "leaveUpMutex", "idle")
-----------------------------------------------------------------------------
(* What a thread does once it is in Enter or Leave, without being asked.   *)
WriterStep(w) ==
  \/ WriterEnter_Count(w) \/ WriterEnter_DownReader(w) \/ WriterEnter_UpMutex(w)
  \/ WriterEnter_DownWriter(w) \/ WriterEnter_Return(w)
  \/ WriterLeave_UpWriter(w) \/ WriterLeave_DownMutex(w) \/ WriterLeave_Count(w)
  \/ WriterLeave_UpReader(w) \/ WriterLeave_UpMutex(w)

ReaderStep(r) ==
  \/ ReaderEnter_UpReader(r) \/ ReaderEnter_DownMutex(r) \/ ReaderEnter_Count(r)
  \/ ReaderEnter_DownWriter(r) \/ ReaderEnter_UpMutex(r)
  \/ ReaderLeave_DownMutex(r) \/ ReaderLeave_Count(r)
  \/ ReaderLeave_UpWriter(r) \/ ReaderLeave_UpMutex(r)

Next ==
  \/ \E w \in Writers : WriterEnter_DownMutex(w) \/ WriterStep(w)
  \/ \E r \in Readers : ReaderEnter_DownReader(r) \/ ReaderStep(r)

Spec == SyncInit /\ [][Next]_syncVars

(* The scheduler keeps running every thread that is not asleep, and the    *)
(* body of the critical section is a bounded delay (mdelay); nothing makes *)
(* a thread call Enter again.                                              *)
Fairness ==
  /\ \A w \in Writers : WF_syncVars(WriterStep(w))
  /\ \A r \in Readers : WF_syncVars(ReaderStep(r))

FairSpec == Spec /\ Fairness
-----------------------------------------------------------------------------
(* Every variable has the type its C declaration gives it, and every       *)
(* thread is at a control point of its own function.                       *)
TypeOK ==
  /\ SemaphoreWriterMutex \in Semaphores(Writers)
  /\ SemaphoreReaderMutex \in Semaphores(Readers)
  /\ SemaphoreWriter \in Semaphores(Threads)
  /\ SemaphoreReader \in Semaphores(Threads)
  /\ WriterCount \in Nat /\ ReaderCount \in Nat
  /\ pc \in [Threads -> ReaderLabels \cup WriterLabels]
  /\ \A w \in Writers : pc[w] \in WriterLabels
  /\ \A r \in Readers : pc[r] \in ReaderLabels

ReadersInside == {r \in Readers : pc[r] = "reading"}
WritersInside == {w \in Writers : pc[w] = "writing"}

(* Between Enter and Leave a writer is alone: no other writer and no       *)
(* reader is inside (KboardModule.c:264-399).                              *)
Exclusion ==
  /\ \A w1, w2 \in WritersInside : w1 = w2
  /\ WritersInside # {} => ReadersInside = {}

(* The four semaphores are used as binary ones: no path through Enter and  *)
(* Leave releases one twice.                                               *)
BinarySemaphores ==
  /\ SemaphoreWriterMutex.count <= 1 /\ SemaphoreReaderMutex.count <= 1
  /\ SemaphoreWriter.count <= 1 /\ SemaphoreReader.count <= 1

(* The writers as a group hold the turnstile: the first one is through     *)
(* down(&SemaphoreReader) at 274 and the last one is not yet at 345.       *)
TurnstileClosed ==
  \E w \in Writers :
    /\ pc[w] \in {"enterUpMutex", "enterDownWriter", "entered", "writing",
                  "leaveDownMutex", "leaveCount", "leaveUpReader"}
    /\ w \notin Sleepers(SemaphoreReader)

(* The readers that are through the turnstile and still on their way in,   *)
(* or inside.                                                              *)
ReadersPast ==
  {r \in Readers : /\ pc[r] \in ReaderLabels \ {"idle", "leaveUpWriter", "leaveUpMutex"}
                   /\ r \notin Sleepers(SemaphoreReader)}

(* The writers' preference of the solution: from the moment a writer has   *)
(* announced itself until the last one is done, no further reader comes    *)
(* through; the readers already through only drain away.                   *)
WritersFirst ==
  [][TurnstileClosed /\ TurnstileClosed' => ReadersPast' \subseteq ReadersPast]_syncVars

(* Who has SemaphoreWriter: a writer that is through its down() at 277, or *)
(* the readers that are counted, unless the first of them still waits, and *)
(* the last one until it gives it back.                                    *)
WriterHolders ==
  {w \in Writers : pc[w] \in {"entered", "writing"} /\ w \notin Sleepers(SemaphoreWriter)}
CountedReaders ==
  {r \in Readers : pc[r] \in {"enterDownWriter", "enterUpMutex", "reading", "leaveCount"}}
FirstReaders == {r \in Readers : pc[r] = "enterDownWriter" \/ r \in Sleepers(SemaphoreWriter)}
LastReaders == {r \in Readers : pc[r] = "leaveUpWriter"}
ReadersHold == LastReaders # {} \/ (FirstReaders = {} /\ CountedReaders # {})

(* The solution implements the abstract lock of ReadersWriters.  Parties   *)
(* ask at down(&SemaphoreWriter) (277, 314) and get their turns in that    *)
(* order; nobody enters out of turn, a turn is not lost between two        *)
(* parties, and the readers give theirs up once, with none of them inside. *)
Party == [t \in Threads |-> IF t \in Writers THEN {t} ELSE Readers]
Turn == WriterHolders \cup IF ReadersHold THEN Readers ELSE {}

RW == INSTANCE ReadersWriters WITH turn <- Turn,
                                   line <- Waiting(SemaphoreWriter, Party),
                                   inside <- ReadersInside \cup WritersInside
RWSpec == RW!Spec

(* No writer starves, even though readers wait for SemaphoreWriter too.    *)
WriterEntry ==
  \A w \in Writers :
    pc[w] \in {"enterCount", "enterDownReader", "enterUpMutex",
               "enterDownWriter", "entered"} ~> pc[w] = "writing"

(* A reader gets in unless writers overlap for ever: it does if            *)
(* WriterCount is 0 again and again.                                       *)
ReaderEntry ==
  []<>(WriterCount = 0) =>
    \A r \in Readers :
      pc[r] \in {"enterUpReader", "enterDownMutex", "enterCount",
                 "enterDownWriter", "enterUpMutex"} ~> pc[r] = "reading"
=============================================================================
