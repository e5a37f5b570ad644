---------------------------- MODULE SyncSolution1 ----------------------------
(***************************************************************************)
(* SYNC_SOLUTION 1 of lab2/KboardModule.c (the one the module is built     *)
(* with): readers share SemaphoreWriter through ReaderCount, which         *)
(* SemaphoreMutex protects.  One action per semaphore call and one per     *)
(* counter update; the critical section itself is the control point        *)
(* "reading" or "writing", whose body KboardModule adds.                   *)
(***************************************************************************)
EXTENDS Semaphore, FiniteSets

CONSTANTS Readers,   \* threads reading /proc/kboard/reader
          Writers    \* threads reading or writing /proc/kboard/writer

ASSUME ThreadsAssumption == IsFiniteSet(Readers) /\ Readers \cap Writers = {}

VARIABLES SemaphoreMutex, SemaphoreWriter, ReaderCount,
          pc         \* the control point of each thread

syncVars == <<SemaphoreMutex, SemaphoreWriter, ReaderCount, pc>>

Threads == Readers \cup Writers

WriterLabels == {"idle", "entered", "writing"}

ReaderLabels == {"idle", "enterCount", "enterDownWriter", "enterUpMutex",
                 "reading", "leaveCount", "leaveUpWriter", "leaveUpMutex"}

(* InitializeSyncSolution; no thread is in a handler before the proc files *)
(* exist.                                                                  *)
SyncInit ==
  /\ SemaphoreMutex = InitializeSemaphore(1)
  /\ SemaphoreWriter = InitializeSemaphore(1)
  /\ ReaderCount = 0
  /\ pc = [t \in Threads |-> "idle"]

Awake(t) == t \notin Sleepers(SemaphoreMutex) \cup Sleepers(SemaphoreWriter)

(* Thread t, not asleep in a down(), moves from one control point on.      *)
Moves(t, from, to) ==
  /\ pc[t] = from
  /\ Awake(t)
  /\ pc' = [pc EXCEPT ![t] = to]
-----------------------------------------------------------------------------
(* EnterCriticalSection_Writer: the down(), and its return. *)
WriterEnter_Down(w) ==
  /\ Moves(w, "idle", "entered")
  /\ SemaphoreWriter' = Down(SemaphoreWriter, w)
  /\ UNCHANGED <<SemaphoreMutex, ReaderCount>>

WriterEnter_Return(w) ==
  /\ Moves(w, "entered", "writing")
  /\ UNCHANGED <<SemaphoreMutex, SemaphoreWriter, ReaderCount>>

(* LeaveCriticalSection_Writer *)
WriterLeave_Up_Skipped(w) ==
  /\ Moves(w, "writing", "idle")
  /\ UNCHANGED <<SemaphoreMutex, SemaphoreWriter, ReaderCount>>

WriterLeave_Up(w) ==
  /\ Moves(w, "writing", "idle")
  /\ SemaphoreWriter' = Up(SemaphoreWriter)
  /\ UNCHANGED <<SemaphoreMutex, ReaderCount>>
-----------------------------------------------------------------------------
(* EnterCriticalSection_Reader *)
ReaderEnter_DownMutex(r) ==
  /\ Moves(r, "idle", "enterCount")
  /\ SemaphoreMutex' = Down(SemaphoreMutex, r)
  /\ UNCHANGED <<SemaphoreWriter, ReaderCount>>

FirstReader_Second(count) == count = 2
FirstReader_Any(count) == count >= 1

FirstReader(count) == count = 1

ReaderEnter_Count(r) ==
  /\ Moves(r, "enterCount", IF FirstReader(ReaderCount + 1)
                              THEN "enterDownWriter" ELSE "enterUpMutex")
  /\ ReaderCount' = ReaderCount + 1
  /\ UNCHANGED <<SemaphoreMutex, SemaphoreWriter>>

ReaderEnter_DownWriter(r) ==
  /\ Moves(r, "enterDownWriter", "enterUpMutex")
  /\ SemaphoreWriter' = Down(SemaphoreWriter, r)
  /\ UNCHANGED <<SemaphoreMutex, ReaderCount>>

ReaderEnter_UpMutex_Skipped(r) ==
  /\ Moves(r, "enterUpMutex", "reading")
  /\ SemaphoreMutex' = IF FirstReader(ReaderCount) THEN SemaphoreMutex
                                                   ELSE Up(SemaphoreMutex)
  /\ UNCHANGED <<SemaphoreWriter, ReaderCount>>

ReaderEnter_UpMutex(r) ==
  /\ Moves(r, "enterUpMutex", "reading")
  /\ SemaphoreMutex' = Up(SemaphoreMutex)
  /\ UNCHANGED <<SemaphoreWriter, ReaderCount>>
-----------------------------------------------------------------------------
(* LeaveCriticalSection_Reader *)
ReaderLeave_DownMutex(r) ==
  /\ Moves(r, "reading", "leaveCount")
  /\ SemaphoreMutex' = Down(SemaphoreMutex, r)
  /\ UNCHANGED <<SemaphoreWriter, ReaderCount>>

LastReader_Early(count) == count <= 1
LastReader_Never(count) == count < 0

LastReader(count) == count = 0

ReaderLeave_Count_Twice(r) ==
  /\ Moves(r, "leaveCount", "leaveUpMutex")
  /\ ReaderCount' = ReaderCount - 2
  /\ UNCHANGED <<SemaphoreMutex, SemaphoreWriter>>

ReaderLeave_Count(r) ==
  /\ Moves(r, "leaveCount", IF LastReader(ReaderCount - 1)
                              THEN "leaveUpWriter" ELSE "leaveUpMutex")
  /\ ReaderCount' = ReaderCount - 1
  /\ UNCHANGED <<SemaphoreMutex, SemaphoreWriter>>

ReaderLeave_UpWriter(r) ==
  /\ Moves(r, "leaveUpWriter", "leaveUpMutex")
  /\ SemaphoreWriter' = Up(SemaphoreWriter)
  /\ UNCHANGED <<SemaphoreMutex, ReaderCount>>

ReaderLeave_UpMutex(r) ==
  /\ Moves(r, "leaveUpMutex", "idle")
  /\ SemaphoreMutex' = Up(SemaphoreMutex)
  /\ UNCHANGED <<SemaphoreWriter, ReaderCount>>
-----------------------------------------------------------------------------
(* What a thread does once it is in Enter or Leave, without being asked.   *)
WriterStep(w) == WriterEnter_Return(w) \/ WriterLeave_Up(w)

ReaderStep(r) ==
  \/ ReaderEnter_Count(r) \/ ReaderEnter_DownWriter(r) \/ ReaderEnter_UpMutex(r)
  \/ ReaderLeave_DownMutex(r) \/ ReaderLeave_Count(r)
  \/ ReaderLeave_UpWriter(r) \/ ReaderLeave_UpMutex(r)

Next ==
  \/ \E w \in Writers : WriterEnter_Down(w) \/ WriterStep(w)
  \/ \E r \in Readers : ReaderEnter_DownMutex(r) \/ ReaderStep(r)

Spec == SyncInit /\ [][Next]_syncVars

(* The scheduler keeps running every thread that is not asleep, and the    *)
(* body of the critical section is a bounded delay (mdelay); nothing makes *)
(* a thread call Enter again.                                              *)
Fairness ==
  /\ \A w \in Writers : WF_syncVars(WriterStep(w))
  /\ \A r \in Readers : WF_syncVars(ReaderStep(r))

FairSpec == Spec /\ Fairness
-----------------------------------------------------------------------------
(* Every variable has the type its C declaration gives it, and every       *)
(* thread is at a control point of its own function.                       *)
TypeOK ==
  /\ SemaphoreMutex \in Semaphores(Readers)
  /\ SemaphoreWriter \in Semaphores(Threads)
  /\ ReaderCount \in Nat
  /\ pc \in [Threads -> ReaderLabels \cup WriterLabels]
  /\ \A w \in Writers : pc[w] \in WriterLabels
  /\ \A r \in Readers : pc[r] \in ReaderLabels

ReadersInside == {r \in Readers : pc[r] = "reading"}
WritersInside == {w \in Writers : pc[w] = "writing"}

(* Between Enter and Leave a writer is alone: no other writer and no       *)
(* reader is inside (KboardModule.c:264-399).                              *)
Exclusion ==
  /\ \A w1, w2 \in WritersInside : w1 = w2
  /\ WritersInside # {} => ReadersInside = {}

(* Both semaphores are used as binary ones: no path through Enter and      *)
(* Leave releases one twice (up() at 305, 337, 377, 379).                  *)
BinarySemaphores == SemaphoreMutex.count <= 1 /\ SemaphoreWriter.count <= 1

(* The readers' preference of the solution: while a reader is inside, no   *)
(* other reader waits for SemaphoreWriter (the test at 301), however many  *)
(* writers wait for it.                                                    *)
ReadersShare ==
  ReadersInside # {} => Sleepers(SemaphoreWriter) \cap Readers = {}

(* The reasons the three properties above hold, as an invariant that every *)
(* step preserves on its own.  First, who may sleep where.                 *)
SleepersPlaced ==
  /\ WellFormed(SemaphoreMutex) /\ WellFormed(SemaphoreWriter)
  /\ \A t \in Sleepers(SemaphoreMutex) :
       t \in Readers /\ pc[t] \in {"enterCount", "leaveCount"}
  /\ \A t \in Sleepers(SemaphoreWriter) :
       \/ t \in Writers /\ pc[t] = "entered"
       \/ t \in Readers /\ pc[t] = "enterUpMutex"

MutexSections == {"enterCount", "enterDownWriter", "enterUpMutex",
                  "leaveCount", "leaveUpWriter", "leaveUpMutex"}
MutexHolders == {r \in Readers : pc[r] \in MutexSections /\ r \notin Sleepers(SemaphoreMutex)}

(* SemaphoreMutex is held by the one reader between its down() and up().   *)
MutexHeld ==
  /\ SemaphoreMutex.count <= 1
  /\ \A r1, r2 \in MutexHolders : r1 = r2
  /\ SemaphoreMutex.count = 1 <=> MutexHolders = {}

CountedReaders ==
  {r \in Readers : pc[r] \in {"enterDownWriter", "enterUpMutex", "reading", "leaveCount"}}

(* The reader that is about to take SemaphoreWriter, or sleeps for it.     *)
AwaitsWriter(r) == pc[r] = "enterDownWriter" \/ r \in Sleepers(SemaphoreWriter)

(* ReaderCount counts the readers between their ++ and their --, of which  *)
(* the one that takes SemaphoreWriter is the first and the one that gives  *)
(* it back was the last.                                                   *)
ReadersCounted ==
  /\ ReaderCount = Cardinality(CountedReaders)
  /\ \A r \in Readers : AwaitsWriter(r) => CountedReaders = {r}
  /\ \A r \in Readers : pc[r] = "leaveUpWriter" => CountedReaders = {}

ReadersHold ==
  \/ \E r \in Readers : pc[r] = "leaveUpWriter"
  \/ CountedReaders # {} /\ \A r \in Readers : ~AwaitsWriter(r)
WriterHolders ==
  {w \in Writers : pc[w] \in {"entered", "writing"} /\ w \notin Sleepers(SemaphoreWriter)}

(* SemaphoreWriter is held by one writer, by the readers together, or by   *)
(* nobody.                                                                 *)
WriterHeld ==
  /\ SemaphoreWriter.count <= 1
  /\ \A w1, w2 \in WriterHolders : w1 = w2
  /\ WriterHolders # {} => ~ReadersHold
  /\ SemaphoreWriter.count = 1 <=> WriterHolders = {} /\ ~ReadersHold

LockInvariant == SleepersPlaced /\ MutexHeld /\ ReadersCounted /\ WriterHeld

(* The solution implements the abstract lock of ReadersWriters.  Parties   *)
(* ask at down(&SemaphoreWriter) (267, 303) and get their turns in that    *)
(* order; nobody enters out of turn, a turn is not lost between two        *)
(* parties, and the readers give theirs up once, with none of them inside. *)
Party == [t \in Threads |-> IF t \in Writers THEN {t} ELSE Readers]
Turn == WriterHolders \cup IF ReadersHold THEN Readers ELSE {}

RW == INSTANCE ReadersWriters WITH turn <- Turn,
                                   line <- Waiting(SemaphoreWriter, Party),
                                   inside <- ReadersInside \cup WritersInside
RWSpec == RW!Spec

(* No reader starves: one that has called EnterCriticalSection_Reader gets *)
(* in, since the list of each semaphore is served in order.                *)
ReaderEntry ==
  \A r \in Readers :
    pc[r] \in {"enterCount", "enterDownWriter", "enterUpMutex"} ~> pc[r] = "reading"

(* A writer gets in unless readers overlap for ever: it does if            *)
(* ReaderCount is 0 again and again.                                       *)
WriterEntry ==
  []<>(ReaderCount = 0) =>
    \A w \in Writers : pc[w] = "entered" ~> pc[w] = "writing"
=============================================================================
