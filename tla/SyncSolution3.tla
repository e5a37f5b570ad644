---------------------------- MODULE SyncSolution3 ----------------------------
(***************************************************************************)
(* SYNC_SOLUTION 3 of lab2/KboardModule.c: every thread looks at the four  *)
(* counts under SemaphoreMutex, and one that may not enter counts itself   *)
(* waiting and sleeps on SemaphoreReader or SemaphoreWriter (both start at *)
(* 0) until a thread that leaves wakes it.  A woken thread takes           *)
(* SemaphoreMutex again to move itself from waiting to active.             *)
(*                                                                         *)
(* One action per semaphore call and one per block of tests and updates    *)
(* of the counts between two of them, all of them under SemaphoreMutex.    *)
(***************************************************************************)
EXTENDS Semaphore, FiniteSets

CONSTANTS Readers,     \* threads reading /proc/kboard/reader
          Writers,     \* threads reading or writing /proc/kboard/writer
          MaxSurplus   \* bound: no new call once more wake-ups than this are unused

ASSUME ThreadsAssumption ==
  /\ IsFiniteSet(Readers) /\ IsFiniteSet(Writers)
  /\ Readers \cap Writers = {}

ASSUME SurplusAssumption == MaxSurplus \in Nat

VARIABLES SemaphoreMutex, SemaphoreWriter, SemaphoreReader,
          WriterCount, ReaderCount, WriterWaitingCount, ReaderWaitingCount,
          index,     \* the loop variable of LeaveCriticalSection_Writer
          pc         \* the control point of each thread

semaphores == <<SemaphoreMutex, SemaphoreWriter, SemaphoreReader>>
counts == <<WriterCount, ReaderCount, WriterWaitingCount, ReaderWaitingCount>>
syncVars == <<semaphores, counts, index, pc>>

Threads == Readers \cup Writers

WriterLabels == {"idle", "enterTest", "waitUpMutex", "waitDown", "waitDownMutex",
                 "waitOver", "enterUpMutex", "writing", "leaveCount",
                 "leaveWakeReaders", "leaveWakeWriter", "leaveUpMutex"}

ReaderLabels == {"idle", "enterTest", "waitUpMutex", "waitDown", "waitDownMutex",
                 "waitOver", "enterUpMutex", "reading", "leaveCount",
                 "leaveWakeWriter", "leaveUpMutex"}

(* InitializeSyncSolution; no thread is in a handler before the proc files *)
(* exist.                                                                  *)
SyncInit ==
  /\ SemaphoreMutex = InitializeSemaphore(1)
  /\ SemaphoreWriter = InitializeSemaphore(0)
  /\ SemaphoreReader = InitializeSemaphore(0)
  /\ WriterCount = 0 /\ ReaderCount = 0
  /\ WriterWaitingCount = 0 /\ ReaderWaitingCount = 0
  /\ index = [w \in Writers |-> 0]
  /\ pc = [t \in Threads |-> "idle"]

Awake(t) ==
  t \notin UNION {Sleepers(SemaphoreMutex), Sleepers(SemaphoreWriter),
                  Sleepers(SemaphoreReader)}

(* Thread t, not asleep in a down(), moves from one control point on.      *)
Moves(t, from, to) ==
  /\ pc[t] = from
  /\ Awake(t)
  /\ pc' = [pc EXCEPT ![t] = to]

(* The next value of one semaphore; the other two keep theirs. *)
OnMutex(sema) ==
  /\ SemaphoreMutex' = sema
  /\ UNCHANGED <<SemaphoreWriter, SemaphoreReader, counts, index>>
OnWriter(sema) ==
  /\ SemaphoreWriter' = sema
  /\ UNCHANGED <<SemaphoreMutex, SemaphoreReader, counts, index>>
OnReader(sema) ==
  /\ SemaphoreReader' = sema
  /\ UNCHANGED <<SemaphoreMutex, SemaphoreWriter, counts>>

(* down() and up() between two control points. *)
DownMutex(t, from, to) == Moves(t, from, to) /\ OnMutex(Down(SemaphoreMutex, t))
UpMutex(t, from, to) == Moves(t, from, to) /\ OnMutex(Up(SemaphoreMutex))
UpWriter(t, from, to) == Moves(t, from, to) /\ OnWriter(Up(SemaphoreWriter))

(* The semaphore calls readers and writers make alike.  The guard on       *)
(* MaxSurplus is not in the code: it keeps the state space finite, since   *)
(* a wake-up sent twice stays in its semaphore for ever.                   *)
Enter_DownMutex(t) ==
  /\ SemaphoreReader.count + SemaphoreWriter.count <= MaxSurplus
  /\ DownMutex(t, "idle", "enterTest")

Wait_UpMutex(t) == UpMutex(t, "waitUpMutex", "waitDown")

Wait_DownMutex(t) == DownMutex(t, "waitDownMutex", "waitOver")

Leave_UpMutex(t) == UpMutex(t, "leaveUpMutex", "idle")
-----------------------------------------------------------------------------
(* EnterCriticalSection_Writer *)
WriterMustWait ==
  \/ WriterCount > 0 \/ ReaderCount > 0
  \/ WriterWaitingCount > 0 \/ ReaderWaitingCount > 0

WriterEnter_Wait(w) ==
  /\ WriterMustWait
  /\ Moves(w, "enterTest", "waitUpMutex")
  /\ WriterWaitingCount' = WriterWaitingCount + 1
  /\ UNCHANGED <<semaphores, WriterCount, ReaderCount, ReaderWaitingCount, index>>

WriterEnter_Down(w) ==
  Moves(w, "waitDown", "waitDownMutex") /\ OnWriter(Down(SemaphoreWriter, w))

WriterEnter_WaitOver_Uncounted(w) ==
  /\ Moves(w, "waitOver", "enterUpMutex")
  /\ WriterCount' = WriterCount + 1
  /\ UNCHANGED <<semaphores, ReaderCount, WriterWaitingCount, ReaderWaitingCount, index>>

WriterEnter_WaitOver(w) ==
  /\ Moves(w, "waitOver", "enterUpMutex")
  /\ WriterWaitingCount' = WriterWaitingCount - 1
  /\ WriterCount' = WriterCount + 1
  /\ UNCHANGED <<semaphores, ReaderCount, ReaderWaitingCount, index>>

WriterEnter_NoWait(w) ==
  /\ ~WriterMustWait
  /\ Moves(w, "enterTest", "enterUpMutex")
  /\ WriterCount' = WriterCount + 1
  /\ UNCHANGED <<semaphores, ReaderCount, WriterWaitingCount, ReaderWaitingCount, index>>

WriterEnter_UpMutex(w) == UpMutex(w, "enterUpMutex", "writing")
-----------------------------------------------------------------------------
(* LeaveCriticalSection_Writer *)
WriterLeave_DownMutex(w) == DownMutex(w, "writing", "leaveCount")

(* WriterCount--, and which of the three branches comes next.              *)
WriterLeave_Count(w) ==
  /\ Moves(w, "leaveCount",
           CASE ReaderWaitingCount > 0 -> "leaveWakeReaders"
             [] ReaderWaitingCount <= 0 /\ WriterWaitingCount > 0 -> "leaveWakeWriter"
             [] OTHER -> "leaveUpMutex")
  /\ WriterCount' = WriterCount - 1
  /\ UNCHANGED <<semaphores, ReaderCount, WriterWaitingCount, ReaderWaitingCount, index>>

(* One turn of the loop over index: wake a reader, and once more while     *)
(* index is below ReaderWaitingCount.  index is 0 outside the loop.        *)
WakesMore_ButOne(i) == i + 1 < ReaderWaitingCount

WakesMore(i) == i < ReaderWaitingCount

WriterLeave_WakeReader(w) ==
  /\ Moves(w, "leaveWakeReaders",
           IF WakesMore(index[w] + 1) THEN "leaveWakeReaders" ELSE "leaveUpMutex")
  /\ index' = [index EXCEPT ![w] = IF WakesMore(@ + 1) THEN @ + 1 ELSE 0]
  /\ OnReader(Up(SemaphoreReader))

WriterLeave_WakeWriter(w) == UpWriter(w, "leaveWakeWriter", "leaveUpMutex")
-----------------------------------------------------------------------------
(* EnterCriticalSection_Reader *)
ReaderMustWait == WriterWaitingCount > 0 \/ WriterCount > 0

ReaderEnter_Wait(r) ==
  /\ ReaderMustWait
  /\ Moves(r, "enterTest", "waitUpMutex")
  /\ ReaderWaitingCount' = ReaderWaitingCount + 1
  /\ UNCHANGED <<semaphores, WriterCount, ReaderCount, WriterWaitingCount, index>>

ReaderEnter_Down(r) ==
  /\ Moves(r, "waitDown", "waitDownMutex")
  /\ OnReader(Down(SemaphoreReader, r))
  /\ UNCHANGED index

ReaderEnter_WaitOver(r) ==
  /\ Moves(r, "waitOver", "enterUpMutex")
  /\ ReaderWaitingCount' = ReaderWaitingCount - 1
  /\ ReaderCount' = ReaderCount + 1
  /\ UNCHANGED <<semaphores, WriterCount, WriterWaitingCount, index>>

ReaderEnter_NoWait(r) ==
  /\ ~ReaderMustWait
  /\ Moves(r, "enterTest", "enterUpMutex")
  /\ ReaderCount' = ReaderCount + 1
  /\ UNCHANGED <<semaphores, WriterCount, WriterWaitingCount, ReaderWaitingCount, index>>

ReaderEnter_UpMutex(r) == UpMutex(r, "enterUpMutex", "reading")
-----------------------------------------------------------------------------
(* LeaveCriticalSection_Reader *)
ReaderLeave_DownMutex(r) == DownMutex(r, "reading", "leaveCount")

LastReader_Never(count) == count < 0

LastReader(count) == count = 0

ReaderLeave_Count_Twice(r) ==
  /\ Moves(r, "leaveCount",
           IF LastReader(ReaderCount - 2) /\ WriterWaitingCount > 0
             THEN "leaveWakeWriter" ELSE "leaveUpMutex")
  /\ ReaderCount' = ReaderCount - 2
  /\ UNCHANGED <<semaphores, WriterCount, WriterWaitingCount, ReaderWaitingCount, index>>

ReaderLeave_Count(r) ==
  /\ Moves(r, "leaveCount",
           IF LastReader(ReaderCount - 1) /\ WriterWaitingCount > 0
             THEN "leaveWakeWriter" ELSE "leaveUpMutex")
  /\ ReaderCount' = ReaderCount - 1
  /\ UNCHANGED <<semaphores, WriterCount, WriterWaitingCount, ReaderWaitingCount, index>>

ReaderLeave_WakeWriter(r) == UpWriter(r, "leaveWakeWriter", "leaveUpMutex")
-----------------------------------------------------------------------------
(* What a thread does once it is in Enter or Leave, without being asked.   *)
WriterStep(w) ==
  \/ WriterEnter_Wait(w) \/ Wait_UpMutex(w) \/ WriterEnter_Down(w) \/ Wait_DownMutex(w)
  \/ WriterEnter_WaitOver(w) \/ WriterEnter_NoWait(w) \/ WriterEnter_UpMutex(w)
  \/ WriterLeave_DownMutex(w) \/ WriterLeave_Count(w) \/ WriterLeave_WakeReader(w)
  \/ WriterLeave_WakeWriter(w) \/ Leave_UpMutex(w)

ReaderStep(r) ==
  \/ ReaderEnter_Wait(r) \/ Wait_UpMutex(r) \/ ReaderEnter_Down(r) \/ Wait_DownMutex(r)
  \/ ReaderEnter_WaitOver(r) \/ ReaderEnter_NoWait(r) \/ ReaderEnter_UpMutex(r)
  \/ ReaderLeave_DownMutex(r) \/ ReaderLeave_Count(r)
  \/ ReaderLeave_WakeWriter(r) \/ Leave_UpMutex(r)

Next ==
  \/ \E w \in Writers : Enter_DownMutex(w) \/ WriterStep(w)
  \/ \E r \in Readers : Enter_DownMutex(r) \/ ReaderStep(r)

Spec == SyncInit /\ [][Next]_syncVars

(* The scheduler keeps running every thread that is not asleep, and the    *)
(* body of the critical section is a bounded delay (mdelay); nothing makes *)
(* a thread call Enter again.                                              *)
Fairness ==
  /\ \A w \in Writers : WF_syncVars(WriterStep(w))
  /\ \A r \in Readers : WF_syncVars(ReaderStep(r))

FairSpec == Spec /\ Fairness
-----------------------------------------------------------------------------
(* Every variable has the type its C declaration gives it, and every       *)
(* thread is at a control point of its own function.                       *)
TypeOK ==
  /\ SemaphoreMutex \in Semaphores(Threads)
  /\ SemaphoreWriter \in Semaphores(Writers)
  /\ SemaphoreReader \in Semaphores(Readers)
  /\ WriterCount \in Nat /\ ReaderCount \in Nat
  /\ WriterWaitingCount \in Nat /\ ReaderWaitingCount \in Nat
  /\ index \in [Writers -> Nat]
  /\ pc \in [Threads -> ReaderLabels \cup WriterLabels]
  /\ \A w \in Writers : pc[w] \in WriterLabels
  /\ \A r \in Readers : pc[r] \in ReaderLabels

ReadersInside == {r \in Readers : pc[r] = "reading"}
WritersInside == {w \in Writers : pc[w] = "writing"}

(* Between Enter and Leave a writer is alone: no other writer and no       *)
(* reader is inside (KboardModule.c:264-399).                              *)
Exclusion ==
  /\ \A w1, w2 \in WritersInside : w1 = w2
  /\ WritersInside # {} => ReadersInside = {}

WaitLabels == {"waitUpMutex", "waitDown", "waitDownMutex", "waitOver"}

(* The four counts stay exact under every interleaving of Enter and Leave: *)
(* what the tests at 281, 320, 354, 361 and 393 read is the number of      *)
(* threads waiting and active, a woken thread counting as waiting until it *)
(* has SemaphoreMutex again (288, 326).                                    *)
CountsExact ==
  /\ WriterWaitingCount = Cardinality({w \in Writers : pc[w] \in WaitLabels})
  /\ ReaderWaitingCount = Cardinality({r \in Readers : pc[r] \in WaitLabels})
  /\ WriterCount = Cardinality({w \in Writers :
                     pc[w] \in {"enterUpMutex", "writing", "leaveCount"}})
  /\ ReaderCount = Cardinality({r \in Readers :
                     pc[r] \in {"enterUpMutex", "reading", "leaveCount"}})

(* No wake-up is lost and nobody starves: a reader that has called         *)
(* EnterCriticalSection_Reader gets in.                                    *)
ReaderEntry ==
  \A r \in Readers :
    pc[r] \in WaitLabels \cup {"enterTest", "enterUpMutex"} ~> pc[r] = "reading"

(* The same for a writer in EnterCriticalSection_Writer.                   *)
WriterEntry ==
  \A w \in Writers :
    pc[w] \in WaitLabels \cup {"enterTest", "enterUpMutex"} ~> pc[w] = "writing"
=============================================================================
