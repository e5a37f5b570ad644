---------------------------- MODULE KboardModule1 ----------------------------
(***************************************************************************)
(* lab2/KboardModule.c as it is built, with SYNC_SOLUTION 1: the handlers  *)
(* of KboardHandlers inside the critical sections of SyncSolution1.        *)
(***************************************************************************)
EXTENDS KboardHandlers

VARIABLES SemaphoreMutex, SemaphoreWriter, ReaderCount, pc

(* As in SyncSolution1. *)
ASSUME ThreadsAssumption == IsFiniteSet(Readers) /\ Readers \cap Writers = {}

Sync == INSTANCE SyncSolution1

syncVars == <<SemaphoreMutex, SemaphoreWriter, ReaderCount, pc>>
vars == <<kboardVars, syncVars>>

(* KboardModuleInit, up to the creation of the proc files. *)
Init == InitializeKboard /\ Sync!SyncInit

WriterCall(w) ==
  /\ Sync!WriterEnter_Down(w)
  /\ KboardWriter_Show_Call(w) \/ \E in \in Inputs : KboardWriter_Write_Call(w, in)

WriterRefuse(w) ==
  /\ pc[w] = "idle"
  /\ \E in \in Inputs : KboardWriter_Write_Refuse(w, in)
  /\ UNCHANGED syncVars

ReaderCall(r) == Sync!ReaderEnter_DownMutex(r) /\ KboardReader_Show_Call(r)

(* Enter and Leave proceed. *)
WriterSync(w) == Sync!WriterEnter_Return(w) /\ UNCHANGED kboardVars

ReaderSync(r) ==
  /\ \/ Sync!ReaderEnter_Count(r) \/ Sync!ReaderEnter_DownWriter(r) \/ Sync!ReaderEnter_UpMutex(r)
     \/ Sync!ReaderLeave_Count(r) \/ Sync!ReaderLeave_UpWriter(r) \/ Sync!ReaderLeave_UpMutex(r)
  /\ UNCHANGED kboardVars

InCriticalSection_NotAwaited(t) == Body(t) /\ UNCHANGED syncVars

InCriticalSection(t) == pc[t] \in {"reading", "writing"} /\ Body(t) /\ UNCHANGED syncVars

WriterLeave(w) == Leaves(w) /\ Sync!WriterLeave_Up(w)
ReaderLeave(r) == Leaves(r) /\ Sync!ReaderLeave_DownMutex(r)

Return(t) == pc[t] = "idle" /\ Returns(t) /\ UNCHANGED syncVars

WriterStep(w) == WriterSync(w) \/ InCriticalSection(w) \/ WriterLeave(w) \/ Return(w)
ReaderStep(r) == ReaderSync(r) \/ InCriticalSection(r) \/ ReaderLeave(r) \/ Return(r)

ObserverStep(o) == (Dumper_Print(o) \/ Observer_Close(o)) /\ UNCHANGED syncVars

Next ==
  \/ \E w \in Writers : WriterCall(w) \/ WriterRefuse(w) \/ WriterStep(w)
  \/ \E r \in Readers : ReaderCall(r) \/ ReaderStep(r)
  \/ \E o \in Observers : Observe(o) /\ UNCHANGED syncVars

Spec == Init /\ [][Next]_vars

(* Threads that are not asleep keep running, as in SyncSolution1; nothing  *)
(* makes one call again.                                                   *)
FairSpec ==
  /\ Spec
  /\ \A w \in Writers : WF_vars(WriterStep(w))
  /\ \A r \in Readers : WF_vars(ReaderStep(r))
  /\ \A o \in Observers : WF_vars(ObserverStep(o))
-----------------------------------------------------------------------------
Ints == -INT_MAX - 1 .. INT_MAX
Numbers == (UNION {{in.text[i] : i \in DOMAIN in.text} : in \in Inputs}) \cup StackNumbers
Values == Numbers \cup {RING_BUFFER_INIT_VALUE}

(* Types of the shared state and of the locals; RingBufferCount stays in   *)
(* 0..RING_BUFFER_SIZE and the index inside the array.                     *)
TypeOK ==
  /\ RingBuffer \in [Slots -> Values]
  /\ RingBufferCount \in 0 .. RING_BUFFER_SIZE
  /\ RingBufferCurrentIndex \in Slots
  /\ PerformWriter \in Ints /\ PerformReader \in Ints
  /\ input \in [Users -> Inputs \cup {NoInput}]
  /\ item \in [Users -> Values]
  /\ randomIndex \in [Readers -> Slots]

(* What a writer in its handler has asked for, until it is decided.        *)
Request(handler, statement, v) ==
  CASE statement \in {"load", "perform"} ->
         IF handler = "write" THEN <<"enqueue", v>> ELSE <<"dequeue">>
    [] statement \in {"testFull", "store", "count"} -> <<"enqueue", v>>
    [] statement \in {"testEmpty", "take"} -> <<"dequeue">>
    [] OTHER -> << >>

Asked == [w \in Writers |-> Request(op[w], at[w], item[w])]

(* Reads and writes of /proc/kboard/writer implement the bounded FIFO      *)
(* queue: an item comes out once, in order; a write is refused with -EPERM *)
(* exactly when the queue is full, a read exactly when it is empty, and a  *)
(* write stores the item it scanned.                                       *)
Clip == INSTANCE ClipQueue WITH
          Threads <- Writers, queue <- Contents, asked <- Asked,
          response <- [w \in Writers |-> response[w]],
          Items <- Numbers, Capacity <- RING_BUFFER_SIZE,
          OK <- 0, FULL <- -EPERM, EMPTY <- -EPERM,
          REFUSED <- {-E2BIG, -EFAULT, -EINVAL}, FAULT <- -EFAULT
ClipSpec == Clip!Spec

(* A reader never looks at a half-done enqueue or dequeue: what it prints  *)
(* is the item queued in its slot, or RING_BUFFER_INIT_VALUE for a slot    *)
(* that holds none.                                                        *)
ReaderSeesQueue ==
  \A r \in Readers : at[r] = "leave" =>
    /\ item[r] = RingBuffer[randomIndex[r]]
    /\ item[r] # RING_BUFFER_INIT_VALUE <=> randomIndex[r] \in Occupied

(* What /proc/kboard/count prints at any moment, without a lock, is at     *)
(* most one off the number of slots that hold an item (538 against 427-430 *)
(* and 487-488).                                                           *)
CountNearSlots ==
  RingBufferCount - Cardinality({i \in Slots : RingBuffer[i] # RING_BUFFER_INIT_VALUE}) \in -1 .. 1

(* A write that gets past the checks (comment and message at               *)
(* KboardModule.c:447-464, "must input 1 integer") enqueues the integer it *)
(* was given.                                                              *)
StoredAsWritten ==
  \A w \in Writers : op[w] = "write" /\ at[w] # "none" => input[w].text = <<item[w]>>

(* No write or dequeue is missing in PerformWriter.                        *)
PerformWriterExact == PerformWriter = ran.writer

(* PerformReader is how often readers ran (the comments at                 *)
(* KboardModule.c:129 and 549).                                            *)
PerformReaderExact == PerformReader = ran.reader

(* Every handler returns, on the early returns at 420-425 and 480-485 too; *)
(* those of a writer unless readers overlap for ever, and those of the     *)
(* count and dump files whatever the others do meanwhile.                  *)
CallsReturn ==
  /\ \A r \in Readers : op[r] # "none" ~> op[r] = "none"
  /\ \A o \in Observers : dump[o] # NoDump ~> dump[o] = NoDump
  /\ []<>(ReaderCount = 0) => \A w \in Writers : op[w] # "none" ~> op[w] = "none"
=============================================================================
