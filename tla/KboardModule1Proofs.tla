------------------------- MODULE KboardModule1Proofs -------------------------
(***************************************************************************)
(* Proofs about the module of lab2 as it is built, for any set of readers, *)
(* writers and observers, any size of the ring, any inputs and any width   *)
(* of int.  Who may be in a body is taken from the proofs of SyncSolution1 *)
(* (Lock); here is what the bodies do to the ring and to PerformWriter     *)
(* when a writer's body runs alone.                                        *)
(***************************************************************************)
EXTENDS KboardModule1, DataProofs, FiniteSetTheorems

Lock == INSTANCE SyncSolution1Proofs

(* What is stored: the numbers that pass the checks of KboardWriter_Write. *)
Items == {v \in Numbers : v >= 0}
Cells == Items \cup {RING_BUFFER_INIT_VALUE}

InBody(t) == at[t] \notin {"none", "load"}

WriterAt == {"none", "load", "perform", "testFull", "store", "count", "testEmpty",
             "take", "clear", "uncount", "advance", "leave"}
ReaderAt == {"none", "load", "perform", "read", "leave"}

(* The types TypeOK leaves out, and that no slot holds a negative number   *)
(* but RING_BUFFER_INIT_VALUE.                                             *)
LocalsOK ==
  /\ RingBuffer \in [Slots -> Cells]
  /\ op \in [Users -> {"none", "show", "write", "read"}]
  /\ at \in [Users -> WriterAt \cup ReaderAt]
  /\ loaded \in [Users -> Ints]
  /\ response \in [Users -> Seq(Int)]
  /\ ran \in [writer : Ints, reader : Ints]

(* What a writer in the middle of its handler may rely on: nobody changed  *)
(* the ring or PerformWriter since it looked at them.                      *)
WriterKnows(w) ==
  /\ at[w] \in WriterAt
  /\ InBody(w) => pc[w] = "writing"
  /\ op[w] = "none" => at[w] = "none" /\ response[w] = << >>
  /\ at[w] \in {"load", "perform"} /\ op[w] = "write" => item[w] \in Items
  /\ at[w] \in {"testFull", "store", "count"} => item[w] \in Items
  /\ at[w] = "perform" => loaded[w] = PerformWriter
  /\ at[w] \in {"store", "count"} => RingBufferCount < RING_BUFFER_SIZE
  /\ at[w] = "count" =>
       RingBuffer[SlotAt(RING_BUFFER_SIZE, RingBufferCurrentIndex + RingBufferCount)] = item[w]
  /\ at[w] \in {"take", "clear", "uncount"} => RingBufferCount > 0
  /\ at[w] = "advance" => RingBufferCount < RING_BUFFER_SIZE
  /\ at[w] \in {"load", "perform", "testFull", "store", "count", "testEmpty", "take"} =>
       response[w] = << >>

(* What a reader relies on: the ring stays as it is until it leaves.       *)
ReaderKnows(r) ==
  /\ at[r] \in ReaderAt
  /\ InBody(r) => pc[r] = "reading"
  /\ at[r] = "leave" => item[r] = RingBuffer[randomIndex[r]]

(* The slots of length items from first on, and the slots that are not     *)
(* empty.                                                                  *)
Span(size, first, length) == {SlotAt(size, first + i - 1) : i \in 1 .. length}
Filled == {i \in Slots : RingBuffer[i] # RING_BUFFER_INIT_VALUE}

FilledIs(first, length) == Filled = Span(RING_BUFFER_SIZE, first, length)

(* The slots that are not empty are those the count and the index say,     *)
(* except between the store and the count of an enqueue (487, 488) and     *)
(* between the clear, the count and the index of a dequeue (428-430).      *)
RingShape ==
  /\ (\A w \in Writers : at[w] \notin {"count", "uncount", "advance"}) =>
       FilledIs(RingBufferCurrentIndex, RingBufferCount)
  /\ \A w \in Writers :
       /\ at[w] = "count" => FilledIs(RingBufferCurrentIndex, RingBufferCount + 1)
       /\ at[w] = "uncount" => FilledIs(RingBufferCurrentIndex + 1, RingBufferCount - 1)
       /\ at[w] = "advance" => FilledIs(RingBufferCurrentIndex + 1, RingBufferCount)

BodyInv ==
  /\ TypeOK /\ LocalsOK /\ RingShape /\ PerformWriterExact
  /\ \A w \in Writers : WriterKnows(w)
  /\ \A r \in Readers : ReaderKnows(r)

IInv == Lock!IInv /\ BodyInv

ClipStep == [Clip!Next]_<<Contents, Asked, [w \in Writers |-> response[w]]>>
-----------------------------------------------------------------------------
(* One item more takes the slot behind the others, which is free.          *)
LEMMA SpanMore ==
  ASSUME NEW n \in Nat \ {0}, NEW first \in 0 .. n - 1, NEW length \in 0 .. n - 1
  PROVE  /\ Span(n, first, length + 1) = Span(n, first, length) \cup {SlotAt(n, first + length)}
         /\ SlotAt(n, first + length) \notin Span(n, first, length)
<1>1. \A i \in 1 .. length : SlotAt(n, first + i - 1) # SlotAt(n, first + length)
  BY SlotOnce
<1>2. first + (length + 1) - 1 = first + length
  OBVIOUS
<1>3. 1 .. length + 1 = (1 .. length) \cup {length + 1}
  OBVIOUS
<1> QED  BY <1>1, <1>2, <1>3, Zenon DEF Span

(* One less gives back the first slot.                                     *)
LEMMA SpanLess ==
  ASSUME NEW n \in Nat \ {0}, NEW first \in 0 .. n - 1, NEW length \in 1 .. n
  PROVE  /\ Span(n, first + 1, length - 1) = Span(n, first, length) \ {first}
         /\ first \in Span(n, first, length)
<1>1. SlotAt(n, first + 1 - 1) = first /\ 1 \in 1 .. length
  BY SlotOnce
<1>2. \A i \in 2 .. length : SlotAt(n, first + i - 1) # first
  BY SlotOnce
<1>3. ASSUME NEW s PROVE s \in Span(n, first + 1, length - 1) <=> s \in Span(n, first, length) \ {first}
  <2>1. ASSUME NEW i \in 1 .. length - 1, s = SlotAt(n, (first + 1) + i - 1)
        PROVE  s \in Span(n, first, length) \ {first}
    <3>1. i + 1 \in 2 .. length /\ i + 1 \in 1 .. length /\ (first + 1) + i - 1 = first + (i + 1) - 1
      OBVIOUS
    <3> QED  BY <1>2, <2>1, <3>1 DEF Span
  <2>2. ASSUME NEW i \in 1 .. length, s = SlotAt(n, first + i - 1), s # first
        PROVE  s \in Span(n, first + 1, length - 1)
    <3>1. i # 1
      BY <1>1, <2>2
    <3>2. i - 1 \in 1 .. length - 1 /\ first + i - 1 = (first + 1) + (i - 1) - 1
      BY <3>1
    <3> QED  BY <2>2, <3>2 DEF Span
  <2> QED  BY <2>1, <2>2 DEF Span
<1>4. first \in Span(n, first, length)
  BY <1>1 DEF Span
<1> QED  BY <1>3, <1>4

(* Moving the index on, modulo the size, is the same slots.                *)
LEMMA SpanWrapped ==
  ASSUME NEW n \in Nat \ {0}, NEW first \in 0 .. n - 1, NEW length \in 0 .. n - 1
  PROVE  Span(n, SlotAt(n, first + 1), length) = Span(n, first + 1, length)
<1>1. \A i \in 1 .. length :
        SlotAt(n, SlotAt(n, first + 1) + i - 1) = SlotAt(n, (first + 1) + i - 1)
  BY SlotWrapped
<1> QED  BY <1>1, Zenon DEF Span

(* There are length of them.                                               *)
LEMMA SpanSize ==
  ASSUME NEW n \in Nat \ {0}, NEW first \in 0 .. n, NEW length \in 0 .. n
  PROVE  Cardinality(Span(n, first, length)) = length
<1> DEFINE f == [i \in 1 .. length |-> SlotAt(n, first + i - 1)]
           S == Span(n, first, length)
<1>1. f \in [1 .. length -> S] /\ \A s \in S : \E i \in 1 .. length : f[i] = s
  BY DEF Span
<1>2. \A i, j \in 1 .. length : SlotAt(n, first + i - 1) = SlotAt(n, first + j - 1) => i = j
  BY SlotOnce
<1>3. \A i, j \in 1 .. length : f[i] = f[j] => i = j
  BY <1>2
<1> HIDE DEF f, S
<1>4. f \in Bijection(1 .. length, S)
  BY <1>1, <1>3 DEF Bijection, Injection, Surjection, IsInjective
<1>5. ExistsBijection(1 .. length, S)
  BY <1>4 DEF ExistsBijection
<1>6. length \in Nat
  OBVIOUS
<1> QED  BY <1>5, <1>6, FS_CountingElements DEF S
-----------------------------------------------------------------------------
(* The assumptions of SyncSolution1 hold of the threads of the module.     *)
LEMMA LockAssumption == Lock!IsFiniteSet(Readers) /\ Readers \cap Writers = {}
  BY ThreadsAssumption DEF IsFiniteSet, Lock!IsFiniteSet

(* The calls of Enter and Leave in KboardModule1 are those the proofs of   *)
(* SyncSolution1 are about.                                                *)
LEMMA SameMoves ==
  ASSUME NEW t, NEW from, NEW to
  PROVE  Sync!Moves(t, from, to) <=> Lock!Moves(t, from, to)
  BY DEF Sync!Moves, Lock!Moves, Sync!Awake, Lock!Awake, Sync!Sleepers, Lock!Sleepers

(* The same of the semaphores.                                             *)
LEMMA SameSemaphores ==
  /\ Sync!InitializeSemaphore(1) = Lock!InitializeSemaphore(1)
  /\ \A s, t : Sync!Down(s, t) = Lock!Down(s, t)
  /\ \A s : Sync!Up(s) = Lock!Up(s)
  BY DEF Sync!InitializeSemaphore, Lock!InitializeSemaphore, Sync!Down, Lock!Down, Sync!Up, Lock!Up

(* Every step of the module is a step of the lock or leaves it alone: no   *)
(* handler touches a semaphore or ReaderCount but through Enter and Leave. *)
LEMMA LockStep == [Next]_vars => [Lock!Next]_Lock!syncVars
<1> SUFFICES ASSUME [Next]_vars PROVE [Lock!Next]_Lock!syncVars
  OBVIOUS
<1>1. ASSUME UNCHANGED syncVars PROVE UNCHANGED Lock!syncVars
  BY <1>1 DEF syncVars, Lock!syncVars
<1>2. ASSUME NEW w \in Writers,
             Sync!WriterEnter_Down(w) \/ Sync!WriterEnter_Return(w) \/ Sync!WriterLeave_Up(w)
      PROVE  Lock!Next
  BY <1>2, SameMoves, SameSemaphores
  DEF Sync!WriterEnter_Down, Sync!WriterEnter_Return, Sync!WriterLeave_Up, Lock!Next,
      Lock!WriterStep, Lock!WriterEnter_Down, Lock!WriterEnter_Return, Lock!WriterLeave_Up
<1>3. ASSUME NEW r \in Readers,
             \/ Sync!ReaderEnter_DownMutex(r) \/ Sync!ReaderLeave_DownMutex(r)
             \/ Sync!ReaderEnter_Count(r) \/ Sync!ReaderEnter_DownWriter(r)
             \/ Sync!ReaderEnter_UpMutex(r) \/ Sync!ReaderLeave_Count(r)
             \/ Sync!ReaderLeave_UpWriter(r) \/ Sync!ReaderLeave_UpMutex(r)
      PROVE  Lock!Next
  <2>1. Lock!ReaderEnter_DownMutex(r) \/ Lock!ReaderStep(r)
    BY <1>3, SameMoves, SameSemaphores
    DEF Sync!ReaderEnter_DownMutex, Sync!ReaderLeave_DownMutex, Sync!ReaderEnter_Count,
        Sync!ReaderEnter_DownWriter, Sync!ReaderEnter_UpMutex, Sync!ReaderLeave_Count,
        Sync!ReaderLeave_UpWriter, Sync!ReaderLeave_UpMutex, Sync!FirstReader, Sync!LastReader,
        Lock!ReaderEnter_DownMutex, Lock!ReaderLeave_DownMutex, Lock!ReaderEnter_Count,
        Lock!ReaderEnter_DownWriter, Lock!ReaderEnter_UpMutex, Lock!ReaderLeave_Count,
        Lock!ReaderLeave_UpWriter, Lock!ReaderLeave_UpMutex, Lock!FirstReader, Lock!LastReader,
        Lock!ReaderStep
  <2> QED  BY <2>1 DEF Lock!Next
<1>4. ASSUME NEW w \in Writers, WriterCall(w) \/ WriterRefuse(w) \/ WriterStep(w)
      PROVE  [Lock!Next]_Lock!syncVars
  BY <1>1, <1>2, <1>4 DEF WriterCall, WriterRefuse, WriterStep, WriterSync, InCriticalSection,
     WriterLeave, Return
<1>5. ASSUME NEW r \in Readers, ReaderCall(r) \/ ReaderStep(r)
      PROVE  [Lock!Next]_Lock!syncVars
  BY <1>1, <1>3, <1>5 DEF ReaderCall, ReaderStep, ReaderSync, InCriticalSection, ReaderLeave, Return
<1> QED  BY <1>1, <1>4, <1>5 DEF Next, vars

(* So the invariant of the lock holds of the module.                       *)
LEMMA LockInv ==
  /\ Init => Lock!IInv
  /\ Lock!IInv /\ [Next]_vars => Lock!IInv'
<1>1. Init => Lock!SyncInit
  BY SameSemaphores DEF Init, Sync!SyncInit, Lock!SyncInit, Sync!Threads, Lock!Threads
<1>2. Lock!SyncInit => Lock!IInv
  BY Lock!InitInv, LockAssumption
<1>3. Lock!IInv /\ [Lock!Next]_Lock!syncVars => Lock!IInv'
  BY Lock!NextInv, LockAssumption
<1> QED  BY <1>1, <1>2, <1>3, LockStep

(* A writer in its body is the only thread in a body.                      *)
LEMMA Alone ==
  ASSUME IInv, NEW w \in Writers, pc[w] = "writing"
  PROVE  \A x \in Users : x # w => ~InBody(x)
<1>1. Lock!Exclusion
  BY Lock!InvExclusion, LockAssumption DEF IInv
<1>2. \A x \in Writers : pc[x] = "writing" => x = w
  BY <1>1 DEF Lock!Exclusion, Lock!WritersInside
<1>3. \A x \in Readers : pc[x] # "reading"
  BY <1>1 DEF Lock!Exclusion, Lock!WritersInside, Lock!ReadersInside
<1> QED  BY <1>2, <1>3 DEF IInv, BodyInv, WriterKnows, ReaderKnows, Users

(* No writer is in its body while a reader is.                             *)
LEMMA NoWriter ==
  ASSUME IInv, NEW r \in Readers, pc[r] = "reading"
  PROVE  \A w \in Writers : ~InBody(w)
<1>1. Lock!Exclusion
  BY Lock!InvExclusion, LockAssumption DEF IInv
<1>2. \A x \in Writers : pc[x] # "writing"
  BY <1>1 DEF Lock!Exclusion, Lock!WritersInside, Lock!ReadersInside
<1> QED  BY <1>2 DEF IInv, BodyInv, WriterKnows
-----------------------------------------------------------------------------
(* A step of thread t: nothing of the other threads changes.               *)
KeepsOthers(t) ==
  \A x \in Users : x # t =>
    /\ op'[x] = op[x] /\ at'[x] = at[x] /\ item'[x] = item[x]
    /\ loaded'[x] = loaded[x] /\ response'[x] = response[x] /\ pc'[x] = pc[x]
    /\ x \in Readers => randomIndex'[x] = randomIndex[x]

(* What the others know stays true: the step leaves the ring and           *)
(* PerformWriter alone, or it is that of a writer inside, and nobody else  *)
(* is in a body.                                                           *)
LEMMA OthersKnow ==
  ASSUME IInv, NEW t, KeepsOthers(t),
         UNCHANGED <<ringVars, PerformWriter>> \/ (t \in Writers /\ pc[t] = "writing")
  PROVE  /\ \A w \in Writers : w # t => WriterKnows(w)'
         /\ \A r \in Readers : r # t => ReaderKnows(r)'
<1>1. Writers \subseteq Users /\ Readers \subseteq Users
  BY DEF Users
<1>2. CASE UNCHANGED <<ringVars, PerformWriter>>
  <2>1. /\ UNCHANGED <<RingBuffer, RingBufferCount, RingBufferCurrentIndex, PerformWriter>>
    BY <1>2 DEF ringVars
  <2>2. ASSUME NEW w \in Writers, w # t PROVE WriterKnows(w)'
    <3>1. /\ op'[w] = op[w] /\ at'[w] = at[w] /\ item'[w] = item[w]
          /\ loaded'[w] = loaded[w] /\ response'[w] = response[w] /\ pc'[w] = pc[w]
      BY <1>1, <2>2 DEF KeepsOthers
    <3>2. WriterKnows(w)
      BY DEF IInv, BodyInv
    <3> QED  BY <2>1, <3>1, <3>2 DEF WriterKnows, InBody
  <2>3. ASSUME NEW r \in Readers, r # t PROVE ReaderKnows(r)'
    <3>1. at'[r] = at[r] /\ item'[r] = item[r] /\ pc'[r] = pc[r] /\ randomIndex'[r] = randomIndex[r]
      BY <1>1, <2>3 DEF KeepsOthers
    <3>2. ReaderKnows(r)
      BY DEF IInv, BodyInv
    <3> QED  BY <2>1, <3>1, <3>2 DEF ReaderKnows, InBody
  <2> QED  BY <2>2, <2>3
<1>3. CASE t \in Writers /\ pc[t] = "writing"
  <2>1. \A x \in Users : x # t => at[x] \in {"none", "load"} /\ at'[x] = at[x]
    BY <1>3, Alone DEF InBody, KeepsOthers
  <2>2. ASSUME NEW w \in Writers, w # t PROVE WriterKnows(w)'
    <3>1. /\ op'[w] = op[w] /\ at'[w] = at[w] /\ item'[w] = item[w] /\ response'[w] = response[w]
          /\ at'[w] \in {"none", "load"}
      BY <1>1, <2>1, <2>2 DEF KeepsOthers
    <3>2. WriterKnows(w)
      BY DEF IInv, BodyInv
    <3> QED  BY <3>1, <3>2 DEF WriterKnows, InBody
  <2>3. ASSUME NEW r \in Readers, r # t PROVE ReaderKnows(r)'
    BY <1>1, <2>1, <2>3 DEF ReaderKnows, InBody, ReaderAt
  <2> QED  BY <2>2, <2>3
<1> QED  BY <1>2, <1>3

(* The ring keeps its shape while nobody touches it.                       *)
LEMMA ShapeKept ==
  ASSUME RingShape, UNCHANGED <<RingBuffer, RingBufferCount, RingBufferCurrentIndex>>,
         \A w \in Writers :
           \/ at'[w] = at[w]
           \/ /\ at[w] \notin {"count", "uncount", "advance"}
              /\ at'[w] \notin {"count", "uncount", "advance"}
  PROVE  RingShape'
<1>1. Filled' = Filled
  BY DEF Filled
<1> QED  BY <1>1 DEF RingShape, FilledIs

(* The queue by cases: the items the ring holds, or the same without the   *)
(* one that is being taken out.                                            *)
ContentsByCase ==
  /\ ~Removing =>
       Contents = RingContents(RingBuffer, RING_BUFFER_SIZE, RingBufferCurrentIndex, RingBufferCount)
  /\ Removing /\ ~Removed =>
       Contents = RingContents(RingBuffer, RING_BUFFER_SIZE, RingBufferCurrentIndex + 1, RingBufferCount - 1)
  /\ Removing /\ Removed =>
       Contents = RingContents(RingBuffer, RING_BUFFER_SIZE, RingBufferCurrentIndex + 1, RingBufferCount)

(* The cases are the definition of Contents, before and after any step.    *)
LEMMA ContentsCases == ContentsByCase /\ ContentsByCase'
<1>1. ContentsByCase
  BY DEF ContentsByCase, Contents, RingContents, SlotAt
<1>2. ContentsByCase'
  BY DEF ContentsByCase, Contents, RingContents, SlotAt
<1> QED  BY <1>1, <1>2

(* The queue keeps its items while nobody touches the ring and no dequeue  *)
(* takes effect.                                                           *)
LEMMA QueueKept ==
  ASSUME UNCHANGED <<RingBuffer, RingBufferCount, RingBufferCurrentIndex>>,
         \A w \in Writers :
           \/ at'[w] = at[w]
           \/ /\ at[w] \notin {"clear", "uncount", "advance"}
              /\ at'[w] \notin {"clear", "uncount", "advance"}
  PROVE  Contents' = Contents
<1>1. (Removing' <=> Removing) /\ (Removed' <=> Removed)
  BY DEF Removing, Removed
<1> QED  BY <1>1 DEF Contents

(* What a writer asks for at each statement of its handler.                *)
LEMMA Requested ==
  ASSUME NEW h, NEW v
  PROVE  /\ \A s \in {"load", "perform"} :
              Request(h, s, v) = IF h = "write" THEN <<"enqueue", v>> ELSE <<"dequeue">>
         /\ \A s \in {"testFull", "store", "count"} : Request(h, s, v) = <<"enqueue", v>>
         /\ \A s \in {"testEmpty", "take"} : Request(h, s, v) = <<"dequeue">>
         /\ \A s \in {"none", "clear", "uncount", "advance", "leave"} : Request(h, s, v) = << >>
<1>1. \A s \in {"load", "perform"} :
        Request(h, s, v) = IF h = "write" THEN <<"enqueue", v>> ELSE <<"dequeue">>
  BY DEF Request
<1>2. \A s \in {"testFull", "store", "count"} : Request(h, s, v) = <<"enqueue", v>>
  BY DEF Request
<1>3. \A s \in {"testEmpty", "take"} : Request(h, s, v) = <<"dequeue">>
  BY DEF Request
<1>4. \A s \in {"none", "clear", "uncount", "advance", "leave"} : Request(h, s, v) = << >>
  BY DEF Request
<1> QED  BY <1>1, <1>2, <1>3, <1>4

(* A step of one thread changes what that thread asks for and nothing else. *)
LEMMA AskedKept ==
  ASSUME NEW t, KeepsOthers(t),
         t \in Writers => Request(op'[t], at'[t], item'[t]) = Request(op[t], at[t], item[t])
  PROVE  Asked' = Asked
  BY DEF Asked, KeepsOthers, Users

(* As AskedKept, for a step after which a writer asks for something else.  *)
LEMMA AskedMoves ==
  ASSUME NEW w \in Writers, KeepsOthers(w)
  PROVE  /\ Asked[w] = Request(op[w], at[w], item[w])
         /\ Asked' = [Asked EXCEPT ![w] = Request(op'[w], at'[w], item'[w])]
<1>1. Asked' = [x \in Writers |-> Request(op'[x], at'[x], item'[x])]
  BY DEF Asked
<1>2. [Asked EXCEPT ![w] = Request(op'[w], at'[w], item'[w])]
        = [x \in Writers |-> IF x = w THEN Request(op'[w], at'[w], item'[w])
                                     ELSE Request(op[x], at[x], item[x])]
  BY DEF Asked
<1>3. \A x \in Writers :
        Request(op'[x], at'[x], item'[x]) = IF x = w THEN Request(op'[w], at'[w], item'[w])
                                                     ELSE Request(op[x], at[x], item[x])
  BY DEF KeepsOthers, Users
<1>4. Asked[w] = Request(op[w], at[w], item[w])
  BY DEF Asked
<1> QED  BY <1>1, <1>2, <1>3, <1>4

(* A step that asks for nothing, decides no response and changes no item   *)
(* is none of the queue's.                                                 *)
LEMMA ClipStutters ==
  ASSUME Contents' = Contents, Asked' = Asked, \A w \in Writers : response'[w] = response[w]
  PROVE  ClipStep
  BY DEF ClipStep

(* A writer that was asking for an operation has its response decided.     *)
LEMMA ClipDecides ==
  ASSUME NEW w \in Writers, KeepsOthers(w), NEW request, NEW r, response'[w] = r,
         Request(op[w], at[w], item[w]) = request,
         Request(op'[w], at'[w], item'[w]) = << >>
  PROVE  Clip!Decide(w, request, r)
<1>1. Asked[w] = request /\ Asked' = [Asked EXCEPT ![w] = << >>]
  BY AskedMoves
<1>2. [x \in Writers |-> response'[x]] = [[x \in Writers |-> response[x]] EXCEPT ![w] = r]
  BY DEF KeepsOthers, Users
<1> QED  BY <1>1, <1>2 DEF Clip!Decide

(* A writer in its body sees the whole ring: the queue depends on where it *)
(* is and on nobody else.                                                  *)
LEMMA WriterPhase ==
  ASSUME IInv, NEW w \in Writers, pc[w] = "writing", KeepsOthers(w)
  PROVE  /\ \A x \in Writers : x # w => at[x] \in {"none", "load"} /\ at'[x] = at[x]
         /\ Removing <=> at[w] \in {"clear", "uncount", "advance"}
         /\ Removed <=> at[w] = "advance"
         /\ Removing' <=> at'[w] \in {"clear", "uncount", "advance"}
         /\ Removed' <=> at'[w] = "advance"
<1>1. \A x \in Writers : x # w => at[x] \in {"none", "load"} /\ at'[x] = at[x]
  BY Alone DEF InBody, KeepsOthers, Users
<1> QED  BY <1>1 DEF Removing, Removed
-----------------------------------------------------------------------------
(* The constants, and ++ on an int.                                        *)
LEMMA ConstantFacts ==
  /\ RING_BUFFER_SIZE \in Nat \ {0} /\ INT_MAX \in Nat
  /\ Slots = 0 .. RING_BUFFER_SIZE - 1
  /\ Numbers \subseteq Int /\ Items \subseteq Numbers /\ Cells \subseteq Values
  /\ RING_BUFFER_INIT_VALUE \in Cells /\ RING_BUFFER_INIT_VALUE \notin Items
  /\ \A n \in Ints : Increment(n) \in Ints
<1>1. /\ RING_BUFFER_SIZE \in Nat \ {0} /\ INT_MAX \in Nat /\ StackNumbers \subseteq Int
      /\ \A in \in Inputs : in.text \in Seq(Int)
  BY KboardAssumption DEF InputRecords
<1>2. ASSUME NEW n \in Numbers PROVE n \in Int
  <2>1. CASE n \in StackNumbers
    BY <1>1, <2>1
  <2>2. CASE n \in UNION {{in.text[i] : i \in DOMAIN in.text} : in \in Inputs}
    <3>1. PICK in \in Inputs : n \in {in.text[i] : i \in DOMAIN in.text}
      BY <2>2
    <3>2. PICK i \in DOMAIN in.text : n = in.text[i]
      BY <3>1
    <3>3. in.text \in Seq(Int)
      BY <1>1
    <3> QED  BY <3>2, <3>3
  <2> QED  BY <2>1, <2>2 DEF Numbers
<1>3. \A n \in Ints : Increment(n) \in Ints
  BY <1>1 DEF Increment, Ints
<1> QED  BY <1>1, <1>2, <1>3 DEF Slots, Items, Cells, Values, RING_BUFFER_INIT_VALUE

(* A thread between Enter and Leave, as InCriticalSection asks for.        *)
LEMMA InsideFacts ==
  ASSUME IInv, NEW t \in Users, pc[t] \in {"reading", "writing"}
  PROVE  /\ t \in Writers => pc[t] = "writing" /\ t \notin Readers
         /\ t \in Readers => pc[t] = "reading" /\ t \notin Writers
  BY LockAssumption DEF IInv, Lock!IInv, Lock!TypeOK, Lock!WriterLabels, Lock!ReaderLabels

(* For a step of a writer in its body only its own part is left to show.   *)
LEMMA WriterBodyInv ==
  ASSUME IInv, NEW w \in Writers, pc[w] = "writing", KeepsOthers(w),
         TypeOK', LocalsOK', RingShape', PerformWriterExact', WriterKnows(w)'
  PROVE  BodyInv'
<1>1. /\ \A x \in Writers : x # w => WriterKnows(x)'
      /\ \A r \in Readers : r # w => ReaderKnows(r)'
  BY OthersKnow
<1>2. w \notin Readers
  BY LockAssumption
<1> QED  BY <1>1, <1>2 DEF BodyInv

(* The load and the store of PerformWriter++ (418, 478): no writer runs    *)
(* between them.                                                           *)
LEMMA WriterPerformInv ==
  ASSUME IInv, NEW w \in Writers, pc[w] = "writing", UNCHANGED syncVars,
         Perform_Load(w) \/ PerformWriter_Store(w)
  PROVE  BodyInv' /\ ClipStep
<1>1. /\ TypeOK /\ LocalsOK /\ WriterKnows(w) /\ RingShape /\ PerformWriter = ran.writer /\ w \in Users
  BY DEF IInv, BodyInv, Users, PerformWriterExact
<1>2. /\ UNCHANGED <<RingBuffer, RingBufferCount, RingBufferCurrentIndex, op, input, item,
                     randomIndex, response, pc, PerformReader>>
      /\ \/ /\ at[w] = "load" /\ at' = [at EXCEPT ![w] = "perform"]
            /\ loaded' = [loaded EXCEPT ![w] = PerformWriter]
            /\ UNCHANGED <<PerformWriter, ran>>
         \/ /\ at[w] = "perform"
            /\ at' = [at EXCEPT ![w] = IF op[w] = "write" THEN "testFull" ELSE "testEmpty"]
            /\ loaded' = [loaded EXCEPT ![w] = 0]
            /\ PerformWriter' = Increment(loaded[w])
            /\ ran' = [ran EXCEPT !.writer = Increment(@)]
  BY DEF Perform_Load, PerformWriter_Store, Goes, ringVars, performVars, callVars, syncVars
<1>3. /\ KeepsOthers(w) /\ at'[w] \in {"perform", "testFull", "testEmpty"}
      /\ at[w] \in {"load", "perform"} /\ 0 \in Ints /\ PerformWriter \in Ints
  BY <1>1, <1>2, ConstantFacts DEF KeepsOthers, LocalsOK, TypeOK, Ints
<1>4. LocalsOK'
  <2>1. ran' \in [writer : Ints, reader : Ints]
    BY <1>1, <1>2, ConstantFacts DEF LocalsOK
  <2>2. loaded' \in [Users -> Ints] /\ at' \in [Users -> WriterAt \cup ReaderAt]
    BY <1>1, <1>2, <1>3 DEF LocalsOK, WriterAt
  <2> QED  BY <1>1, <1>2, <2>1, <2>2 DEF LocalsOK
<1>5. PerformWriter' = ran'.writer /\ PerformWriter' \in Ints
  BY <1>1, <1>2, ConstantFacts DEF WriterKnows, LocalsOK, TypeOK
<1>6. TypeOK'
  BY <1>1, <1>2, <1>5 DEF TypeOK
<1>7. \A x \in Writers : x # w => at'[x] = at[x]
  BY <1>3 DEF KeepsOthers, Users
<1>8. RingShape'
  BY <1>1, <1>2, <1>3, <1>7, ShapeKept
<1>9. Contents' = Contents
  BY <1>2, <1>3, <1>7, QueueKept
<1>10. WriterKnows(w)'
  BY <1>1, <1>2 DEF WriterKnows, InBody, WriterAt, LocalsOK
<1>11. BodyInv'
  BY <1>3, <1>4, <1>5, <1>6, <1>8, <1>10, WriterBodyInv DEF PerformWriterExact
<1>12. Asked' = Asked
  <2>1. /\ op'[w] = op[w] /\ item'[w] = item[w]
        /\ at'[w] \in {"load", "perform"} \/ at'[w] = IF op[w] = "write" THEN "testFull" ELSE "testEmpty"
    BY <1>1, <1>2 DEF LocalsOK
  <2>2. Request(op'[w], at'[w], item'[w]) = Request(op[w], at[w], item[w])
    BY <1>3, <2>1, Requested
  <2> QED  BY <1>3, <2>2, AskedKept
<1> QED  BY <1>2, <1>9, <1>11, <1>12, ClipStutters

(* The test of an enqueue (480-485) and of a dequeue (420-425): the ring   *)
(* has room, or an item, until the writer leaves; a refusal is right.      *)
LEMMA TestInv ==
  ASSUME IInv, NEW w \in Writers, pc[w] = "writing", UNCHANGED syncVars,
         Write_Test(w) \/ Show_Test(w)
  PROVE  BodyInv' /\ ClipStep
<1>1. /\ TypeOK /\ LocalsOK /\ WriterKnows(w) /\ RingShape /\ PerformWriter = ran.writer /\ w \in Users
  BY DEF IInv, BodyInv, Users, PerformWriterExact
<1>2. PICK refuses \in BOOLEAN :
      /\ UNCHANGED <<RingBuffer, RingBufferCount, RingBufferCurrentIndex, op, input, item,
                     randomIndex, loaded, pc, PerformReader, PerformWriter, ran>>
      /\ response' = [response EXCEPT ![w] = IF refuses THEN <<-EPERM>> ELSE << >>]
      /\ \/ /\ at[w] = "testFull" /\ (refuses <=> RingBufferCount >= RING_BUFFER_SIZE)
            /\ at' = [at EXCEPT ![w] = IF refuses THEN "leave" ELSE "store"]
         \/ /\ at[w] = "testEmpty" /\ (refuses <=> RingBufferCount <= 0)
            /\ at' = [at EXCEPT ![w] = IF refuses THEN "leave" ELSE "take"]
  <2>1. CASE Write_Test(w)
    <3>1. IsFull \in BOOLEAN
      BY DEF IsFull
    <3> WITNESS IsFull \in BOOLEAN
    <3> QED  BY <2>1 DEF Write_Test, Tests, IsFull, AfterRefusal, Goes, Responds, ringVars, performVars,
                 callVars, syncVars
  <2>2. CASE Show_Test(w)
    <3> WITNESS (RingBufferCount <= 0) \in BOOLEAN
    <3> QED  BY <2>2 DEF Show_Test, Tests, AfterRefusal, Goes, Responds, ringVars, performVars,
                 callVars, syncVars
  <2> QED  BY <2>1, <2>2
<1>3. /\ KeepsOthers(w) /\ at'[w] \in {"store", "take", "leave"}
      /\ at[w] \in {"testFull", "testEmpty"} /\ response[w] = << >>
  BY <1>1, <1>2 DEF KeepsOthers, LocalsOK, WriterKnows
<1>4. LocalsOK'
  <2>1. <<-EPERM>> \in Seq(Int) /\ << >> \in Seq(Int)
    BY DEF EPERM
  <2>2. response' \in [Users -> Seq(Int)] /\ at' \in [Users -> WriterAt \cup ReaderAt]
    BY <1>1, <1>2, <2>1 DEF LocalsOK, WriterAt
  <2> QED  BY <1>1, <1>2, <2>2 DEF LocalsOK
<1>5. TypeOK'
  BY <1>1, <1>2 DEF TypeOK
<1>6. \A x \in Writers : x # w => at'[x] = at[x]
  BY <1>3 DEF KeepsOthers, Users
<1>7. RingShape'
  BY <1>1, <1>2, <1>3, <1>6, ShapeKept
<1>8. Contents' = Contents
  BY <1>2, <1>3, <1>6, QueueKept
<1>9. WriterKnows(w)'
  <2>1. /\ at'[w] = "store" => at[w] = "testFull" /\ RingBufferCount < RING_BUFFER_SIZE
        /\ at'[w] = "take" => RingBufferCount > 0
        /\ at'[w] # "leave" => response'[w] = << >>
    <3>1. RingBufferCount \in Nat /\ RING_BUFFER_SIZE \in Nat
      BY <1>1, ConstantFacts DEF TypeOK
    <3> QED  BY <1>1, <1>2, <3>1 DEF LocalsOK
  <2>2. /\ op'[w] # "none" /\ pc'[w] = "writing" /\ item'[w] = item[w]
        /\ at[w] = "testFull" => item[w] \in Items
    BY <1>1, <1>2, <1>3 DEF WriterKnows
  <2> QED  BY <1>2, <1>3, <2>1, <2>2 DEF WriterKnows, InBody, WriterAt
<1>10. BodyInv'
  BY <1>1, <1>2, <1>3, <1>4, <1>5, <1>7, <1>9, WriterBodyInv DEF PerformWriterExact
<1>11. ClipStep
  <2>1. CASE ~refuses
    <3>1. /\ op'[w] = op[w] /\ item'[w] = item[w]
          /\ (at[w] = "testFull" /\ at'[w] = "store") \/ (at[w] = "testEmpty" /\ at'[w] = "take")
      BY <1>1, <1>2, <2>1 DEF LocalsOK
    <3>2. Request(op'[w], at'[w], item'[w]) = Request(op[w], at[w], item[w])
      BY <3>1, Requested
    <3>3. Asked' = Asked
      BY <1>3, <3>2, AskedKept
    <3> QED  BY <1>1, <1>2, <1>3, <1>8, <2>1, <3>3, ClipStutters DEF LocalsOK
  <2>2. CASE refuses
    <3>1. response'[w] = <<-EPERM>> /\ at'[w] = "leave"
      BY <1>1, <1>2, <2>2 DEF LocalsOK
    <3>2. KeepsOthers(w) /\ at[w] \notin {"clear", "uncount", "advance"}
      BY <1>3
    <3>3. Contents = RingContents(RingBuffer, RING_BUFFER_SIZE, RingBufferCurrentIndex, RingBufferCount)
      BY <3>2, WriterPhase, ContentsCases DEF ContentsByCase
    <3>4. Len(Contents) = RingBufferCount /\ RingBufferCount \in 0 .. RING_BUFFER_SIZE
      BY <1>1, <3>3 DEF RingContents, TypeOK
    <3>5. Request(op'[w], at'[w], item'[w]) = << >>
      BY <3>1, Requested
    <3>6. CASE at[w] = "testFull"
      <4>1. RingBufferCount = RING_BUFFER_SIZE /\ item[w] \in Numbers
        <5>1. RingBufferCount >= RING_BUFFER_SIZE
          BY <1>2, <2>2, <3>6
        <5>2. item[w] \in Items
          BY <1>1, <3>6 DEF WriterKnows
        <5>3. RING_BUFFER_SIZE \in Nat /\ item[w] \in Numbers
          BY <5>2, ConstantFacts
        <5> QED  BY <3>4, <5>1, <5>3
      <4>2. Request(op[w], at[w], item[w]) = <<"enqueue", item[w]>>
        BY <3>6, Requested
      <4>3. Clip!Decide(w, <<"enqueue", item[w]>>, <<-EPERM>>)
        BY <3>1, <3>2, <3>5, <4>2, ClipDecides
      <4>4. Clip!EnqueueFull(w, item[w])
        BY <1>8, <3>4, <4>1, <4>3 DEF Clip!EnqueueFull
      <4> QED  BY <4>1, <4>4 DEF ClipStep, Clip!Next
    <3>7. CASE at[w] = "testEmpty"
      <4>1. RingBufferCount = 0
        BY <1>2, <2>2, <3>4, <3>7
      <4>2. Contents = << >>
        BY <3>3, <4>1 DEF RingContents
      <4>3. Request(op[w], at[w], item[w]) = <<"dequeue">>
        BY <3>7, Requested
      <4>4. Clip!Decide(w, <<"dequeue">>, <<-EPERM>>)
        BY <3>1, <3>2, <3>5, <4>3, ClipDecides
      <4>5. Clip!DequeueEmpty(w)
        BY <1>8, <4>2, <4>4 DEF Clip!DequeueEmpty
      <4> QED  BY <4>5 DEF ClipStep, Clip!Next
    <3> QED  BY <1>3, <3>6, <3>7
  <2> QED  BY <2>1, <2>2
<1> QED  BY <1>10, <1>11

(* The shape of the ring depends on the writer inside only.                *)
LEMMA ShapeInside ==
  ASSUME IInv, NEW w \in Writers, pc[w] = "writing", KeepsOthers(w)
  PROVE  /\ at[w] \notin {"count", "uncount", "advance"} =>
              FilledIs(RingBufferCurrentIndex, RingBufferCount)
         /\ ( /\ at'[w] \notin {"count", "uncount", "advance"} =>
                   FilledIs(RingBufferCurrentIndex, RingBufferCount)'
              /\ at'[w] = "count" => FilledIs(RingBufferCurrentIndex, RingBufferCount + 1)'
              /\ at'[w] = "uncount" => FilledIs(RingBufferCurrentIndex + 1, RingBufferCount - 1)'
              /\ at'[w] = "advance" => FilledIs(RingBufferCurrentIndex + 1, RingBufferCount)' )
            => RingShape'
<1>1. \A x \in Writers : x # w => at[x] \in {"none", "load"} /\ at'[x] = at[x]
  BY WriterPhase
<1>2. RingShape
  BY DEF IInv, BodyInv
<1>3. at[w] \notin {"count", "uncount", "advance"} =>
        FilledIs(RingBufferCurrentIndex, RingBufferCount)
  BY <1>1, <1>2 DEF RingShape
<1>4. \A x \in Writers : x # w => at'[x] \notin {"count", "uncount", "advance"}
  BY <1>1
<1> QED  BY <1>3, <1>4 DEF RingShape

(* A slot that gets an item is filled, one that gets the initial value is  *)
(* not.                                                                    *)
LEMMA FilledSlot ==
  ASSUME NEW slot \in Slots, NEW v, RingBuffer \in [Slots -> Cells],
         RingBuffer' = [RingBuffer EXCEPT ![slot] = v]
  PROVE  /\ v # RING_BUFFER_INIT_VALUE => Filled' = Filled \cup {slot}
         /\ v = RING_BUFFER_INIT_VALUE => Filled' = Filled \ {slot}
  BY DEF Filled

(* The store of an enqueue (487) goes into the free slot behind the items. *)
LEMMA Write_StoreInv ==
  ASSUME IInv, NEW w \in Writers, pc[w] = "writing", UNCHANGED syncVars, Write_Store(w)
  PROVE  BodyInv' /\ ClipStep
<1> DEFINE N == RING_BUFFER_SIZE
           first == RingBufferCurrentIndex
           length == RingBufferCount
           slot == SlotAt(N, first + length)
<1>1. /\ TypeOK /\ LocalsOK /\ WriterKnows(w) /\ PerformWriter = ran.writer /\ w \in Users
  BY DEF IInv, BodyInv, Users, PerformWriterExact
<1>2. /\ UNCHANGED <<RingBufferCount, RingBufferCurrentIndex, op, input, item, loaded,
                     randomIndex, response, pc, PerformWriter, PerformReader, ran>>
      /\ at[w] = "store" /\ at' = [at EXCEPT ![w] = "count"]
      /\ RingBuffer' = [RingBuffer EXCEPT ![slot] = item[w]]
  BY DEF Write_Store, FreeSlot, SlotAt, Goes, performVars, callVars, syncVars
<1>3. /\ N \in Nat \ {0} /\ first \in 0 .. N - 1 /\ length \in 0 .. N - 1
      /\ Slots = 0 .. N - 1 /\ item[w] \in Items /\ response[w] = << >>
  BY <1>1, <1>2, ConstantFacts DEF TypeOK, WriterKnows
<1>4. slot \in Slots
  <2>1. first + length \in 0 .. 2 * N - 1
    BY <1>3
  <2> QED  BY <1>3, <2>1, SlotOnce
<1>5. KeepsOthers(w) /\ at'[w] = "count"
  BY <1>1, <1>2 DEF KeepsOthers, LocalsOK
<1>6. RingBuffer \in [Slots -> Cells] /\ item[w] \in Cells /\ item[w] # RING_BUFFER_INIT_VALUE
  BY <1>1, <1>3, ConstantFacts DEF LocalsOK, Cells
<1> HIDE DEF slot
<1>7. RingBuffer' \in [Slots -> Cells] /\ RingBuffer'[slot] = item[w]
  BY <1>2, <1>4, <1>6
<1>8. LocalsOK'
  <2>1. at' \in [Users -> WriterAt \cup ReaderAt]
    BY <1>1, <1>2 DEF LocalsOK, WriterAt
  <2> QED  BY <1>1, <1>2, <1>7, <2>1 DEF LocalsOK
<1>9. TypeOK'
  <2>1. RingBuffer' \in [Slots -> Values]
    BY <1>7, ConstantFacts
  <2> QED  BY <1>1, <1>2, <2>1 DEF TypeOK
<1>10. RingShape'
  <2>1. Filled = Span(N, first, length)
    BY <1>2, <1>5, ShapeInside DEF FilledIs
  <2>2. Filled' = Filled \cup {slot}
    BY <1>2, <1>4, <1>6, FilledSlot
  <2>3. Span(N, first, length + 1) = Span(N, first, length) \cup {slot}
    BY <1>3, SpanMore DEF slot
  <2>4. FilledIs(first, length + 1)'
    BY <1>2, <2>1, <2>2, <2>3 DEF FilledIs
  <2> QED  BY <1>5, <2>4, ShapeInside
<1>11. WriterKnows(w)'
  <2>1. RingBuffer'[SlotAt(N, first' + length')] = item'[w]
    BY <1>2, <1>7 DEF slot
  <2> QED  BY <1>1, <1>2, <1>3, <1>5, <2>1 DEF WriterKnows, InBody, WriterAt
<1>12. BodyInv'
  BY <1>1, <1>2, <1>5, <1>8, <1>9, <1>10, <1>11, WriterBodyInv DEF PerformWriterExact
<1>13. Contents' = Contents
  <2>1. RingContents(RingBuffer', N, first, length) = RingContents(RingBuffer, N, first, length)
    <3>1. \A j \in 0 .. N - 1 : j # SlotAt(N, first + length) => RingBuffer'[j] = RingBuffer[j]
      BY <1>2, <1>3, <1>6 DEF slot
    <3> QED  BY <1>3, <3>1, ContentsKept
  <2>2. ~Removing /\ ~Removing'
    BY <1>2, <1>5, WriterPhase
  <2>3. /\ Contents = RingContents(RingBuffer, N, first, length)
        /\ Contents' = RingContents(RingBuffer', N, first', length')
    BY <2>2, ContentsCases DEF ContentsByCase
  <2> QED  BY <1>2, <2>1, <2>3
<1>14. Asked' = Asked
  <2>1. op'[w] = op[w] /\ item'[w] = item[w] /\ at[w] = "store" /\ at'[w] = "count"
    BY <1>2, <1>5
  <2>2. Request(op'[w], at'[w], item'[w]) = Request(op[w], at[w], item[w])
    BY <2>1, Requested
  <2> QED  BY <1>5, <2>2, AskedKept
<1> QED  BY <1>2, <1>12, <1>13, <1>14, ClipStutters

(* The slots the count and the index name hold items.                      *)
LEMMA SpanHoldsItems ==
  ASSUME NEW first \in Nat, NEW length \in Nat, LocalsOK, FilledIs(first, length)
  PROVE  \A i \in 1 .. length : RingBuffer[SlotAt(RING_BUFFER_SIZE, first + i - 1)] \in Items
<1>1. ASSUME NEW i \in 1 .. length
      PROVE  RingBuffer[SlotAt(RING_BUFFER_SIZE, first + i - 1)] \in Items
  <2>1. SlotAt(RING_BUFFER_SIZE, first + i - 1) \in Filled
    BY DEF FilledIs, Span
  <2> QED  BY <2>1 DEF Filled, LocalsOK, Cells
<1> QED  BY <1>1

(* The count of an enqueue (488): from here on the item is in the queue.   *)
LEMMA Write_CountInv ==
  ASSUME IInv, NEW w \in Writers, pc[w] = "writing", UNCHANGED syncVars, Write_Count(w)
  PROVE  BodyInv' /\ ClipStep
<1> DEFINE N == RING_BUFFER_SIZE
           first == RingBufferCurrentIndex
           length == RingBufferCount
<1>1. /\ TypeOK /\ LocalsOK /\ WriterKnows(w) /\ RingShape /\ PerformWriter = ran.writer /\ w \in Users
  BY DEF IInv, BodyInv, Users, PerformWriterExact
<1>2. /\ UNCHANGED <<RingBuffer, RingBufferCurrentIndex, op, input, item, loaded,
                     randomIndex, pc, PerformWriter, PerformReader, ran>>
      /\ at[w] = "count" /\ at' = [at EXCEPT ![w] = "leave"]
      /\ RingBufferCount' = RingBufferCount + 1
      /\ response' = [response EXCEPT ![w] = <<0, item[w]>>]
  BY DEF Write_Count, Responds, Goes, performVars, callVars, syncVars
<1>3. /\ N \in Nat \ {0} /\ first \in 0 .. N - 1 /\ length \in 0 .. N - 1
      /\ item[w] \in Items /\ item[w] \in Numbers /\ item[w] \in Int /\ response[w] = << >>
      /\ RingBuffer[SlotAt(N, first + length)] = item[w]
  <2>1. /\ item[w] \in Items /\ response[w] = << >> /\ length < N
        /\ RingBuffer[SlotAt(N, first + length)] = item[w]
    BY <1>1, <1>2 DEF WriterKnows
  <2>2. N \in Nat \ {0} /\ first \in 0 .. N - 1 /\ length \in 0 .. N
    BY <1>1, ConstantFacts DEF TypeOK
  <2>3. item[w] \in Numbers /\ item[w] \in Int
    BY <2>1, ConstantFacts
  <2> QED  BY <2>1, <2>2, <2>3
<1>4. KeepsOthers(w) /\ at'[w] = "leave"
  BY <1>1, <1>2 DEF KeepsOthers, LocalsOK
<1>5. LocalsOK'
  <2>1. <<0, item[w]>> \in Seq(Int)
    BY <1>3
  <2>2. response' \in [Users -> Seq(Int)] /\ at' \in [Users -> WriterAt \cup ReaderAt]
    BY <1>1, <1>2, <2>1 DEF LocalsOK, WriterAt
  <2> QED  BY <1>1, <1>2, <2>2 DEF LocalsOK
<1>6. TypeOK'
  <2>1. RingBufferCount' \in 0 .. RING_BUFFER_SIZE
    BY <1>2, <1>3
  <2> QED  BY <1>1, <1>2, <2>1 DEF TypeOK
<1>7. FilledIs(first, length + 1)
  BY <1>1, <1>2 DEF RingShape
<1>8. RingShape'
  <2>1. FilledIs(first, length)'
    BY <1>2, <1>7 DEF FilledIs, Filled
  <2> QED  BY <1>4, <2>1, ShapeInside
<1>9. WriterKnows(w)'
  BY <1>1, <1>2, <1>4 DEF WriterKnows, InBody, WriterAt
<1>10. BodyInv'
  BY <1>1, <1>2, <1>4, <1>5, <1>6, <1>8, <1>9, WriterBodyInv DEF PerformWriterExact
<1>11. Clip!Enqueue(w, item[w])
  <2>1. ~Removing /\ ~Removing'
    BY <1>2, <1>4, WriterPhase
  <2>2. /\ Contents = RingContents(RingBuffer, N, first, length)
        /\ Contents' = RingContents(RingBuffer, N, first, length + 1)
    BY <1>2, <2>1, ContentsCases DEF ContentsByCase
  <2>3. \A i \in 1 .. length + 1 : RingBuffer[SlotAt(N, first + i - 1)] \in Items
    <3>1. first \in Nat /\ length + 1 \in Nat
      BY <1>3
    <3> QED  BY <1>1, <1>7, <3>1, SpanHoldsItems
  <2>4. RingContents(RingBuffer, N, first, length + 1)
          = Append(RingContents(RingBuffer, N, first, length), RingBuffer[SlotAt(N, first + length)])
    BY <1>3, <2>3, ContentsAppend
  <2>5. Len(Contents) < N
    BY <1>3, <2>2 DEF RingContents
  <2>6. response'[w] = <<0, item[w]>>
    BY <1>1, <1>2 DEF LocalsOK
  <2>7. /\ Request(op[w], at[w], item[w]) = <<"enqueue", item[w]>>
        /\ Request(op'[w], at'[w], item'[w]) = << >>
    BY <1>2, <1>4, Requested
  <2>8. Clip!Decide(w, <<"enqueue", item[w]>>, <<0, item[w]>>)
    BY <1>4, <2>6, <2>7, ClipDecides DEF Clip!Decide
  <2> QED  BY <1>3, <2>2, <2>4, <2>5, <2>8 DEF Clip!Enqueue
<1>12. ClipStep
  BY <1>3, <1>11 DEF ClipStep, Clip!Next
<1> QED  BY <1>10, <1>12

(* The load of a dequeue (427): from here on the item is out of the queue. *)
LEMMA Show_TakeInv ==
  ASSUME IInv, NEW w \in Writers, pc[w] = "writing", UNCHANGED syncVars, Show_Take(w)
  PROVE  BodyInv' /\ ClipStep
<1> DEFINE N == RING_BUFFER_SIZE
           first == RingBufferCurrentIndex
           length == RingBufferCount
<1>1. /\ TypeOK /\ LocalsOK /\ WriterKnows(w) /\ PerformWriter = ran.writer /\ w \in Users
  BY DEF IInv, BodyInv, Users, PerformWriterExact
<1>2. /\ UNCHANGED <<RingBuffer, RingBufferCount, RingBufferCurrentIndex, op, input, loaded,
                     randomIndex, pc, PerformWriter, PerformReader, ran>>
      /\ at[w] = "take" /\ at' = [at EXCEPT ![w] = "clear"]
      /\ item' = [item EXCEPT ![w] = RingBuffer[first]]
      /\ response' = [response EXCEPT ![w] = <<0, RingBuffer[first]>>]
  BY DEF Show_Take, Responds, Goes, ringVars, performVars, callVars, syncVars
<1>3. /\ N \in Nat \ {0} /\ first \in 0 .. N - 1 /\ length \in 1 .. N /\ first \in Slots
      /\ response[w] = << >>
  BY <1>1, <1>2, ConstantFacts DEF TypeOK, WriterKnows
<1>4. KeepsOthers(w) /\ at'[w] = "clear"
  BY <1>1, <1>2 DEF KeepsOthers, LocalsOK, TypeOK
<1>5. FilledIs(first, length)
  BY <1>2, <1>4, ShapeInside
<1>6. RingBuffer[first] \in Cells /\ Cells \subseteq Int /\ Cells \subseteq Values
  BY <1>1, <1>3, ConstantFacts DEF LocalsOK, Cells, RING_BUFFER_INIT_VALUE
<1>7. LocalsOK'
  <2>1. <<0, RingBuffer[first]>> \in Seq(Int)
    <3>1. \A v \in Int : <<0, v>> \in Seq(Int)
      OBVIOUS
    <3>2. RingBuffer[first] \in Int
      BY <1>6
    <3> QED  BY <3>1, <3>2
  <2>2. response' \in [Users -> Seq(Int)] /\ at' \in [Users -> WriterAt \cup ReaderAt]
    BY <1>1, <1>2, <2>1 DEF LocalsOK, WriterAt
  <2> QED  BY <1>1, <1>2, <2>2 DEF LocalsOK
<1>8. TypeOK'
  <2>1. item' \in [Users -> Values]
    BY <1>1, <1>2, <1>6 DEF TypeOK
  <2> QED  BY <1>1, <1>2, <2>1 DEF TypeOK
<1>9. RingShape'
  <2>1. FilledIs(first, length)'
    BY <1>2, <1>5 DEF FilledIs, Filled
  <2> QED  BY <1>4, <2>1, ShapeInside
<1>10. WriterKnows(w)'
  BY <1>1, <1>2, <1>4 DEF WriterKnows, InBody, WriterAt
<1>11. BodyInv'
  BY <1>1, <1>2, <1>4, <1>7, <1>8, <1>9, <1>10, WriterBodyInv DEF PerformWriterExact
<1>12. Clip!Dequeue(w)
  <2>1. ~Removing /\ Removing' /\ ~Removed'
    BY <1>2, <1>4, WriterPhase
  <2>2. /\ Contents = RingContents(RingBuffer, N, first, length)
        /\ Contents' = RingContents(RingBuffer, N, first + 1, length - 1)
    BY <1>2, <2>1, ContentsCases DEF ContentsByCase
  <2>3. \A i \in 1 .. length : RingBuffer[SlotAt(N, first + i - 1)] \in Items
    <3>1. first \in Nat /\ length \in Nat
      BY <1>3
    <3> QED  BY <1>1, <1>5, <3>1, SpanHoldsItems
  <2>4. /\ RingContents(RingBuffer, N, first, length) # << >>
        /\ Head(RingContents(RingBuffer, N, first, length)) = RingBuffer[first]
        /\ Tail(RingContents(RingBuffer, N, first, length))
             = RingContents(RingBuffer, N, first + 1, length - 1)
    BY <1>3, <2>3, ContentsTail
  <2>5. Clip!Decide(w, <<"dequeue">>, <<0, RingBuffer[first]>>)
    <3>1. response'[w] = <<0, RingBuffer[first]>>
      BY <1>1, <1>2 DEF LocalsOK
    <3>2. Request(op[w], at[w], item[w]) = <<"dequeue">> /\ Request(op'[w], at'[w], item'[w]) = << >>
      BY <1>2, <1>4, Requested
    <3> QED  BY <1>4, <3>1, <3>2, ClipDecides DEF Clip!Decide
  <2>6. Contents # << >> /\ Head(Contents) = RingBuffer[first] /\ Contents' = Tail(Contents)
    BY <2>2, <2>4
  <2> QED  BY <2>5, <2>6 DEF Clip!Dequeue, Clip!Decide
<1>13. ClipStep
  BY <1>12 DEF ClipStep, Clip!Next
<1> QED  BY <1>11, <1>13

(* The clear of a dequeue (428): the slot the item was taken from is free. *)
LEMMA Show_ClearInv ==
  ASSUME IInv, NEW w \in Writers, pc[w] = "writing", UNCHANGED syncVars, Show_Clear(w)
  PROVE  BodyInv' /\ ClipStep
<1> DEFINE N == RING_BUFFER_SIZE
           first == RingBufferCurrentIndex
           length == RingBufferCount
<1>1. /\ TypeOK /\ LocalsOK /\ WriterKnows(w) /\ PerformWriter = ran.writer /\ w \in Users
  BY DEF IInv, BodyInv, Users, PerformWriterExact
<1>2. /\ UNCHANGED <<RingBufferCount, RingBufferCurrentIndex, op, input, item, loaded,
                     randomIndex, response, pc, PerformWriter, PerformReader, ran>>
      /\ at[w] = "clear" /\ at' = [at EXCEPT ![w] = "uncount"]
      /\ RingBuffer' = [RingBuffer EXCEPT ![first] = RING_BUFFER_INIT_VALUE]
  BY DEF Show_Clear, Goes, performVars, callVars, syncVars
<1>3. /\ N \in Nat \ {0} /\ first \in 0 .. N - 1 /\ length \in 1 .. N
      /\ Slots = 0 .. N - 1 /\ first \in Slots
  BY <1>1, <1>2, ConstantFacts DEF TypeOK, WriterKnows
<1>4. KeepsOthers(w) /\ at'[w] = "uncount"
  BY <1>1, <1>2 DEF KeepsOthers, LocalsOK
<1>5. RingBuffer \in [Slots -> Cells] /\ RingBuffer' \in [Slots -> Cells]
  BY <1>1, <1>2, ConstantFacts DEF LocalsOK
<1>6. LocalsOK'
  <2>1. at' \in [Users -> WriterAt \cup ReaderAt]
    BY <1>1, <1>2 DEF LocalsOK, WriterAt
  <2> QED  BY <1>1, <1>2, <1>5, <2>1 DEF LocalsOK
<1>7. TypeOK'
  <2>1. RingBuffer' \in [Slots -> Values]
    BY <1>5, ConstantFacts
  <2> QED  BY <1>1, <1>2, <2>1 DEF TypeOK
<1>8. RingShape'
  <2>1. Filled = Span(N, first, length)
    BY <1>2, <1>4, ShapeInside DEF FilledIs
  <2>2. Filled' = Filled \ {first}
    BY <1>2, <1>3, <1>5, FilledSlot
  <2>3. Span(N, first + 1, length - 1) = Span(N, first, length) \ {first}
    BY <1>3, SpanLess
  <2>4. FilledIs(first + 1, length - 1)'
    BY <1>2, <2>1, <2>2, <2>3 DEF FilledIs
  <2> QED  BY <1>4, <2>4, ShapeInside
<1>9. WriterKnows(w)'
  BY <1>1, <1>2, <1>4 DEF WriterKnows, InBody, WriterAt
<1>10. BodyInv'
  BY <1>1, <1>2, <1>4, <1>6, <1>7, <1>8, <1>9, WriterBodyInv DEF PerformWriterExact
<1>11. Contents' = Contents
  <2>1. RingContents(RingBuffer', N, first + 1, length - 1)
          = RingContents(RingBuffer, N, first + 1, length - 1)
    <3>1. \A j \in 0 .. N - 1 : j # first => RingBuffer'[j] = RingBuffer[j]
      BY <1>2, <1>3, <1>5
    <3> QED  BY <1>3, <3>1, ContentsCleared
  <2>2. Removing /\ ~Removed /\ Removing' /\ ~Removed'
    BY <1>2, <1>4, WriterPhase
  <2>3. /\ Contents = RingContents(RingBuffer, N, first + 1, length - 1)
        /\ Contents' = RingContents(RingBuffer', N, first' + 1, length' - 1)
    BY <2>2, ContentsCases DEF ContentsByCase
  <2> QED  BY <1>2, <2>1, <2>3
<1>12. Asked' = Asked
  <2>1. op'[w] = op[w] /\ item'[w] = item[w] /\ at[w] = "clear" /\ at'[w] = "uncount"
    BY <1>2, <1>4
  <2>2. Request(op'[w], at'[w], item'[w]) = Request(op[w], at[w], item[w])
    BY <2>1, Requested
  <2> QED  BY <1>4, <2>2, AskedKept
<1> QED  BY <1>2, <1>10, <1>11, <1>12, ClipStutters

(* The count of a dequeue (429).                                           *)
LEMMA Show_CountInv ==
  ASSUME IInv, NEW w \in Writers, pc[w] = "writing", UNCHANGED syncVars, Show_Count(w)
  PROVE  BodyInv' /\ ClipStep
<1> DEFINE N == RING_BUFFER_SIZE
           first == RingBufferCurrentIndex
           length == RingBufferCount
<1>1. /\ TypeOK /\ LocalsOK /\ WriterKnows(w) /\ RingShape /\ PerformWriter = ran.writer /\ w \in Users
  BY DEF IInv, BodyInv, Users, PerformWriterExact
<1>2. /\ UNCHANGED <<RingBuffer, RingBufferCurrentIndex, op, input, item, loaded,
                     randomIndex, response, pc, PerformWriter, PerformReader, ran>>
      /\ at[w] = "uncount" /\ at' = [at EXCEPT ![w] = "advance"]
      /\ RingBufferCount' = RingBufferCount - 1
  BY DEF Show_Count, Goes, performVars, callVars, syncVars
<1>3. N \in Nat \ {0} /\ length \in 1 .. N
  BY <1>1, <1>2, ConstantFacts DEF TypeOK, WriterKnows
<1>4. KeepsOthers(w) /\ at'[w] = "advance"
  BY <1>1, <1>2 DEF KeepsOthers, LocalsOK
<1>5. LocalsOK'
  <2>1. at' \in [Users -> WriterAt \cup ReaderAt]
    BY <1>1, <1>2 DEF LocalsOK, WriterAt
  <2> QED  BY <1>1, <1>2, <2>1 DEF LocalsOK
<1>6. RingBufferCount' \in 0 .. N /\ RingBufferCount' < N
  BY <1>2, <1>3
<1>7. TypeOK'
  BY <1>1, <1>2, <1>6 DEF TypeOK
<1>8. RingShape'
  <2>1. FilledIs(first + 1, length - 1)
    BY <1>1, <1>2 DEF RingShape
  <2>2. FilledIs(first + 1, length)'
    BY <1>2, <2>1 DEF FilledIs, Filled
  <2> QED  BY <1>4, <2>2, ShapeInside
<1>9. WriterKnows(w)'
  BY <1>1, <1>2, <1>4, <1>6 DEF WriterKnows, InBody, WriterAt
<1>10. BodyInv'
  BY <1>1, <1>2, <1>4, <1>5, <1>7, <1>8, <1>9, WriterBodyInv DEF PerformWriterExact
<1>11. Contents' = Contents
  <2>1. Removing /\ ~Removed /\ Removing' /\ Removed'
    BY <1>2, <1>4, WriterPhase
  <2>2. /\ Contents = RingContents(RingBuffer, N, first + 1, length - 1)
        /\ Contents' = RingContents(RingBuffer', N, first' + 1, length')
    BY <2>1, ContentsCases DEF ContentsByCase
  <2> QED  BY <1>2, <2>2
<1>12. Asked' = Asked
  <2>1. op'[w] = op[w] /\ item'[w] = item[w] /\ at[w] = "uncount" /\ at'[w] = "advance"
    BY <1>2, <1>4
  <2>2. Request(op'[w], at'[w], item'[w]) = Request(op[w], at[w], item[w])
    BY <2>1, Requested
  <2> QED  BY <1>4, <2>2, AskedKept
<1> QED  BY <1>2, <1>10, <1>11, <1>12, ClipStutters

(* The move of the index (430), which goes round at the end of the array.  *)
LEMMA Show_AdvanceInv ==
  ASSUME IInv, NEW w \in Writers, pc[w] = "writing", UNCHANGED syncVars, Show_Advance(w)
  PROVE  BodyInv' /\ ClipStep
<1> DEFINE N == RING_BUFFER_SIZE
           first == RingBufferCurrentIndex
           length == RingBufferCount
<1>1. /\ TypeOK /\ LocalsOK /\ WriterKnows(w) /\ RingShape /\ PerformWriter = ran.writer /\ w \in Users
  BY DEF IInv, BodyInv, Users, PerformWriterExact
<1>2. /\ UNCHANGED <<RingBuffer, RingBufferCount, op, input, item, loaded,
                     randomIndex, response, pc, PerformWriter, PerformReader, ran>>
      /\ at[w] = "advance" /\ at' = [at EXCEPT ![w] = "leave"]
      /\ RingBufferCurrentIndex' = SlotAt(N, first + 1)
  BY DEF Show_Advance, SlotAt, Goes, performVars, callVars, syncVars
<1>3. /\ N \in Nat \ {0} /\ first \in 0 .. N - 1 /\ length \in 0 .. N - 1
      /\ Slots = 0 .. N - 1
  BY <1>1, <1>2, ConstantFacts DEF TypeOK, WriterKnows
<1>4. KeepsOthers(w) /\ at'[w] = "leave"
  BY <1>1, <1>2 DEF KeepsOthers, LocalsOK
<1>5. LocalsOK'
  <2>1. at' \in [Users -> WriterAt \cup ReaderAt]
    BY <1>1, <1>2 DEF LocalsOK, WriterAt
  <2> QED  BY <1>1, <1>2, <2>1 DEF LocalsOK
<1>6. SlotAt(N, first + 1) \in Slots
  <2>1. first + 1 \in 0 .. 2 * N - 1
    BY <1>3
  <2> QED  BY <1>3, <2>1, SlotOnce
<1>7. TypeOK'
  BY <1>1, <1>2, <1>6 DEF TypeOK
<1>8. RingShape'
  <2>1. Filled = Span(N, first + 1, length)
    BY <1>1, <1>2 DEF RingShape, FilledIs
  <2>2. Span(N, SlotAt(N, first + 1), length) = Span(N, first + 1, length)
    BY <1>3, SpanWrapped
  <2>3. Filled' = Filled
    BY <1>2 DEF Filled
  <2>4. FilledIs(first, length)'
    BY <1>2, <2>1, <2>2, <2>3 DEF FilledIs
  <2> QED  BY <1>4, <2>4, ShapeInside
<1>9. WriterKnows(w)'
  BY <1>1, <1>2, <1>4 DEF WriterKnows, InBody, WriterAt
<1>10. BodyInv'
  BY <1>1, <1>2, <1>4, <1>5, <1>7, <1>8, <1>9, WriterBodyInv DEF PerformWriterExact
<1>11. Contents' = Contents
  <2>1. Removing /\ Removed /\ ~Removing'
    BY <1>2, <1>4, WriterPhase
  <2>2. /\ Contents = RingContents(RingBuffer, N, first + 1, length)
        /\ Contents' = RingContents(RingBuffer', N, first', length')
    BY <2>1, ContentsCases DEF ContentsByCase
  <2>3. RingContents(RingBuffer, N, SlotAt(N, first + 1), length)
          = RingContents(RingBuffer, N, first + 1, length)
    BY <1>3, ContentsWrapped
  <2> QED  BY <1>2, <2>2, <2>3
<1>12. Asked' = Asked
  <2>1. op'[w] = op[w] /\ item'[w] = item[w] /\ at[w] = "advance" /\ at'[w] = "leave"
    BY <1>2, <1>4
  <2>2. Request(op'[w], at'[w], item'[w]) = Request(op[w], at[w], item[w])
    BY <2>1, Requested
  <2> QED  BY <1>4, <2>2, AskedKept
<1> QED  BY <1>2, <1>10, <1>11, <1>12, ClipStutters
-----------------------------------------------------------------------------
(* For a step that leaves the ring alone only the own part of its thread   *)
(* is left to show.                                                        *)
LEMMA QuietInv ==
  ASSUME IInv, NEW t \in Users, KeepsOthers(t),
         UNCHANGED <<RingBuffer, RingBufferCount, RingBufferCurrentIndex, PerformWriter>>,
         ran'.writer = ran.writer, TypeOK', LocalsOK',
         t \in Writers => WriterKnows(t)', t \in Readers => ReaderKnows(t)',
         t \in Writers => {at[t], at'[t]} \subseteq {"none", "load", "leave"}
  PROVE  BodyInv' /\ Contents' = Contents
<1>1. /\ \A w \in Writers : w # t => WriterKnows(w)'
      /\ \A r \in Readers : r # t => ReaderKnows(r)'
  BY OthersKnow DEF ringVars
<1>2. \A w \in Writers : w # t => at'[w] = at[w]
  BY DEF KeepsOthers, Users
<1>3. RingShape'
  <2>1. RingShape
    BY DEF IInv, BodyInv
  <2> QED  BY <1>2, <2>1, ShapeKept
<1>4. Contents' = Contents
  BY <1>2, QueueKept
<1>5. PerformWriterExact'
  BY DEF IInv, BodyInv, PerformWriterExact
<1> QED  BY <1>1, <1>3, <1>4, <1>5 DEF BodyInv

(* The body of a reader (515-517): nobody changes the ring meanwhile.      *)
LEMMA ReaderBodyInv ==
  ASSUME IInv, NEW r \in Readers, pc[r] = "reading", UNCHANGED syncVars,
         Perform_Load(r) \/ PerformReader_Store(r) \/ Reader_Read(r)
  PROVE  BodyInv' /\ ClipStep
<1>1. /\ TypeOK /\ LocalsOK /\ ReaderKnows(r) /\ r \in Users /\ r \notin Writers
  BY LockAssumption DEF IInv, BodyInv, Users
<1>2. /\ UNCHANGED <<RingBuffer, RingBufferCount, RingBufferCurrentIndex, op, input,
                     randomIndex, response, pc, PerformWriter>>
      /\ \/ /\ at' = [at EXCEPT ![r] = "perform"] /\ loaded' = [loaded EXCEPT ![r] = PerformReader]
            /\ UNCHANGED <<item, PerformReader, ran>>
         \/ /\ at' = [at EXCEPT ![r] = "read"] /\ loaded' = [loaded EXCEPT ![r] = 0]
            /\ PerformReader' = Increment(loaded[r]) /\ ran' = [ran EXCEPT !.reader = Increment(@)]
            /\ UNCHANGED item
         \/ /\ at' = [at EXCEPT ![r] = "leave"] /\ UNCHANGED <<loaded, PerformReader, ran>>
            /\ item' = [item EXCEPT ![r] = RingBuffer[randomIndex[r]]]
  BY <1>1 DEF Perform_Load, PerformReader_Store, Reader_Read, Goes, ringVars, performVars, callVars, syncVars
<1>3. KeepsOthers(r)
  BY <1>1, <1>2 DEF KeepsOthers, LocalsOK, TypeOK
<1>4. LocalsOK' /\ ran'.writer = ran.writer
  <2>1. ran' \in [writer : Ints, reader : Ints] /\ ran'.writer = ran.writer
    <3>1. ran \in [writer : Ints, reader : Ints] /\ Increment(ran.reader) \in Ints
      BY <1>1, ConstantFacts DEF LocalsOK
    <3>2. ran' = ran \/ ran' = [ran EXCEPT !.reader = Increment(ran.reader)]
      BY <1>2
    <3> QED  BY <3>1, <3>2
  <2>2. PerformReader \in Ints /\ 0 \in Ints
    BY <1>1, ConstantFacts DEF TypeOK, Ints
  <2>3. loaded' \in [Users -> Ints] /\ at' \in [Users -> WriterAt \cup ReaderAt]
    BY <1>1, <1>2, <2>2 DEF LocalsOK, ReaderAt
  <2> QED  BY <1>1, <1>2, <2>1, <2>3 DEF LocalsOK
<1>5. TypeOK'
  <2>1. RingBuffer[randomIndex[r]] \in Values
    BY <1>1 DEF TypeOK
  <2>2. item' \in [Users -> Values]
    BY <1>1, <1>2, <2>1 DEF TypeOK
  <2>3. PerformReader' \in Ints
    BY <1>1, <1>2, ConstantFacts DEF TypeOK, LocalsOK
  <2> QED  BY <1>1, <1>2, <2>2, <2>3 DEF TypeOK
<1>6. ReaderKnows(r)'
  <2>1. /\ at'[r] \in {"perform", "read", "leave"} /\ pc'[r] = "reading"
        /\ at'[r] = "leave" => item'[r] = RingBuffer[randomIndex[r]]
    BY <1>1, <1>2 DEF LocalsOK, TypeOK
  <2> QED  BY <1>2, <2>1 DEF ReaderKnows, ReaderAt
<1>7. BodyInv' /\ Contents' = Contents
  BY <1>1, <1>2, <1>3, <1>4, <1>5, <1>6, QuietInv
<1>8. Asked' = Asked
  BY <1>1, <1>3, AskedKept
<1> QED  BY <1>2, <1>7, <1>8, ClipStutters

(* A reader's body has three statements, a writer's all but two of them.   *)
LEMMA BodyByRole ==
  ASSUME IInv, NEW t \in Users, InCriticalSection(t)
  PROVE  /\ t \in Writers =>
              /\ t \notin Readers /\ pc[t] = "writing"
              /\ \/ Perform_Load(t) \/ PerformWriter_Store(t) \/ Write_Test(t) \/ Write_Store(t)
                 \/ Write_Count(t) \/ Show_Test(t) \/ Show_Take(t) \/ Show_Clear(t)
                 \/ Show_Count(t) \/ Show_Advance(t)
         /\ t \in Readers =>
              /\ t \notin Writers /\ pc[t] = "reading"
              /\ Perform_Load(t) \/ PerformReader_Store(t) \/ Reader_Read(t)
<1>1. Body(t)
  BY DEF InCriticalSection
<1>2. /\ t \in Writers => pc[t] = "writing" /\ t \notin Readers /\ at[t] \in WriterAt
      /\ t \in Readers => pc[t] = "reading" /\ t \notin Writers /\ at[t] \in ReaderAt
  BY InsideFacts DEF InCriticalSection, IInv, BodyInv, WriterKnows, ReaderKnows
<1>3. CASE t \in Writers
  BY <1>1, <1>2, <1>3 DEF Body, PerformReader_Store, Reader_Read, Goes, WriterAt
<1>4. CASE t \in Readers
  BY <1>1, <1>2, <1>4 DEF Body, PerformWriter_Store, Write_Test, Write_Store, Write_Count, Show_Test,
     Show_Take, Show_Clear, Show_Count, Show_Advance, Tests, Goes, ReaderAt
<1> QED  BY <1>3, <1>4 DEF Users

(* Everything that happens between Enter and Leave.                        *)
LEMMA InCriticalSectionInv ==
  ASSUME IInv, NEW t \in Users, InCriticalSection(t)
  PROVE  BodyInv' /\ ClipStep
<1>1. UNCHANGED syncVars
  BY DEF InCriticalSection
<1>2. CASE t \in Writers
  BY <1>1, <1>2, BodyByRole, WriterPerformInv, TestInv, Write_StoreInv, Write_CountInv,
     Show_TakeInv, Show_ClearInv, Show_CountInv, Show_AdvanceInv
<1>3. CASE t \in Readers
  BY <1>1, <1>3, BodyByRole, ReaderBodyInv
<1> QED  BY <1>2, <1>3 DEF Users
-----------------------------------------------------------------------------
(* What passes the checks of KboardWriter_Write is an item; what does not  *)
(* gets one of three codes.                                                *)
LEMMA ScanFacts ==
  ASSUME NEW in \in Inputs, NEW scanned \in Scans(in)
  PROVE  /\ InputError(in, scanned) = 0 => scanned[1] \in Items
         /\ InputError(in, scanned) # 0 => InputError(in, scanned) \in {-E2BIG, -EFAULT, -EINVAL}
<1>1. in.length \in Nat /\ in.readable \in BOOLEAN /\ in.text \in Seq(Int)
  BY KboardAssumption DEF InputRecords
<1>2. ASSUME scanned # << >> PROVE scanned[1] \in Numbers
  <2>1. CASE scanned = in.text
    <3>1. 1 \in DOMAIN in.text
      BY <1>1, <1>2, <2>1
    <3> QED  BY <2>1, <3>1 DEF Numbers
  <2>2. ASSUME NEW n \in StackNumbers, scanned = <<n>> PROVE scanned[1] \in Numbers
    BY <2>2 DEF Numbers
  <2> QED  BY <2>1, <2>2 DEF Scans
<1>3. CASE in.length > WRITER_BUFFER_SIZE
  BY <1>1, <1>3 DEF InputError, WRITER_BUFFER_SIZE, E2BIG
<1>4. CASE in.length <= WRITER_BUFFER_SIZE /\ ~in.readable
  BY <1>1, <1>4 DEF InputError, WRITER_BUFFER_SIZE, EFAULT
<1>5. CASE in.length <= WRITER_BUFFER_SIZE /\ in.readable
  <2>1. InputError(in, scanned) = IF scanned = << >> \/ scanned[1] < 0 THEN -EINVAL ELSE 0
    BY <1>1, <1>5 DEF InputError, WRITER_BUFFER_SIZE
  <2>2. ASSUME scanned # << >>, ~(scanned[1] < 0) PROVE scanned[1] \in Items
    <3>1. scanned[1] \in Numbers /\ scanned[1] \in Int
      BY <1>2, <2>2, ConstantFacts
    <3> QED  BY <2>2, <3>1 DEF Items
  <2> QED  BY <2>1, <2>2 DEF EINVAL
<1> QED  BY <1>1, <1>3, <1>4, <1>5 DEF WRITER_BUFFER_SIZE

(* A step of Enter or Leave moves one thread.                              *)
LEMMA PcMoves ==
  ASSUME IInv, NEW t \in Users, NEW from, NEW to, Sync!Moves(t, from, to)
  PROVE  /\ pc[t] = from /\ pc'[t] = to
         /\ \A x \in Users : x # t => pc'[x] = pc[x]
<1>1. DOMAIN pc = Users
  BY DEF IInv, Lock!IInv, Lock!TypeOK, Lock!Threads, Users
<1> QED  BY <1>1 DEF Sync!Moves

(* The start of a handler: its locals are set.                             *)
LEMMA BeginsFacts ==
  ASSUME TypeOK, LocalsOK, NEW t \in Users, NEW v \in Values,
         NEW h \in {"show", "write", "read"}, NEW in \in Inputs \cup {NoInput}, Begins(t, h, in, v)
  PROVE  /\ UNCHANGED <<RingBuffer, RingBufferCount, RingBufferCurrentIndex, PerformWriter,
                        PerformReader, ran, loaded>>
         /\ op[t] = "none" /\ op'[t] = h /\ item'[t] = v
         /\ \A x \in Users : x # t => op'[x] = op[x] /\ item'[x] = item[x]
         /\ op' \in [Users -> {"none", "show", "write", "read"}]
         /\ input' \in [Users -> Inputs \cup {NoInput}]
         /\ item' \in [Users -> Values]
<1>1. /\ UNCHANGED <<RingBuffer, RingBufferCount, RingBufferCurrentIndex, PerformWriter,
                     PerformReader, ran, loaded>>
      /\ op[t] = "none" /\ op' = [op EXCEPT ![t] = h] /\ input' = [input EXCEPT ![t] = in]
      /\ item' = [item EXCEPT ![t] = v]
  BY DEF Begins, ringVars, performVars
<1>2. /\ op \in [Users -> {"none", "show", "write", "read"}]
      /\ input \in [Users -> Inputs \cup {NoInput}] /\ item \in [Users -> Values]
  BY DEF LocalsOK, TypeOK
<1> QED  BY <1>1, <1>2

(* The call of a handler of /proc/kboard/writer, up to its down().         *)
LEMMA WriterCallInv ==
  ASSUME IInv, NEW w \in Writers, WriterCall(w)
  PROVE  BodyInv' /\ ClipStep
<1>1. /\ TypeOK /\ LocalsOK /\ WriterKnows(w) /\ w \in Users /\ w \notin Readers
  BY LockAssumption DEF IInv, BodyInv, Users
<1>2. PICK h \in {"show", "write"}, in \in Inputs \cup {NoInput}, v \in Cells :
        /\ Begins(w, h, in, v) /\ (h = "write" => v \in Items)
        /\ at[w] = "none" /\ at' = [at EXCEPT ![w] = "load"]
        /\ UNCHANGED <<randomIndex, response>>
  <2> DEFINE Starts(h, in, v) ==
        /\ Begins(w, h, in, v) /\ (h = "write" => v \in Items)
        /\ at[w] = "none" /\ at' = [at EXCEPT ![w] = "load"]
        /\ UNCHANGED <<randomIndex, response>>
  <2>1. CASE KboardWriter_Show_Call(w)
    BY <2>1, ConstantFacts DEF KboardWriter_Show_Call, Goes
  <2>2. ASSUME NEW in \in Inputs, KboardWriter_Write_Call(w, in)
        PROVE  \E v \in Cells : Starts("write", in, v)
    <3>1. PICK scanned \in Scans(in) :
            /\ InputError(in, scanned) = 0 /\ Begins(w, "write", in, scanned[1])
            /\ Goes(w, "none", "load") /\ UNCHANGED <<randomIndex, response>>
      BY <2>2 DEF KboardWriter_Write_Call
    <3>2. scanned[1] \in Items
      BY <3>1, ScanFacts
    <3> QED  BY <3>1, <3>2 DEF Goes, Cells
  <2> QED  BY <2>1, <2>2 DEF WriterCall
<1>3. v \in Values /\ h \in {"show", "write", "read"}
  BY ConstantFacts
<1>4. /\ UNCHANGED <<RingBuffer, RingBufferCount, RingBufferCurrentIndex, PerformWriter,
                     PerformReader, ran, loaded>>
      /\ op[w] = "none" /\ op'[w] = h /\ item'[w] = v
      /\ \A x \in Users : x # w => op'[x] = op[x] /\ item'[x] = item[x]
      /\ op' \in [Users -> {"none", "show", "write", "read"}]
      /\ input' \in [Users -> Inputs \cup {NoInput}]
      /\ item' \in [Users -> Values]
  BY <1>1, <1>2, <1>3, BeginsFacts
<1>5. at'[w] = "load" /\ at' \in [Users -> WriterAt \cup ReaderAt] /\ \A x \in Users : x # w => at'[x] = at[x]
  BY <1>1, <1>2 DEF LocalsOK, WriterAt
<1>6. \A x \in Users : x # w => pc'[x] = pc[x]
  BY <1>1, PcMoves DEF WriterCall, Sync!WriterEnter_Down
<1>7. KeepsOthers(w)
  BY <1>2, <1>4, <1>5, <1>6 DEF KeepsOthers
<1>8. TypeOK' /\ LocalsOK'
  BY <1>1, <1>2, <1>4, <1>5 DEF TypeOK, LocalsOK
<1>9. WriterKnows(w)'
  BY <1>1, <1>2, <1>4, <1>5 DEF WriterKnows, InBody, WriterAt
<1>10. BodyInv' /\ Contents' = Contents
  BY <1>1, <1>2, <1>4, <1>5, <1>7, <1>8, <1>9, QuietInv
<1>11. PICK request \in Clip!Requests : request = Request(op'[w], at'[w], item'[w])
  <2>1. h = "write" => v \in Numbers
    BY <1>2, ConstantFacts
  <2>2. Request(op'[w], at'[w], item'[w]) = IF h = "write" THEN <<"enqueue", v>> ELSE <<"dequeue">>
    BY <1>4, <1>5, Requested
  <2> QED  BY <2>1, <2>2 DEF Clip!Requests
<1>12. Clip!Ask(w, request)
  <2>1. Asked[w] = Request(op[w], at[w], item[w]) /\ Asked' = [Asked EXCEPT ![w] = request]
    BY <1>7, <1>11, AskedMoves
  <2>2. Asked[w] = << >> /\ response[w] = << >> /\ response' = response
    BY <1>1, <1>2, <1>4, <2>1, Requested DEF WriterKnows
  <2> QED  BY <1>10, <2>1, <2>2 DEF Clip!Ask, Clip!Idle
<1> QED  BY <1>10, <1>12 DEF ClipStep, Clip!Next

(* A write that the checks turn away (448-473).                            *)
LEMMA WriterRefuseInv ==
  ASSUME IInv, NEW w \in Writers, WriterRefuse(w)
  PROVE  BodyInv' /\ ClipStep
<1>1. /\ TypeOK /\ LocalsOK /\ WriterKnows(w) /\ w \in Users /\ w \notin Readers
  BY LockAssumption DEF IInv, BodyInv, Users
<1>2. PICK in \in Inputs, code \in {-E2BIG, -EFAULT, -EINVAL} :
        /\ Begins(w, "write", in, RING_BUFFER_INIT_VALUE)
        /\ response' = [response EXCEPT ![w] = <<code>>]
        /\ UNCHANGED <<at, randomIndex, pc>>
  BY ScanFacts DEF WriterRefuse, KboardWriter_Write_Refuse, Responds, syncVars
<1>3. RING_BUFFER_INIT_VALUE \in Values /\ in \in Inputs \cup {NoInput}
  BY ConstantFacts
<1>4. /\ UNCHANGED <<RingBuffer, RingBufferCount, RingBufferCurrentIndex, PerformWriter,
                     PerformReader, ran, loaded>>
      /\ op[w] = "none" /\ op'[w] = "write"
      /\ \A x \in Users : x # w => op'[x] = op[x] /\ item'[x] = item[x]
      /\ op' \in [Users -> {"none", "show", "write", "read"}]
      /\ input' \in [Users -> Inputs \cup {NoInput}]
      /\ item' \in [Users -> Values]
  BY <1>1, <1>2, <1>3, BeginsFacts
<1>5. /\ response' \in [Users -> Seq(Int)] /\ response'[w] = <<code>>
      /\ \A x \in Users : x # w => response'[x] = response[x]
  <2>1. <<code>> \in Seq(Int)
    BY DEF E2BIG, EFAULT, EINVAL
  <2> QED  BY <1>1, <1>2, <2>1 DEF LocalsOK
<1>6. KeepsOthers(w)
  BY <1>2, <1>4, <1>5 DEF KeepsOthers
<1>7. TypeOK' /\ LocalsOK'
  BY <1>1, <1>2, <1>4, <1>5 DEF TypeOK, LocalsOK
<1>8. at[w] = "none" /\ response[w] = << >>
  BY <1>1, <1>4 DEF WriterKnows
<1>9. WriterKnows(w)'
  BY <1>2, <1>4, <1>8 DEF WriterKnows, InBody, WriterAt
<1>10. BodyInv' /\ Contents' = Contents
  BY <1>1, <1>2, <1>4, <1>6, <1>7, <1>8, <1>9, QuietInv
<1>11. Clip!Refuse(w, code)
  <2>1. Request(op[w], at[w], item[w]) = << >> /\ Request(op'[w], at'[w], item'[w]) = << >>
    BY <1>2, <1>8, Requested
  <2>2. Asked[w] = << >> /\ Asked' = Asked
    BY <1>6, <2>1, AskedKept, AskedMoves
  <2>3. [x \in Writers |-> response'[x]] = [[x \in Writers |-> response[x]] EXCEPT ![w] = <<code>>]
    BY <1>5 DEF Users
  <2> QED  BY <1>8, <1>10, <2>2, <2>3 DEF Clip!Refuse, Clip!Idle
<1> QED  BY <1>10, <1>11 DEF ClipStep, Clip!Next

(* The call of the handler of /proc/kboard/reader: the slot it will show   *)
(* is chosen before Enter (510-511).                                       *)
LEMMA ReaderCallInv ==
  ASSUME IInv, NEW r \in Readers, ReaderCall(r)
  PROVE  BodyInv' /\ ClipStep
<1>1. /\ TypeOK /\ LocalsOK /\ r \in Users /\ r \notin Writers
  BY LockAssumption DEF IInv, BodyInv, Users
<1>2. PICK i \in Slots :
        /\ Begins(r, "read", NoInput, RING_BUFFER_INIT_VALUE)
        /\ at' = [at EXCEPT ![r] = "load"]
        /\ randomIndex' = [randomIndex EXCEPT ![r] = i]
        /\ response' = response
  BY DEF ReaderCall, KboardReader_Show_Call, Goes
<1>3. RING_BUFFER_INIT_VALUE \in Values /\ NoInput \in Inputs \cup {NoInput}
  BY ConstantFacts
<1>4. /\ UNCHANGED <<RingBuffer, RingBufferCount, RingBufferCurrentIndex, PerformWriter,
                     PerformReader, ran, loaded>>
      /\ \A x \in Users : x # r => op'[x] = op[x] /\ item'[x] = item[x]
      /\ op' \in [Users -> {"none", "show", "write", "read"}]
      /\ input' \in [Users -> Inputs \cup {NoInput}]
      /\ item' \in [Users -> Values]
  BY <1>1, <1>2, <1>3, BeginsFacts
<1>5. at'[r] = "load" /\ at' \in [Users -> WriterAt \cup ReaderAt] /\ \A x \in Users : x # r => at'[x] = at[x]
  BY <1>1, <1>2 DEF LocalsOK, ReaderAt
<1>6. /\ randomIndex' \in [Readers -> Slots]
      /\ \A x \in Readers : x # r => randomIndex'[x] = randomIndex[x]
  BY <1>1, <1>2 DEF TypeOK
<1>7. \A x \in Users : x # r => pc'[x] = pc[x]
  BY <1>1, PcMoves DEF ReaderCall, Sync!ReaderEnter_DownMutex
<1>8. KeepsOthers(r)
  BY <1>2, <1>4, <1>5, <1>6, <1>7 DEF KeepsOthers
<1>9. TypeOK' /\ LocalsOK'
  BY <1>1, <1>2, <1>4, <1>5, <1>6 DEF TypeOK, LocalsOK
<1>10. ReaderKnows(r)'
  BY <1>5 DEF ReaderKnows, InBody, ReaderAt
<1>11. BodyInv' /\ Contents' = Contents
  BY <1>1, <1>4, <1>8, <1>9, <1>10, QuietInv
<1>12. Asked' = Asked
  BY <1>1, <1>8, AskedKept
<1> QED  BY <1>2, <1>11, <1>12, ClipStutters

(* Enter and Leave themselves: a thread is in its body only between them.  *)
LEMMA SyncStepInv ==
  ASSUME IInv, NEW t \in Users, t \in Writers => WriterSync(t), t \in Readers => ReaderSync(t)
  PROVE  BodyInv' /\ ClipStep
<1>1. UNCHANGED kboardVars
  BY DEF WriterSync, ReaderSync, Users
<1>2. /\ UNCHANGED <<RingBuffer, RingBufferCount, RingBufferCurrentIndex, PerformWriter, PerformReader,
                     ran, op, at, input, item, loaded, randomIndex, response>>
  BY <1>1 DEF kboardVars, ringVars, performVars, localVars
<1>3. pc[t] \notin {"reading", "writing"} /\ \A x \in Users : x # t => pc'[x] = pc[x]
  <2>1. CASE t \in Writers
    BY <2>1, PcMoves DEF WriterSync, Sync!WriterEnter_Return
  <2>2. CASE t \in Readers
    <3>1. PICK from \in {"enterCount", "enterDownWriter", "enterUpMutex", "leaveCount", "leaveUpWriter",
                         "leaveUpMutex"} : \E to : Sync!Moves(t, from, to)
      BY <2>2 DEF ReaderSync, Sync!ReaderEnter_Count, Sync!ReaderEnter_DownWriter, Sync!ReaderEnter_UpMutex,
         Sync!ReaderLeave_Count, Sync!ReaderLeave_UpWriter, Sync!ReaderLeave_UpMutex
    <3> QED  BY <3>1, PcMoves
  <2> QED  BY <2>1, <2>2 DEF Users
<1>4. KeepsOthers(t)
  BY <1>2, <1>3 DEF KeepsOthers
<1>5. TypeOK' /\ LocalsOK'
  <2>1. TypeOK /\ LocalsOK
    BY DEF IInv, BodyInv
  <2> QED  BY <1>2, <2>1 DEF TypeOK, LocalsOK
<1>6. ~InBody(t) /\ ~InBody(t)'
  BY <1>2, <1>3 DEF IInv, BodyInv, WriterKnows, ReaderKnows, InBody, Users
<1>7. (t \in Writers => WriterKnows(t)') /\ (t \in Readers => ReaderKnows(t)')
  <2>1. ASSUME t \in Writers PROVE WriterKnows(t)'
    BY <1>2, <1>6, <2>1 DEF IInv, BodyInv, WriterKnows, InBody
  <2>2. ASSUME t \in Readers PROVE ReaderKnows(t)'
    BY <1>2, <1>6, <2>2 DEF IInv, BodyInv, ReaderKnows, InBody
  <2> QED  BY <2>1, <2>2
<1>8. {at[t], at'[t]} \subseteq {"none", "load", "leave"}
  BY <1>2, <1>6 DEF InBody
<1>9. BodyInv' /\ Contents' = Contents
  BY <1>2, <1>4, <1>5, <1>7, <1>8, QuietInv
<1>10. Asked' = Asked
  BY <1>2 DEF Asked
<1> QED  BY <1>2, <1>9, <1>10, ClipStutters

(* The call of Leave ends the body.                                        *)
LEMMA LeaveInv ==
  ASSUME IInv, NEW t \in Users, t \in Writers => WriterLeave(t), t \in Readers => ReaderLeave(t)
  PROVE  BodyInv' /\ ClipStep
<1>1. Leaves(t) /\ TypeOK /\ LocalsOK
  BY DEF WriterLeave, ReaderLeave, Users, IInv, BodyInv
<1>2. /\ UNCHANGED <<RingBuffer, RingBufferCount, RingBufferCurrentIndex, PerformWriter, PerformReader,
                     ran, op, input, item, loaded, randomIndex, response>>
      /\ at[t] = "leave" /\ at' = [at EXCEPT ![t] = "none"]
  BY <1>1 DEF Leaves, Goes, ringVars, performVars, callVars
<1>3. \A x \in Users : x # t => pc'[x] = pc[x]
  <2>1. \E from, to : Sync!Moves(t, from, to)
    BY DEF WriterLeave, ReaderLeave, Sync!WriterLeave_Up, Sync!ReaderLeave_DownMutex, Users
  <2> QED  BY <2>1, PcMoves
<1>4. at'[t] = "none" /\ at' \in [Users -> WriterAt \cup ReaderAt] /\ \A x \in Users : x # t => at'[x] = at[x]
  BY <1>1, <1>2 DEF LocalsOK, WriterAt
<1>5. KeepsOthers(t)
  BY <1>2, <1>3, <1>4 DEF KeepsOthers
<1>6. TypeOK' /\ LocalsOK'
  BY <1>1, <1>2, <1>4 DEF TypeOK, LocalsOK
<1>7. (t \in Writers => WriterKnows(t)') /\ (t \in Readers => ReaderKnows(t)')
  <2>1. ASSUME t \in Writers PROVE WriterKnows(t)'
    BY <1>2, <1>4, <2>1 DEF IInv, BodyInv, WriterKnows, InBody, WriterAt
  <2>2. ASSUME t \in Readers PROVE ReaderKnows(t)'
    BY <1>4, <2>2 DEF ReaderKnows, InBody, ReaderAt
  <2> QED  BY <2>1, <2>2
<1>8. {at[t], at'[t]} \subseteq {"none", "load", "leave"}
  BY <1>2, <1>4
<1>9. BodyInv' /\ Contents' = Contents
  BY <1>2, <1>5, <1>6, <1>7, <1>8, QuietInv
<1>10. Asked' = Asked
  <2>1. Request(op'[t], at'[t], item'[t]) = Request(op[t], at[t], item[t])
    BY <1>2, <1>4, Requested
  <2> QED  BY <1>5, <2>1, AskedKept
<1> QED  BY <1>2, <1>9, <1>10, ClipStutters

(* The return from a handler, by which the caller has its response.        *)
LEMMA ReturnInv ==
  ASSUME IInv, NEW t \in Users, Return(t)
  PROVE  BodyInv' /\ ClipStep
<1>1. TypeOK /\ LocalsOK
  BY DEF IInv, BodyInv
<1>2. /\ UNCHANGED <<RingBuffer, RingBufferCount, RingBufferCurrentIndex, PerformWriter, PerformReader,
                     ran, at, loaded, pc>>
      /\ at[t] = "none" /\ op' = [op EXCEPT ![t] = "none"] /\ input' = [input EXCEPT ![t] = NoInput]
      /\ item' = [item EXCEPT ![t] = RING_BUFFER_INIT_VALUE]
      /\ randomIndex' = [r \in Readers |-> IF r = t THEN 0 ELSE randomIndex[r]]
      /\ response' = [response EXCEPT ![t] = << >>]
  BY DEF Return, Returns, Responds, ringVars, performVars, syncVars
<1>3. RING_BUFFER_INIT_VALUE \in Values /\ 0 \in Slots /\ << >> \in Seq(Int)
  BY ConstantFacts
<1>4. /\ op' \in [Users -> {"none", "show", "write", "read"}] /\ op'[t] = "none"
      /\ response' \in [Users -> Seq(Int)] /\ response'[t] = << >>
      /\ \A x \in Users : x # t => op'[x] = op[x] /\ response'[x] = response[x]
  BY <1>1, <1>2, <1>3 DEF LocalsOK
<1>5. /\ input' \in [Users -> Inputs \cup {NoInput}] /\ item' \in [Users -> Values]
      /\ \A x \in Users : x # t => item'[x] = item[x]
  BY <1>1, <1>2, <1>3 DEF TypeOK
<1>6. randomIndex' \in [Readers -> Slots] /\ \A x \in Readers : x # t => randomIndex'[x] = randomIndex[x]
  BY <1>1, <1>2, <1>3 DEF TypeOK
<1>7. KeepsOthers(t)
  BY <1>2, <1>4, <1>5, <1>6 DEF KeepsOthers
<1>8. TypeOK' /\ LocalsOK'
  BY <1>1, <1>2, <1>4, <1>5, <1>6 DEF TypeOK, LocalsOK
<1>9. (t \in Writers => WriterKnows(t)') /\ (t \in Readers => ReaderKnows(t)')
  BY <1>2, <1>4 DEF WriterKnows, ReaderKnows, InBody, WriterAt, ReaderAt
<1>10. {at[t], at'[t]} \subseteq {"none", "load", "leave"}
  BY <1>2
<1>11. BodyInv' /\ Contents' = Contents
  BY <1>2, <1>7, <1>8, <1>9, <1>10, QuietInv
<1>12. Asked' = Asked
  <2>1. Request(op'[t], at'[t], item'[t]) = Request(op[t], at[t], item[t])
    BY <1>2, Requested
  <2> QED  BY <1>7, <2>1, AskedKept
<1>13. CASE t \in Writers /\ response[t] # << >>
  <2>1. Clip!Return(t)
    BY <1>4, <1>11, <1>12, <1>13 DEF Clip!Return, Users
  <2> QED  BY <1>11, <1>13, <2>1 DEF ClipStep, Clip!Next
<1>14. CASE ~(t \in Writers /\ response[t] # << >>)
  <2>1. \A w \in Writers : response'[w] = response[w]
    BY <1>4, <1>14 DEF Users
  <2> QED  BY <1>11, <1>12, <2>1, ClipStutters
<1> QED  BY <1>13, <1>14

(* A reader of /proc/kboard/count or /proc/kboard/dump changes nothing.    *)
LEMMA ObserveInv ==
  ASSUME IInv, UNCHANGED <<ringVars, performVars, localVars, syncVars>>
  PROVE  BodyInv' /\ ClipStep
<1>1. /\ UNCHANGED <<RingBuffer, RingBufferCount, RingBufferCurrentIndex, PerformWriter, PerformReader,
                     ran, op, at, input, item, loaded, randomIndex, response, pc>>
  BY DEF ringVars, performVars, localVars, syncVars
<1>2. /\ TypeOK /\ LocalsOK /\ RingShape /\ PerformWriterExact
      /\ (\A w \in Writers : WriterKnows(w)) /\ \A r \in Readers : ReaderKnows(r)
  BY DEF IInv, BodyInv
<1>3. TypeOK' /\ LocalsOK' /\ PerformWriterExact'
  BY <1>1, <1>2 DEF TypeOK, LocalsOK, PerformWriterExact
<1>4. RingShape' /\ Contents' = Contents
  BY <1>1, <1>2, ShapeKept, QueueKept
<1>5. ASSUME NEW w \in Writers PROVE WriterKnows(w)'
  BY <1>1, <1>2 DEF WriterKnows, InBody
<1>6. ASSUME NEW r \in Readers PROVE ReaderKnows(r)'
  BY <1>1, <1>2 DEF ReaderKnows, InBody
<1>7. BodyInv'
  BY <1>3, <1>4, <1>5, <1>6 DEF BodyInv
<1>8. Asked' = Asked
  BY <1>1 DEF Asked
<1> QED  BY <1>1, <1>4, <1>7, <1>8, ClipStutters
-----------------------------------------------------------------------------
(* The state KboardModuleInit leaves before the proc files exist.          *)
LEMMA InitBodyInv == Init => BodyInv
<1> SUFFICES ASSUME Init PROVE BodyInv
  OBVIOUS
<1>1. InitializeKboard
  BY DEF Init
<1>2. TypeOK
  <2>1. 0 \in Slots /\ 0 \in Ints /\ 0 \in 0 .. RING_BUFFER_SIZE /\ RING_BUFFER_INIT_VALUE \in Values
    BY ConstantFacts DEF Ints, Values
  <2> QED  BY <1>1, <2>1 DEF InitializeKboard, TypeOK
<1>3. LocalsOK
  <2>1. 0 \in Ints /\ RING_BUFFER_INIT_VALUE \in Cells /\ << >> \in Seq(Int) /\ "none" \in WriterAt
    BY ConstantFacts DEF Ints, WriterAt
  <2> QED  BY <1>1, <2>1 DEF InitializeKboard, LocalsOK
<1>4. RingShape
  <2>1. Filled = {} /\ \A w \in Writers : at[w] = "none"
    BY <1>1 DEF InitializeKboard, Filled, Users
  <2>2. Span(RING_BUFFER_SIZE, 0, 0) = {}
    BY DEF Span
  <2> QED  BY <1>1, <2>1, <2>2 DEF InitializeKboard, RingShape, FilledIs
<1>5. PerformWriterExact
  BY <1>1 DEF InitializeKboard, PerformWriterExact
<1>6. \A w \in Writers : WriterKnows(w)
  BY <1>1 DEF InitializeKboard, WriterKnows, InBody, WriterAt, Users
<1>7. \A r \in Readers : ReaderKnows(r)
  BY <1>1 DEF InitializeKboard, ReaderKnows, InBody, ReaderAt, Users
<1> QED  BY <1>2, <1>3, <1>4, <1>5, <1>6, <1>7 DEF BodyInv

(* Every step of the module preserves what the bodies rely on, and is a    *)
(* step of the queue or none at all.                                       *)
LEMMA StepInv == IInv /\ [Next]_vars => BodyInv' /\ ClipStep
<1> SUFFICES ASSUME IInv, [Next]_vars PROVE BodyInv' /\ ClipStep
  OBVIOUS
<1>1. ASSUME NEW w \in Writers, WriterCall(w) \/ WriterRefuse(w) \/ WriterStep(w)
      PROVE  BodyInv' /\ ClipStep
  <2>1. w \in Users /\ w \notin Readers
    BY LockAssumption DEF Users
  <2> QED  BY <1>1, <2>1, WriterCallInv, WriterRefuseInv, SyncStepInv, InCriticalSectionInv, LeaveInv, ReturnInv
           DEF WriterStep
<1>2. ASSUME NEW r \in Readers, ReaderCall(r) \/ ReaderStep(r)
      PROVE  BodyInv' /\ ClipStep
  <2>1. r \in Users /\ r \notin Writers
    BY LockAssumption DEF Users
  <2> QED  BY <1>2, <2>1, ReaderCallInv, SyncStepInv, InCriticalSectionInv, LeaveInv, ReturnInv DEF ReaderStep
<1>3. ASSUME NEW o \in Observers, Observe(o), UNCHANGED syncVars
      PROVE  BodyInv' /\ ClipStep
  <2>1. UNCHANGED <<ringVars, performVars, localVars>>
    BY <1>3 DEF Observe, KboardCounter_Show, KboardDumper_Show, Dumper_Print, Observer_Close, Prints
  <2> QED  BY <1>3, <2>1, ObserveInv
<1>4. CASE UNCHANGED vars
  BY <1>4, ObserveInv DEF vars, kboardVars
<1> QED  BY <1>1, <1>2, <1>3, <1>4 DEF Next

(* So the invariant holds of every reachable state.                        *)
LEMMA Invariant == Spec => []IInv
<1>1. Init => IInv
  BY InitBodyInv, LockInv DEF IInv
<1>2. IInv /\ [Next]_vars => IInv'
  BY StepInv, LockInv DEF IInv
<1> QED  BY <1>1, <1>2, PTL DEF Spec

(* Type correctness: whatever writers, readers and observers do at the     *)
(* same time, RingBufferCount stays in 0..RING_BUFFER_SIZE and the index   *)
(* inside the array, so no access of the handlers (427, 428, 487, 517) is  *)
(* out of bounds.                                                          *)
THEOREM TypeCorrect == Spec => []TypeOK
<1>1. IInv => TypeOK
  BY DEF IInv, BodyInv
<1> QED  BY <1>1, Invariant, PTL

(* PerformWriter++ (418, 478) loses no run, for any number of writers: it  *)
(* is inside the critical section, and only writers do it.                 *)
THEOREM WriterCountExact == Spec => []PerformWriterExact
<1>1. IInv => PerformWriterExact
  BY DEF IInv, BodyInv
<1> QED  BY <1>1, Invariant, PTL

(* The slots that are not empty while no writer is in its body.            *)
LEMMA FilledOccupied ==
  ASSUME IInv, \A w \in Writers : ~InBody(w)
  PROVE  Filled = Occupied
<1>1. Filled = Span(RING_BUFFER_SIZE, RingBufferCurrentIndex, RingBufferCount)
  BY DEF IInv, BodyInv, RingShape, FilledIs, InBody
<1>2. RingBufferCurrentIndex \in Int /\ RingBufferCount \in Int
  BY ConstantFacts DEF IInv, BodyInv, TypeOK
<1>3. ASSUME NEW s PROVE s \in Occupied <=> s \in Span(RING_BUFFER_SIZE, RingBufferCurrentIndex, RingBufferCount)
  <2>1. ASSUME NEW i \in 0 .. RingBufferCount - 1, s = SlotAt(RING_BUFFER_SIZE, RingBufferCurrentIndex + i)
        PROVE  \E j \in 1 .. RingBufferCount : s = SlotAt(RING_BUFFER_SIZE, RingBufferCurrentIndex + j - 1)
    <3>1. i + 1 \in 1 .. RingBufferCount /\ RingBufferCurrentIndex + (i + 1) - 1 = RingBufferCurrentIndex + i
      BY <1>2
    <3> QED  BY <2>1, <3>1
  <2>2. ASSUME NEW j \in 1 .. RingBufferCount, s = SlotAt(RING_BUFFER_SIZE, RingBufferCurrentIndex + j - 1)
        PROVE  \E i \in 0 .. RingBufferCount - 1 : s = SlotAt(RING_BUFFER_SIZE, RingBufferCurrentIndex + i)
    <3>1. j - 1 \in 0 .. RingBufferCount - 1 /\ RingBufferCurrentIndex + j - 1 = RingBufferCurrentIndex + (j - 1)
      BY <1>2
    <3> QED  BY <2>2, <3>1
  <2>3. Occupied = {SlotAt(RING_BUFFER_SIZE, RingBufferCurrentIndex + i) : i \in 0 .. RingBufferCount - 1}
    BY DEF Occupied, SlotAt
  <2> QED  BY <2>1, <2>2, <2>3, Zenon DEF Span
<1> QED  BY <1>1, <1>3

(* A reader never looks at a half-done enqueue or dequeue: RingShape and   *)
(* the exclusion of writers make the slot it shows hold an item exactly    *)
(* when the count and the index say so.                                    *)
THEOREM ReaderView == Spec => []ReaderSeesQueue
<1>1. ASSUME IInv, NEW r \in Readers, at[r] = "leave"
      PROVE  /\ item[r] = RingBuffer[randomIndex[r]]
             /\ item[r] # RING_BUFFER_INIT_VALUE <=> randomIndex[r] \in Occupied
  <2>1. ReaderKnows(r) /\ InBody(r) /\ randomIndex[r] \in Slots
    BY <1>1 DEF IInv, BodyInv, TypeOK, InBody
  <2>2. item[r] = RingBuffer[randomIndex[r]] /\ pc[r] = "reading"
    BY <1>1, <2>1 DEF ReaderKnows
  <2>3. Filled = Occupied
    BY <1>1, <2>2, NoWriter, FilledOccupied
  <2> QED  BY <2>1, <2>2, <2>3 DEF Filled
<1>2. IInv => ReaderSeesQueue
  BY <1>1 DEF ReaderSeesQueue
<1> QED  BY <1>2, Invariant, PTL

(* The count that /proc/kboard/count prints without a lock is at most one  *)
(* off the number of slots that are not empty, at every moment of every    *)
(* enqueue and dequeue.                                                    *)
THEOREM CountIsNear == Spec => []CountNearSlots
<1> DEFINE N == RING_BUFFER_SIZE
           first == RingBufferCurrentIndex
           length == RingBufferCount
<1>1. ASSUME NEW f, NEW l, FilledIs(f, l), N \in Nat \ {0}, f \in 0 .. N, l \in 0 .. N
      PROVE  Cardinality(Filled) = l
  BY <1>1, SpanSize DEF FilledIs
<1>2. ASSUME IInv PROVE CountNearSlots
  <2>1. /\ N \in Nat \ {0} /\ first \in 0 .. N - 1 /\ length \in 0 .. N
        /\ RingShape /\ \A w \in Writers : WriterKnows(w)
    BY <1>2, ConstantFacts DEF IInv, BodyInv, TypeOK
  <2>2. CASE \A w \in Writers : at[w] \notin {"count", "uncount", "advance"}
    <3>1. FilledIs(first, length)
      BY <2>1, <2>2 DEF RingShape
    <3>2. Cardinality(Filled) = length
      BY <1>1, <2>1, <3>1
    <3> QED  BY <2>1, <3>2 DEF CountNearSlots, Filled
  <2>3. ASSUME NEW w \in Writers, at[w] = "count" PROVE CountNearSlots
    <3>1. FilledIs(first, length + 1) /\ length < N
      BY <2>1, <2>3 DEF RingShape, WriterKnows
    <3>2. Cardinality(Filled) = length + 1
      BY <1>1, <2>1, <3>1
    <3> QED  BY <2>1, <3>2 DEF CountNearSlots, Filled
  <2>4. ASSUME NEW w \in Writers, at[w] = "uncount" PROVE CountNearSlots
    <3>1. FilledIs(first + 1, length - 1) /\ length > 0
      BY <2>1, <2>4 DEF RingShape, WriterKnows
    <3>2. Cardinality(Filled) = length - 1
      BY <1>1, <2>1, <3>1
    <3> QED  BY <2>1, <3>2 DEF CountNearSlots, Filled
  <2>5. ASSUME NEW w \in Writers, at[w] = "advance" PROVE CountNearSlots
    <3>1. FilledIs(first + 1, length)
      BY <2>1, <2>5 DEF RingShape
    <3>2. Cardinality(Filled) = length
      BY <1>1, <2>1, <3>1
    <3> QED  BY <2>1, <3>2 DEF CountNearSlots, Filled
  <2> QED  BY <2>2, <2>3, <2>4, <2>5
<1> QED  BY <1>2, Invariant, PTL

(* Reads and writes of /proc/kboard/writer implement the bounded FIFO      *)
(* queue, however they interleave with each other, with readers and with   *)
(* observers: an enqueue takes effect at its count (488), a dequeue at its *)
(* load (427), a refusal at its test.                                      *)
THEOREM Refinement == Spec => ClipSpec
<1>1. Init => Clip!Init
  <2> SUFFICES ASSUME Init PROVE Clip!Init
    OBVIOUS
  <2>1. ~Removing /\ RingBufferCount = 0
    BY DEF Init, InitializeKboard, Removing, Users
  <2>2. Contents = << >>
    BY <2>1, ContentsCases DEF ContentsByCase, RingContents
  <2>3. [w \in Writers |-> response[w]] = [w \in Writers |-> << >>]
    BY DEF Init, InitializeKboard, Users
  <2>4. \A w \in Writers : Request(op[w], at[w], item[w]) = << >>
    BY Requested DEF Init, InitializeKboard, Users
  <2>5. Asked = [w \in Writers |-> << >>]
    BY <2>4 DEF Asked
  <2> QED  BY <2>2, <2>3, <2>5 DEF Clip!Init
<1>2. IInv /\ [Next]_vars => [Clip!Next]_<<Contents, Asked, [w \in Writers |-> response[w]]>>
  BY StepInv DEF ClipStep
<1> QED  BY <1>1, <1>2, Invariant, PTL DEF Spec, ClipSpec, Clip!Spec
-----------------------------------------------------------------------------
(* What a step of the module does to the handlers: a call, a statement of  *)
(* a body, the call of Leave, a return, or nothing.                        *)
LEMMA HandlerSteps ==
  ASSUME [Next]_vars
  PROVE  \/ \E w \in Writers : \/ KboardWriter_Show_Call(w)
                               \/ \E in \in Inputs : \/ KboardWriter_Write_Call(w, in)
                                                     \/ KboardWriter_Write_Refuse(w, in)
         \/ \E r \in Readers : KboardReader_Show_Call(r)
         \/ \E t \in Users : InCriticalSection(t) \/ Leaves(t) \/ Returns(t)
         \/ UNCHANGED <<ringVars, performVars, localVars>>
<1>1. ASSUME NEW o \in Observers, Observe(o)
      PROVE  UNCHANGED <<ringVars, performVars, localVars>>
  BY <1>1 DEF Observe, KboardCounter_Show, KboardDumper_Show, Dumper_Print, Observer_Close, Prints
<1>2. ASSUME NEW w \in Writers, WriterStep(w)
      PROVE  InCriticalSection(w) \/ Leaves(w) \/ Returns(w) \/ UNCHANGED <<ringVars, performVars, localVars>>
  BY <1>2 DEF WriterStep, WriterSync, WriterLeave, Return, kboardVars
<1>3. ASSUME NEW r \in Readers, ReaderStep(r)
      PROVE  InCriticalSection(r) \/ Leaves(r) \/ Returns(r) \/ UNCHANGED <<ringVars, performVars, localVars>>
  BY <1>3 DEF ReaderStep, ReaderSync, ReaderLeave, Return, kboardVars
<1>4. CASE UNCHANGED vars
  BY <1>4 DEF vars, kboardVars
<1>5. CASE Next
  BY <1>1, <1>2, <1>3, <1>5 DEF Next, WriterCall, WriterRefuse, ReaderCall, Users
<1> QED  BY <1>4, <1>5

(* The module implements the lock: seen through the semaphores and         *)
(* ReaderCount alone, it is SyncSolution1, so that what is proved of       *)
(* solution 1 holds of the module as it is built.                          *)
THEOREM LockRefined == Spec => Lock!Spec
<1>1. Init => Lock!SyncInit
  BY SameSemaphores DEF Init, Sync!SyncInit, Lock!SyncInit, Sync!Threads, Lock!Threads
<1> QED  BY <1>1, LockStep, PTL DEF Spec, Lock!Spec

(* The ring, its count and its index change only by the hand of a writer   *)
(* between Enter and Leave, and no other thread is then in its body, a     *)
(* reader neither (427-430, 487-488).                                      *)
RingStable ==
  [][\E w \in Writers : /\ pc[w] = "writing"
                        /\ \A x \in Users : x # w => ~InBody(x)]_ringVars

(* Nobody sees the ring change under it: what a handler has tested in the  *)
(* ring still holds when it uses it.                                       *)
THEOREM RingUndisturbed == Spec => RingStable
<1> DEFINE Inside == \E w \in Writers : /\ pc[w] = "writing"
                                        /\ \A x \in Users : x # w => ~InBody(x)
<1>1. ASSUME IInv, [Next]_vars PROVE Inside \/ UNCHANGED ringVars
  <2>1. ASSUME NEW t \in Users, InCriticalSection(t) PROVE Inside \/ UNCHANGED ringVars
    <3>1. CASE t \in Writers
      <4>1. pc[t] = "writing"
        BY <1>1, <2>1, <3>1, BodyByRole
      <4> QED  BY <1>1, <3>1, <4>1, Alone
    <3>2. CASE t \in Readers
      <4>1. Perform_Load(t) \/ PerformReader_Store(t) \/ Reader_Read(t)
        BY <1>1, <2>1, <3>2, BodyByRole
      <4> QED  BY <4>1 DEF Perform_Load, PerformReader_Store, Reader_Read
    <3> QED  BY <3>1, <3>2 DEF Users
  <2>2. ASSUME NEW t \in Users, Leaves(t) \/ Returns(t) PROVE UNCHANGED ringVars
    BY <2>2 DEF Leaves, Returns
  <2>3. ASSUME NEW w \in Writers,
               \/ KboardWriter_Show_Call(w)
               \/ \E in \in Inputs : KboardWriter_Write_Call(w, in) \/ KboardWriter_Write_Refuse(w, in)
        PROVE  UNCHANGED ringVars
    BY <2>3 DEF KboardWriter_Show_Call, KboardWriter_Write_Call, KboardWriter_Write_Refuse, Begins
  <2>4. ASSUME NEW r \in Readers, KboardReader_Show_Call(r) PROVE UNCHANGED ringVars
    BY <2>4 DEF KboardReader_Show_Call, Begins
  <2> QED  BY <1>1, <2>1, <2>2, <2>3, <2>4, HandlerSteps
<1>2. IInv /\ [Next]_vars => [Inside]_ringVars
  BY <1>1
<1> QED  BY <1>2, Invariant, PTL DEF Spec, RingStable
-----------------------------------------------------------------------------
(* Where PerformReaderExact and StoredAsWritten fail in the runs there are *)
(* two readers, or a number that its text does not end.  Nothing else      *)
(* breaks them.                                                            *)

(* A reader between the load and the store of PerformReader++ has loaded   *)
(* the present value.                                                      *)
ReaderRuns ==
  /\ PerformReaderExact
  /\ \A r \in Readers : at[r] = "perform" => loaded[r] = PerformReader

(* The only reader's load and store (515) are not interrupted by another   *)
(* store, whatever the writers do.                                         *)
LEMMA ReaderRunsStep ==
  ASSUME \A r, s \in Readers : r = s, IInv, ReaderRuns, [Next]_vars
  PROVE  ReaderRuns'
<1>1. /\ at \in [Users -> WriterAt \cup ReaderAt] /\ loaded \in [Users -> Ints]
      /\ ran \in [writer : Ints, reader : Ints]
      /\ PerformReader = ran.reader
      /\ \A r \in Readers : r \in Users /\ (at[r] = "perform" => loaded[r] = PerformReader)
  BY DEF IInv, BodyInv, LocalsOK, ReaderRuns, PerformReaderExact, Users
<1>2. ASSUME UNCHANGED <<performVars, loaded>>,
             \A r \in Readers : at'[r] = at[r] \/ at'[r] # "perform"
      PROVE  ReaderRuns'
  BY <1>1, <1>2 DEF ReaderRuns, PerformReaderExact, performVars
<1>3. ASSUME NEW t \in Users, NEW from, NEW to, Goes(t, from, to), to # "perform",
             UNCHANGED <<performVars, loaded>>
      PROVE  ReaderRuns'
  BY <1>1, <1>2, <1>3 DEF Goes
<1>4. ASSUME NEW w \in Writers,
             \/ KboardWriter_Show_Call(w)
             \/ \E in \in Inputs : KboardWriter_Write_Call(w, in) \/ KboardWriter_Write_Refuse(w, in)
      PROVE  ReaderRuns'
  <2>1. UNCHANGED <<performVars, loaded>> /\ (Goes(w, "none", "load") \/ UNCHANGED at) /\ w \in Users
    BY <1>4 DEF KboardWriter_Show_Call, KboardWriter_Write_Call, KboardWriter_Write_Refuse, Begins, Users
  <2> QED  BY <1>2, <1>3, <2>1
<1>5. ASSUME NEW r \in Readers, KboardReader_Show_Call(r) PROVE ReaderRuns'
  BY <1>3, <1>5 DEF KboardReader_Show_Call, Begins, Users
<1>6. ASSUME NEW t \in Users, Leaves(t) \/ Returns(t) PROVE ReaderRuns'
  <2>1. UNCHANGED <<performVars, loaded>> /\ (Goes(t, "leave", "none") \/ UNCHANGED at)
    BY <1>6 DEF Leaves, Returns
  <2> QED  BY <1>2, <1>3, <2>1
<1>7. ASSUME NEW t \in Users, Perform_Load(t), t \in Readers => t \notin Writers PROVE ReaderRuns'
  <2>1. /\ at' = [at EXCEPT ![t] = "perform"] /\ UNCHANGED performVars
        /\ loaded' = [loaded EXCEPT ![t] = IF t \in Writers THEN PerformWriter ELSE PerformReader]
    BY <1>7 DEF Perform_Load, Goes
  <2>2. PerformReader' = PerformReader /\ ran' = ran
    BY <2>1 DEF performVars
  <2>3. ASSUME NEW r \in Readers, at'[r] = "perform" PROVE loaded'[r] = PerformReader
    <3>1. CASE r = t
      BY <1>1, <1>7, <2>1, <3>1
    <3>2. CASE r # t
      BY <1>1, <2>1, <2>3, <3>2
    <3> QED  BY <3>1, <3>2
  <2> QED  BY <1>1, <2>2, <2>3 DEF ReaderRuns, PerformReaderExact
<1>8. ASSUME NEW w \in Writers, w \notin Readers, PerformWriter_Store(w) PROVE ReaderRuns'
  <2>1. /\ PerformReader' = PerformReader /\ ran' = [ran EXCEPT !.writer = Increment(ran.writer)]
        /\ \A r \in Readers : at'[r] = at[r] /\ loaded'[r] = loaded[r]
    BY <1>1, <1>8 DEF PerformWriter_Store, Goes
  <2>2. ran'.reader = ran.reader
    BY <1>1, <2>1
  <2> QED  BY <1>1, <2>1, <2>2 DEF ReaderRuns, PerformReaderExact
<1>9. ASSUME NEW r \in Readers, PerformReader_Store(r) PROVE ReaderRuns'
  <2>1. /\ PerformReader' = Increment(loaded[r]) /\ at[r] = "perform" /\ at'[r] = "read"
        /\ ran' = [ran EXCEPT !.reader = Increment(ran.reader)]
    BY <1>1, <1>9 DEF PerformReader_Store, Goes
  <2>2. ran'.reader = Increment(ran.reader) /\ loaded[r] = ran.reader
    BY <1>1, <2>1
  <2>3. \A s \in Readers : at'[s] # "perform"
    BY <2>1
  <2> QED  BY <2>1, <2>2, <2>3 DEF ReaderRuns, PerformReaderExact
<1>10. ASSUME NEW t \in Users, InCriticalSection(t) PROVE ReaderRuns'
  <2>1. ASSUME \/ Write_Test(t) \/ Write_Store(t) \/ Write_Count(t) \/ Show_Test(t) \/ Show_Take(t)
               \/ Show_Clear(t) \/ Show_Count(t) \/ Show_Advance(t) \/ Reader_Read(t)
        PROVE  ReaderRuns'
    <3>1. /\ UNCHANGED <<performVars, loaded>>
          /\ \E from : \E to \in {"leave", "store", "count", "take", "clear", "uncount", "advance"} :
               Goes(t, from, to)
      BY <2>1 DEF Write_Test, Write_Store, Write_Count, Show_Test, Show_Take, Show_Clear, Show_Count,
         Show_Advance, Reader_Read, Tests, AfterRefusal
    <3> QED  BY <1>3, <3>1
  <2> QED  BY <1>7, <1>8, <1>9, <1>10, <2>1, BodyByRole DEF Users
<1>11. CASE UNCHANGED <<ringVars, performVars, localVars>>
  BY <1>2, <1>11 DEF localVars
<1> QED  BY <1>4, <1>5, <1>6, <1>10, <1>11, HandlerSteps

(* With one reader PerformReader is how often it ran (the comments at 129  *)
(* and 549), for any number of writers: the runs that PerformReader++      *)
(* (515) loses are lost to another reader.                                 *)
THEOREM OneReaderCounted ==
  ASSUME \A r, s \in Readers : r = s
  PROVE  Spec => []PerformReaderExact
<1>1. Init => ReaderRuns
  BY DEF Init, InitializeKboard, ReaderRuns, PerformReaderExact, Users
<1>2. IInv /\ ReaderRuns /\ [Next]_vars => ReaderRuns'
  BY ReaderRunsStep
<1>3. ReaderRuns => PerformReaderExact
  BY DEF ReaderRuns
<1> QED  BY <1>1, <1>2, <1>3, Invariant, PTL DEF Spec
-----------------------------------------------------------------------------
(* A write past its checks is in the statements of an enqueue, with the    *)
(* number of its text.                                                     *)
Stored(w) ==
  op[w] = "write" =>
    /\ at[w] \in {"none", "load", "perform", "testFull", "store", "count", "leave"}
    /\ at[w] # "none" => input[w].text = <<item[w]>>

(* What sscanf (462) finds in a text that ends its number is that number.  *)
LEMMA EndedScan ==
  ASSUME NEW in \in Inputs, in.ended, NEW scanned \in Scans(in), InputError(in, scanned) = 0
  PROVE  in.text = <<scanned[1]>>
<1>1. scanned = in.text
  BY DEF Scans
<1>2. in.length \in Nat /\ in.readable \in BOOLEAN /\ in.text \in Seq(Int) /\ Len(in.text) <= 1
  BY KboardAssumption DEF InputRecords
<1>3. scanned # << >>
  <2>1. CASE in.length > WRITER_BUFFER_SIZE
    BY <1>2, <2>1 DEF InputError, WRITER_BUFFER_SIZE, E2BIG
  <2>2. CASE in.length <= WRITER_BUFFER_SIZE /\ ~in.readable
    BY <1>2, <2>2 DEF InputError, WRITER_BUFFER_SIZE, EFAULT
  <2>3. CASE in.length <= WRITER_BUFFER_SIZE /\ in.readable
    <3>1. InputError(in, scanned) = IF scanned = << >> \/ scanned[1] < 0 THEN -EINVAL ELSE 0
      BY <1>2, <2>3 DEF InputError, WRITER_BUFFER_SIZE
    <3> QED  BY <3>1 DEF EINVAL
  <2> QED  BY <1>2, <2>1, <2>2, <2>3 DEF WRITER_BUFFER_SIZE
<1>4. Len(in.text) = 1
  <2>1. Len(in.text) \in Nat /\ Len(in.text) # 0
    BY <1>1, <1>2, <1>3, EmptySeq
  <2>2. \A n \in Nat : n # 0 /\ n <= 1 => n = 1
    OBVIOUS
  <2> QED  BY <1>2, <2>1, <2>2
<1> QED  BY <1>1, <1>2, <1>4

(* Each step keeps it: the local of a write is set once, before Enter.     *)
LEMMA StoredStep ==
  ASSUME \A in \in Inputs : in.ended, IInv, \A w \in Writers : Stored(w), [Next]_vars
  PROVE  \A w \in Writers : Stored(w)'
<1>1. /\ at \in [Users -> WriterAt \cup ReaderAt]
      /\ op \in [Users -> {"none", "show", "write", "read"}]
      /\ input \in [Users -> Inputs \cup {NoInput}] /\ item \in [Users -> Values]
      /\ \A w \in Writers : w \in Users /\ Stored(w) /\ (op[w] = "none" => at[w] = "none")
  BY DEF IInv, BodyInv, LocalsOK, TypeOK, WriterKnows, Users
<1>2. ASSUME NEW t \in Users,
             \A x \in Users : x # t => op'[x] = op[x] /\ at'[x] = at[x] /\ input'[x] = input[x] /\ item'[x] = item[x],
             t \in Writers => Stored(t)'
      PROVE  \A w \in Writers : Stored(w)'
  BY <1>1, <1>2 DEF Stored
<1>3. ASSUME NEW t \in Users, NEW h, NEW in, NEW v, Begins(t, h, in, v),
             Goes(t, "none", "load") \/ UNCHANGED at,
             h = "write" /\ at'[t] # "none" => at'[t] = "load" /\ in.text = <<v>>
      PROVE  \A w \in Writers : Stored(w)'
  <2>1. /\ op'[t] = h /\ input'[t] = in /\ item'[t] = v
        /\ \A x \in Users : x # t => op'[x] = op[x] /\ at'[x] = at[x] /\ input'[x] = input[x] /\ item'[x] = item[x]
    BY <1>1, <1>3 DEF Begins, Goes
  <2>2. Stored(t)'
    BY <1>3, <2>1 DEF Stored
  <2> QED  BY <1>2, <2>1, <2>2
<1>4. ASSUME NEW w \in Writers, KboardWriter_Show_Call(w) PROVE \A x \in Writers : Stored(x)'
  BY <1>1, <1>3, <1>4 DEF KboardWriter_Show_Call
<1>5. ASSUME NEW w \in Writers, NEW in \in Inputs, KboardWriter_Write_Call(w, in)
      PROVE  \A x \in Writers : Stored(x)'
  <2>1. PICK scanned \in Scans(in) : /\ InputError(in, scanned) = 0
                                     /\ Begins(w, "write", in, scanned[1]) /\ Goes(w, "none", "load")
    BY <1>5 DEF KboardWriter_Write_Call
  <2>2. in.text = <<scanned[1]>>
    BY <2>1, EndedScan
  <2>3. at'[w] = "load" /\ w \in Users
    BY <1>1, <2>1 DEF Goes
  <2> QED  BY <1>3, <2>1, <2>2, <2>3
<1>6. ASSUME NEW w \in Writers, NEW in \in Inputs, KboardWriter_Write_Refuse(w, in)
      PROVE  \A x \in Writers : Stored(x)'
  <2>1. Begins(w, "write", in, RING_BUFFER_INIT_VALUE) /\ at' = at
    BY <1>6 DEF KboardWriter_Write_Refuse
  <2>2. at'[w] = "none" /\ w \in Users
    BY <1>1, <2>1 DEF Begins
  <2> QED  BY <1>3, <2>1, <2>2
<1>7. ASSUME NEW r \in Readers, KboardReader_Show_Call(r) PROVE \A x \in Writers : Stored(x)'
  BY <1>3, <1>7 DEF KboardReader_Show_Call, Users
<1>8. ASSUME NEW t \in Users, Leaves(t) \/ Returns(t) PROVE \A x \in Writers : Stored(x)'
  <2>1. /\ \A x \in Users : x # t => op'[x] = op[x] /\ at'[x] = at[x] /\ input'[x] = input[x] /\ item'[x] = item[x]
        /\ at'[t] = "none"
    BY <1>1, <1>8 DEF Leaves, Returns, Goes, callVars
  <2> QED  BY <1>2, <2>1 DEF Stored
<1>9. ASSUME NEW t \in Users, InCriticalSection(t) PROVE \A x \in Writers : Stored(x)'
  <2>1. UNCHANGED <<op, input>> /\ \E from, to : Goes(t, from, to)
    BY <1>9 DEF InCriticalSection, Body, Perform_Load, PerformWriter_Store, PerformReader_Store, Write_Test,
       Write_Store, Write_Count, Show_Test, Show_Take, Show_Clear, Show_Count, Show_Advance, Reader_Read,
       Tests, callVars
  <2>2. item' = item \/ (\E v : item' = [item EXCEPT ![t] = v])
    BY <1>9 DEF InCriticalSection, Body, Perform_Load, PerformWriter_Store, PerformReader_Store, Write_Test,
       Write_Store, Write_Count, Show_Test, Show_Take, Show_Clear, Show_Count, Show_Advance, Reader_Read,
       Tests, callVars
  <2>3. \A x \in Users : x # t => op'[x] = op[x] /\ at'[x] = at[x] /\ input'[x] = input[x] /\ item'[x] = item[x]
    BY <1>1, <2>1, <2>2 DEF Goes
  <2>4. ASSUME t \in Writers, op[t] = "write" PROVE Stored(t)'
    <3>1. \/ Perform_Load(t) \/ PerformWriter_Store(t) \/ Write_Test(t) \/ Write_Store(t)
          \/ Write_Count(t) \/ Show_Test(t) \/ Show_Take(t) \/ Show_Clear(t)
          \/ Show_Count(t) \/ Show_Advance(t)
      BY <1>9, <2>4, BodyByRole
    <3>2. /\ at[t] \in {"none", "load", "perform", "testFull", "store", "count", "leave"}
          /\ at[t] # "none" => input[t].text = <<item[t]>>
      BY <1>1, <2>4 DEF Stored
    <3>3. Perform_Load(t) \/ PerformWriter_Store(t) \/ Write_Test(t) \/ Write_Store(t) \/ Write_Count(t)
      BY <3>1, <3>2 DEF Show_Test, Tests, Show_Take, Show_Clear, Show_Count, Show_Advance, Goes
    <3>4. PICK to \in {"perform", "testFull", "store", "leave", "count"} :
            at[t] # "none" /\ at' = [at EXCEPT ![t] = to] /\ item' = item
      BY <2>4, <3>3 DEF Perform_Load, PerformWriter_Store, Write_Test, Tests, AfterRefusal, Write_Store,
         Write_Count, Goes
    <3>5. at'[t] = to
      BY <1>1, <3>4
    <3> QED  BY <2>1, <2>4, <3>2, <3>4, <3>5 DEF Stored
  <2>5. op[t] # "write" => Stored(t)'
    BY <2>1 DEF Stored
  <2> QED  BY <1>2, <2>3, <2>4, <2>5
<1>10. CASE UNCHANGED <<ringVars, performVars, localVars>>
  BY <1>1, <1>10 DEF Stored, localVars
<1> QED  BY <1>4, <1>5, <1>6, <1>7, <1>8, <1>9, <1>10, HandlerSteps

(* Where every text ends its number, as a line of echo does, a write that  *)
(* gets past the checks at 447-473 enqueues the integer it was given.      *)
THEOREM EndedInputStored ==
  ASSUME \A in \in Inputs : in.ended
  PROVE  Spec => []StoredAsWritten
<1> DEFINE AllStored == \A w \in Writers : Stored(w)
<1>1. Init => AllStored
  BY DEF Init, InitializeKboard, Stored, Users
<1>2. IInv /\ AllStored /\ [Next]_vars => AllStored'
  BY StoredStep
<1>3. AllStored => StoredAsWritten
  BY DEF Stored, StoredAsWritten
<1> HIDE DEF AllStored
<1> QED  BY <1>1, <1>2, <1>3, Invariant, PTL DEF Spec
=============================================================================
