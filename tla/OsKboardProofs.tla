--------------------------- MODULE OsKboardProofs ---------------------------
(***************************************************************************)
(* Proofs about the system calls of lab1, for any set of threads, any size *)
(* of the ring and any arguments, as long as kb_init runs alone            *)
(* (QuietSpec).  There is one lemma per action: it preserves the           *)
(* invariant, and it is a step of the abstract clipboard or leaves it.     *)
(***************************************************************************)
EXTENDS OsKboard, DataProofs

Items == {v \in Arguments : v >= 0}

(* The spinlock is taken exactly while one thread is between spin_lock and *)
(* spin_unlock.                                                            *)
LockHeld == MutualExclusion /\ (Lock = 1 <=> \E t \in Threads : Inside(t))

Loaded(t) == seen[t].count = Count /\ seen[t].current = CurrentIndex

(* What a thread in the middle of a call knows: nobody changed Count or    *)
(* CurrentIndex since it looked at them.                                   *)
Knows(t) ==
  /\ pc[t] \in EnqueueLabels => item[t] \in Items
  /\ pc[t] \in {"enqStore", "enqCount"} => Loaded(t) /\ Count < MAX_CLIP
  /\ pc[t] = "enqCount" => Ring[SlotAt(MAX_CLIP, CurrentIndex + Count)] = item[t]
  /\ pc[t] \in {"deqCopy", "deqClear", "deqCount"} => Count > 0
  /\ pc[t] \in {"deqClear", "deqCount"} => Loaded(t)
  /\ pc[t] = "deqAdvance" => seen[t].current = CurrentIndex /\ Count < MAX_CLIP
  /\ pc[t] \in {"idle", "initLock", "initTake"} => index[t] = 0
  /\ pc[t] = "initRing" => index[t] < MAX_CLIP
  /\ pc[t] = "initIndex" => Count = 0

(* A response is decided once, and a value in it is one that was stored.   *)
Answers(t) ==
  /\ pc[t] \in {"idle", "enqLock", "enqTest", "enqStore", "enqCount", "deqLock",
                "deqTest", "deqCopy", "initLock", "initTake"} => response[t] = << >>
  /\ response[t] \in {<< >>} \cup {<<c>> : c \in {0, -1, -2}} \cup {<<0, v>> : v \in Items}

IInv ==
  /\ TypeOK /\ InitAlone /\ LockHeld
  /\ \A t \in Threads : Knows(t) /\ Answers(t)
  /\ Contents \in Seq(Items)

ClipStep == [Clip!Next]_<<Contents, Asked, response>>
-----------------------------------------------------------------------------
(* Contents by cases: a ring of Count items, one without the item that is  *)
(* being taken out, or nothing.                                            *)
ContentsByCase ==
  /\ Clearing /\ ~Removing => Contents = << >>
  /\ ~Clearing /\ ~Removing => Contents = RingContents(Ring, MAX_CLIP, CurrentIndex, Count)
  /\ ~Clearing /\ Removing /\ ~Removed =>
       Contents = RingContents(Ring, MAX_CLIP, CurrentIndex + 1, Count - 1)
  /\ ~Clearing /\ Removed => Contents = RingContents(Ring, MAX_CLIP, CurrentIndex + 1, Count)

(* The cases are the definition of Contents (os_kboard.c:40-41, 74-78),    *)
(* before and after any step.                                              *)
LEMMA ContentsCases == ContentsByCase /\ ContentsByCase'
<1>1. ContentsByCase
  <2>1. Removed => Removing
    BY DEF Removed, Removing
  <2>2. CASE Clearing /\ ~Removing
    <3>1. Contents = [i \in 1 .. 0 |-> Ring[(CurrentIndex + i - 1) % MAX_CLIP]]
      BY <2>2 DEF Contents
    <3>2. Contents = << >>
      BY <3>1
    <3> QED  BY <2>2, <3>2 DEF ContentsByCase
  <2>3. CASE ~Clearing /\ ~Removing
    BY <2>1, <2>3 DEF ContentsByCase, Contents, RingContents, SlotAt
  <2>4. CASE ~Clearing /\ Removing /\ ~Removed
    BY <2>4 DEF ContentsByCase, Contents, RingContents, SlotAt
  <2>5. CASE ~Clearing /\ Removed
    BY <2>1, <2>5 DEF ContentsByCase, Contents, RingContents, SlotAt
  <2> QED  BY <2>1, <2>2, <2>3, <2>4, <2>5 DEF ContentsByCase
<1>2. ContentsByCase'
  <2>1. Removed' => Removing'
    BY DEF Removed, Removing
  <2>2. CASE Clearing' /\ ~Removing'
    <3>1. Contents' = [i \in 1 .. 0 |-> Ring'[(CurrentIndex' + i - 1) % MAX_CLIP]]
      BY <2>2 DEF Contents
    <3>2. Contents' = << >>
      BY <3>1
    <3> QED  BY <2>2, <3>2 DEF ContentsByCase
  <2>3. CASE ~Clearing' /\ ~Removing'
    BY <2>1, <2>3 DEF ContentsByCase, Contents, RingContents, SlotAt
  <2>4. CASE ~Clearing' /\ Removing' /\ ~Removed'
    BY <2>4 DEF ContentsByCase, Contents, RingContents, SlotAt
  <2>5. CASE ~Clearing' /\ Removed'
    BY <2>1, <2>5 DEF ContentsByCase, Contents, RingContents, SlotAt
  <2> QED  BY <2>1, <2>2, <2>3, <2>4, <2>5 DEF ContentsByCase
<1> QED  BY <1>1, <1>2

(* What a call is about at each of its control points.                     *)
LEMMA Requested ==
  ASSUME NEW v
  PROVE  /\ \A l \in EnqueueLabels : Request(l, v) = <<"enqueue", v>>
         /\ \A l \in {"deqLock", "deqTest", "deqCopy"} : Request(l, v) = <<"dequeue">>
         /\ \A l \in {"initLock", "initTake"} : Request(l, v) = <<"reset">>
         /\ \A l \in {"idle", "unlock", "return", "deqClear", "deqCount", "deqAdvance",
                      "initRing", "initCount", "initIndex"} : Request(l, v) = << >>
<1>1. \A l \in EnqueueLabels : Request(l, v) = <<"enqueue", v>>
  BY DEF Request, EnqueueLabels
<1>2. \A l \in {"deqLock", "deqTest", "deqCopy"} : Request(l, v) = <<"dequeue">>
  BY DEF Request, EnqueueLabels
<1>3. \A l \in {"initLock", "initTake"} : Request(l, v) = <<"reset">>
  BY DEF Request, EnqueueLabels
<1>4. \A l \in {"idle", "unlock", "return", "deqClear", "deqCount", "deqAdvance",
               "initRing", "initCount", "initIndex"} : Request(l, v) = << >>
  BY DEF Request, EnqueueLabels
<1> QED  BY <1>1, <1>2, <1>3, <1>4

(* A step of one thread changes what that thread asks for and nothing else. *)
LEMMA AskedMoves ==
  ASSUME TypeOK, NEW t \in Threads, NEW to \in Labels, pc' = [pc EXCEPT ![t] = to],
         \A u \in Threads : u # t => item'[u] = item[u]
  PROVE  /\ Asked[t] = Request(pc[t], item[t])
         /\ Asked' = [Asked EXCEPT ![t] = Request(to, item'[t])]
         /\ Request(to, item'[t]) = Request(pc[t], item[t]) => Asked' = Asked
<1>1. pc'[t] = to /\ \A u \in Threads : u # t => pc'[u] = pc[u]
  BY DEF TypeOK
<1>2. Asked' = [Asked EXCEPT ![t] = Request(to, item'[t])]
  <2>1. Asked' = [u \in Threads |-> Request(pc'[u], item'[u])]
    BY DEF Asked
  <2>2. [Asked EXCEPT ![t] = Request(to, item'[t])]
          = [u \in Threads |-> IF u = t THEN Request(to, item'[t]) ELSE Request(pc[u], item[u])]
    BY DEF Asked
  <2>3. \A u \in Threads :
          Request(pc'[u], item'[u]) = IF u = t THEN Request(to, item'[t]) ELSE Request(pc[u], item[u])
    BY <1>1
  <2> QED  BY <2>1, <2>2, <2>3
<1>3. Asked[t] = Request(pc[t], item[t])
  BY DEF Asked
<1>4. Request(to, item'[t]) = Request(pc[t], item[t]) => Asked' = Asked
  BY <1>1 DEF Asked
<1> QED  BY <1>2, <1>3, <1>4

(* A thread that has the spinlock, or finds it free, is alone inside: what *)
(* the clipboard looks like is decided by its control point only.          *)
LEMMA AloneInside ==
  ASSUME IInv, NEW t \in Threads, Inside(t) \/ Lock = 0,
         NEW to \in Labels, pc' = [pc EXCEPT ![t] = to]
  PROVE  /\ \A u \in Threads : u # t => ~Inside(u) /\ pc'[u] = pc[u]
         /\ pc'[t] = to
         /\ Removing <=> pc[t] \in {"deqClear", "deqCount", "deqAdvance"}
         /\ Removed <=> pc[t] = "deqAdvance"
         /\ Clearing <=> pc[t] \in {"initRing", "initCount", "initIndex"}
         /\ Removing' <=> to \in {"deqClear", "deqCount", "deqAdvance"}
         /\ Removed' <=> to = "deqAdvance"
         /\ Clearing' <=> to \in {"initRing", "initCount", "initIndex"}
<1>1. pc \in [Threads -> Labels]
  BY DEF IInv, TypeOK
<1>2. \A u \in Threads : u # t => ~Inside(u) /\ pc'[u] = pc[u]
  BY <1>1 DEF IInv, LockHeld, MutualExclusion
<1>3. pc'[t] = to
  BY <1>1
<1>4. /\ Removing <=> pc[t] \in {"deqClear", "deqCount", "deqAdvance"}
      /\ Removed <=> pc[t] = "deqAdvance"
      /\ Clearing <=> pc[t] \in {"initRing", "initCount", "initIndex"}
  BY <1>2 DEF Removing, Removed, Clearing, Inside
<1>5. /\ Removing' <=> to \in {"deqClear", "deqCount", "deqAdvance"}
      /\ Removed' <=> to = "deqAdvance"
      /\ Clearing' <=> to \in {"initRing", "initCount", "initIndex"}
  BY <1>2, <1>3 DEF Removing, Removed, Clearing, Inside
<1> QED  BY <1>2, <1>3, <1>4, <1>5

(* The threads outside the spinlock are not disturbed by the one inside.   *)
LEMMA OthersKeep ==
  ASSUME IInv, NEW t \in Threads,
         \A u \in Threads : u # t => /\ ~Inside(u) /\ pc'[u] = pc[u]
                                     /\ item'[u] = item[u] /\ index'[u] = index[u]
                                     /\ response'[u] = response[u]
  PROVE  \A u \in Threads : u # t => Knows(u)' /\ Answers(u)'
<1> SUFFICES ASSUME NEW u \in Threads, u # t PROVE Knows(u)' /\ Answers(u)'
  OBVIOUS
<1>1. Knows(u) /\ Answers(u) /\ ~Inside(u)
  BY DEF IInv
<1>2. Knows(u)'
  BY <1>1 DEF Knows, Inside, EnqueueLabels
<1>3. Answers(u)'
  BY <1>1 DEF Answers
<1> QED  BY <1>2, <1>3

(* A step inside the spinlock, or one that takes it, keeps the parts of    *)
(* the invariant that are not about the data.                              *)
LEMMA InsideKeeps ==
  ASSUME IInv, NEW t \in Threads, Inside(t) \/ Lock = 0,
         NEW to \in Labels, pc' = [pc EXCEPT ![t] = to], Lock' \in {0, 1},
         Lock' = 1 <=> Inside(t)',
         \A u \in Threads : u # t => /\ item'[u] = item[u] /\ index'[u] = index[u]
                                     /\ response'[u] = response[u],
         Knows(t)', Answers(t)'
  PROVE  LockHeld' /\ \A u \in Threads : Knows(u)' /\ Answers(u)'
<1>1. \A u \in Threads : u # t => ~Inside(u) /\ pc'[u] = pc[u]
  BY AloneInside
<1>2. \A u \in Threads : u # t => Knows(u)' /\ Answers(u)'
  BY <1>1, OthersKeep
<1>3. \A u \in Threads : u # t => ~Inside(u)'
  BY <1>1 DEF Inside
<1>4. LockHeld'
  BY <1>3 DEF LockHeld, MutualExclusion
<1> QED  BY <1>2, <1>4

Outside == {"idle", "return", "enqLock", "deqLock", "initLock", "initTake"}

(* A step outside the spinlock touches no data.  The lock made new by      *)
(* kb_init (os_kboard.c:90) is free then, since kb_init is alone.          *)
LEMMA OutsideKeeps ==
  ASSUME IInv, InitAlone', NEW t \in Threads, pc[t] \in Outside,
         NEW to \in Outside, pc' = [pc EXCEPT ![t] = to],
         Lock' = Lock \/ (pc[t] = "initLock" /\ Lock' = 0),
         Ring' = Ring, Count' = Count, CurrentIndex' = CurrentIndex,
         \A u \in Threads : u # t => /\ item'[u] = item[u] /\ index'[u] = index[u]
                                     /\ seen'[u] = seen[u] /\ response'[u] = response[u],
         Knows(t)', Answers(t)', TypeOK'
  PROVE  IInv' /\ Contents' = Contents
<1>1. /\ pc \in [Threads -> Labels] /\ Lock \in {0, 1}
      /\ \A u \in Threads : u # t => pc'[u] = pc[u]
      /\ pc'[t] = to
  BY DEF IInv, TypeOK
<1>2. ~Inside(t) /\ ~Inside(t)' /\ \A u \in Threads : u # t => (Inside(u)' <=> Inside(u))
  BY <1>1 DEF Inside, Outside
<1>3. LockHeld'
  <2>1. CASE Lock' = Lock
    BY <1>2, <2>1 DEF IInv, LockHeld, MutualExclusion
  <2>2. CASE pc[t] = "initLock" /\ Lock' = 0
    <3>1. \A u \in Threads : ~Inside(u)
      BY <2>2 DEF IInv, InitAlone, InitLabels, Inside
    <3> QED  BY <1>2, <2>2, <3>1 DEF LockHeld, MutualExclusion
  <2> QED  BY <2>1, <2>2
<1>4. ASSUME NEW u \in Threads PROVE Knows(u)' /\ Answers(u)'
  <2>1. CASE u # t
    <3>1. Knows(u) /\ Answers(u)
      BY DEF IInv
    <3>2. Knows(u)'
      BY <1>1, <2>1, <3>1 DEF Knows, Loaded
    <3> QED  BY <1>1, <2>1, <3>1, <3>2 DEF Answers
  <2> QED  BY <2>1
<1>5. (Removing' <=> Removing) /\ (Removed' <=> Removed) /\ (Clearing' <=> Clearing)
  BY <1>1 DEF Removing, Removed, Clearing, Outside
<1>6. Contents' = Contents
  BY <1>5 DEF Contents
<1> QED  BY <1>3, <1>4, <1>6 DEF IInv
-----------------------------------------------------------------------------
(* The calls of kb_enqueue, with its refusal of a negative argument        *)
(* (os_kboard.c:24-27), of kb_dequeue and of kb_init.                      *)
LEMMA CallsInv ==
  ASSUME IInv, InitAlone', NEW t \in Threads, Calls(t)
  PROVE  IInv' /\ ClipStep
<1>1. ASSUME NEW v \in Arguments, Enqueue_Call(t, v) PROVE IInv' /\ ClipStep
  <2> DEFINE to == IF v < 0 THEN "return" ELSE "enqLock"
             r == IF v < 0 THEN <<-2>> ELSE << >>
  <2>1. /\ TypeOK /\ Knows(t) /\ Answers(t) /\ v \in Int /\ pc[t] = "idle"
        /\ pc' = [pc EXCEPT ![t] = to] /\ to \in Labels /\ to \in Outside
        /\ response' = [response EXCEPT ![t] = r]
        /\ item' = [item EXCEPT ![t] = v] /\ seen' = seen /\ index' = index
        /\ Lock' = Lock /\ Ring' = Ring /\ Count' = Count /\ CurrentIndex' = CurrentIndex
    BY <1>1, ClipAssumption
       DEF IInv, Enqueue_Call, Moves, Responds, Labels, Outside, EnqueueLabels, globals
  <2>2. r \in Responses /\ r \in {<< >>} \cup {<<c>> : c \in {0, -1, -2}} \cup {<<0, x>> : x \in Items}
    BY DEF Responses
  <2>3. TypeOK'
    BY <2>1, <2>2 DEF TypeOK
  <2>4. pc'[t] = to /\ response'[t] = r /\ item'[t] = v
    BY <2>1 DEF TypeOK
  <2>5. Knows(t)'
    BY <2>1, <2>4 DEF Knows, EnqueueLabels, Items
  <2>6. Answers(t)'
    BY <2>2, <2>4 DEF Answers
  <2>7. IInv' /\ Contents' = Contents
    <3>1. \A u \in Threads : u # t => /\ item'[u] = item[u] /\ index'[u] = index[u]
                                       /\ seen'[u] = seen[u] /\ response'[u] = response[u]
      BY <2>1 DEF TypeOK
    <3> QED  BY <2>1, <2>3, <2>5, <2>6, <3>1, OutsideKeeps DEF Outside
  <2>8. ClipStep
    <3>1. response[t] = << >>
      BY <2>1 DEF Answers
    <3>2. \A u \in Threads : u # t => item'[u] = item[u]
      BY <2>1 DEF TypeOK
    <3>3. /\ Asked[t] = Request("idle", item[t])
          /\ Asked' = [Asked EXCEPT ![t] = Request(to, v)]
          /\ Request(to, v) = Request("idle", item[t]) => Asked' = Asked
      BY <2>1, <2>4, <3>2, AskedMoves
    <3>4. Asked[t] = << >>
      BY <3>3, Requested
    <3>5. CASE v < 0
      <4>1. Asked' = Asked
        BY <3>3, <3>5, Requested
      <4>2. Clip!Refuse(t, -2)
        BY <2>1, <2>7, <3>1, <3>4, <3>5, <4>1 DEF Clip!Refuse, Clip!Idle
      <4> QED  BY <4>2 DEF ClipStep, Clip!Next
    <3>6. CASE ~(v < 0)
      <4>1. response' = response
        BY <2>1, <3>1, <3>6 DEF TypeOK
      <4>2. Asked' = [Asked EXCEPT ![t] = <<"enqueue", v>>]
        BY <3>3, <3>6, Requested DEF EnqueueLabels
      <4>3. Clip!Ask(t, <<"enqueue", v>>)
        BY <2>7, <3>1, <3>4, <4>1, <4>2 DEF Clip!Ask, Clip!Idle
      <4>4. <<"enqueue", v>> \in Clip!Requests
        BY <2>1, <3>6 DEF Clip!Requests
      <4> QED  BY <4>3, <4>4 DEF ClipStep, Clip!Next
    <3> QED  BY <3>5, <3>6
  <2> QED  BY <2>7, <2>8
<1>2. ASSUME Dequeue_Call(t) \/ Init_Call(t) PROVE IInv' /\ ClipStep
  <2>1. PICK to \in {"deqLock", "initLock"} : pc[t] = "idle" /\ pc' = [pc EXCEPT ![t] = to]
    BY <1>2 DEF Dequeue_Call, Init_Call, Moves
  <2>2. /\ TypeOK /\ Knows(t) /\ Answers(t) /\ to \in Labels /\ to \in Outside
        /\ UNCHANGED <<Lock, Ring, Count, CurrentIndex, item, seen, index, response>>
    BY <1>2 DEF IInv, Dequeue_Call, Init_Call, Labels, DequeueLabels, InitLabels, Outside, globals
  <2>3. TypeOK' /\ pc'[t] = to
    BY <2>1, <2>2 DEF TypeOK
  <2>4. Knows(t)' /\ Answers(t)'
    BY <2>1, <2>2, <2>3 DEF Knows, Answers, EnqueueLabels
  <2>5. IInv' /\ Contents' = Contents
    BY <2>1, <2>2, <2>3, <2>4, OutsideKeeps DEF Outside
  <2>6. ClipStep
    <3>1. /\ Asked[t] = Request("idle", item[t])
          /\ Asked' = [Asked EXCEPT ![t] = Request(to, item'[t])]
      BY <2>1, <2>2, AskedMoves
    <3>2. PICK request \in {<<"dequeue">>, <<"reset">>} : request = Request(to, item'[t])
      BY Requested
    <3>3. Asked[t] = << >> /\ response[t] = << >>
      BY <2>1, <2>2, <3>1, Requested DEF Answers
    <3>4. Clip!Ask(t, request)
      BY <2>2, <2>5, <3>1, <3>2, <3>3 DEF Clip!Ask, Clip!Idle
    <3> QED  BY <3>4 DEF ClipStep, Clip!Next, Clip!Requests
  <2> QED  BY <2>5, <2>6
<1> QED  BY <1>1, <1>2 DEF Calls, Copy, Paste, Initialize

(* kb_init makes the spinlock new (os_kboard.c:90).                        *)
LEMMA Init_NewLockInv ==
  ASSUME IInv, InitAlone', NEW t \in Threads, Init_NewLock(t)
  PROVE  IInv' /\ ClipStep
<1>1. /\ TypeOK /\ Knows(t) /\ Answers(t) /\ pc[t] = "initLock" /\ pc' = [pc EXCEPT ![t] = "initTake"]
      /\ Lock' = 0 /\ UNCHANGED <<Ring, Count, CurrentIndex, item, seen, index, response>>
  BY DEF IInv, Init_NewLock, Moves
<1>2. TypeOK' /\ pc'[t] = "initTake"
  BY <1>1 DEF TypeOK, Labels, InitLabels
<1>3. Knows(t)' /\ Answers(t)'
  BY <1>1, <1>2 DEF Knows, Answers, EnqueueLabels
<1>4. IInv' /\ Contents' = Contents
  BY <1>1, <1>2, <1>3, OutsideKeeps DEF Outside
<1>5. Asked' = Asked
  <2>1. "initTake" \in Labels /\ Request("initTake", item'[t]) = Request("initLock", item[t])
    BY Requested DEF Labels, InitLabels
  <2> QED  BY <1>1, <2>1, AskedMoves
<1> QED  BY <1>1, <1>4, <1>5 DEF ClipStep

(* A system call returns its response to the caller.                       *)
LEMMA ReturnInv ==
  ASSUME IInv, InitAlone', NEW t \in Threads, Return(t)
  PROVE  IInv' /\ ClipStep
<1>1. /\ TypeOK /\ pc[t] = "return" /\ pc' = [pc EXCEPT ![t] = "idle"]
      /\ response' = [response EXCEPT ![t] = << >>]
      /\ item' = [item EXCEPT ![t] = 0] /\ index' = [index EXCEPT ![t] = 0]
      /\ seen' = [seen EXCEPT ![t] = NoLoad]
      /\ UNCHANGED <<Lock, Ring, Count, CurrentIndex>>
  BY DEF IInv, Return, Moves, Responds, globals
<1>2. TypeOK' /\ pc'[t] = "idle" /\ index'[t] = 0 /\ response'[t] = << >>
  BY <1>1, ClipAssumption DEF TypeOK, Labels, Responses, NoLoad, Slots
<1>3. Knows(t)' /\ Answers(t)'
  BY <1>2 DEF Knows, Answers, EnqueueLabels
<1>4. IInv' /\ Contents' = Contents
  <2>1. \A u \in Threads : u # t => /\ item'[u] = item[u] /\ index'[u] = index[u]
                                     /\ seen'[u] = seen[u] /\ response'[u] = response[u]
    BY <1>1 DEF TypeOK
  <2> QED  BY <1>1, <1>2, <1>3, <2>1, OutsideKeeps DEF Outside
<1>5. Asked' = Asked
  <2>1. "idle" \in Labels /\ \A u \in Threads : u # t => item'[u] = item[u]
    BY <1>1 DEF TypeOK, Labels
  <2>2. Request("idle", item'[t]) = Request("return", item[t])
    BY Requested
  <2> QED  BY <1>1, <2>1, <2>2, AskedMoves
<1>6. ClipStep
  <2>1. CASE response[t] = << >>
    <3>1. response' = response
      BY <1>1, <2>1 DEF TypeOK
    <3> QED  BY <1>4, <1>5, <3>1 DEF ClipStep
  <2>2. CASE response[t] # << >>
    BY <1>1, <1>4, <1>5, <2>2 DEF ClipStep, Clip!Next, Clip!Return
  <2> QED  BY <2>1, <2>2
<1> QED  BY <1>4, <1>6
-----------------------------------------------------------------------------
(* spin_lock of an enqueue or a dequeue: what the clipboard holds does not *)
(* change.                                                                 *)
LEMMA LockInv ==
  ASSUME IInv, InitAlone', NEW t \in Threads, Enqueue_Lock(t) \/ Dequeue_Lock(t)
  PROVE  IInv' /\ ClipStep
<1>1. PICK to \in {"enqTest", "deqTest"} :
        /\ pc[t] = IF to = "enqTest" THEN "enqLock" ELSE "deqLock"
        /\ pc' = [pc EXCEPT ![t] = to]
  BY DEF Enqueue_Lock, Dequeue_Lock, SpinLock, Moves
<1>2. /\ TypeOK /\ Knows(t) /\ Answers(t) /\ to \in Labels /\ Lock = 0 /\ Lock' = 1
      /\ UNCHANGED <<Ring, Count, CurrentIndex, item, seen, index, response>>
  BY DEF IInv, Enqueue_Lock, Dequeue_Lock, SpinLock, Labels, EnqueueLabels, DequeueLabels
<1>3. TypeOK' /\ pc'[t] = to
  BY <1>1, <1>2 DEF TypeOK
<1>4. Knows(t)' /\ Answers(t)' /\ Inside(t)'
  BY <1>1, <1>2, <1>3 DEF Knows, Answers, Inside, EnqueueLabels
<1>5. LockHeld' /\ \A u \in Threads : Knows(u)' /\ Answers(u)'
  BY <1>1, <1>2, <1>4, InsideKeeps
<1>6. (Removing' <=> Removing) /\ (Removed' <=> Removed) /\ (Clearing' <=> Clearing)
  BY <1>1, <1>2, AloneInside
<1>7. Contents' = Contents
  BY <1>2, <1>6 DEF Contents
<1>8. Asked' = Asked
  <2>1. Request(to, item'[t]) = Request(pc[t], item[t])
    BY <1>1, <1>2, Requested DEF EnqueueLabels
  <2> QED  BY <1>1, <1>2, <2>1, AskedMoves
<1> QED  BY <1>2, <1>3, <1>5, <1>7, <1>8 DEF IInv, ClipStep

(* spin_lock of kb_init, from where on the clipboard counts as reset.      *)
LEMMA Init_LockInv ==
  ASSUME IInv, InitAlone', NEW t \in Threads, Init_Lock(t)
  PROVE  IInv' /\ ClipStep
<1>1. /\ TypeOK /\ Knows(t) /\ Answers(t) /\ pc[t] = "initTake" /\ pc' = [pc EXCEPT ![t] = "initRing"]
      /\ Lock = 0 /\ Lock' = 1 /\ response' = [response EXCEPT ![t] = <<0>>]
      /\ UNCHANGED <<Ring, Count, CurrentIndex, item, seen, index>>
  BY DEF IInv, Init_Lock, SpinLock, Moves, Responds
<1>2. TypeOK' /\ pc'[t] = "initRing" /\ response'[t] = <<0>> /\ "initRing" \in Labels
  BY <1>1 DEF TypeOK, Labels, InitLabels, Responses
<1>3. Knows(t)' /\ Answers(t)' /\ Inside(t)'
  BY <1>1, <1>2, ClipAssumption DEF Knows, Answers, Inside, EnqueueLabels
<1>4. \A u \in Threads : u # t => response'[u] = response[u]
  BY <1>1 DEF TypeOK
<1>5. LockHeld' /\ \A u \in Threads : Knows(u)' /\ Answers(u)'
  BY <1>1, <1>2, <1>3, <1>4, InsideKeeps
<1>6. Clearing' /\ ~Removing'
  BY <1>1, <1>2, AloneInside
<1>7. Contents' = << >>
  BY <1>6, ContentsCases DEF ContentsByCase
<1>8. ClipStep
  <2>1. Asked[t] = Request("initTake", item[t]) /\ Asked' = [Asked EXCEPT ![t] = Request("initRing", item'[t])]
    BY <1>1, <1>2, AskedMoves
  <2>2. Asked[t] = <<"reset">> /\ Asked' = [Asked EXCEPT ![t] = << >>]
    BY <2>1, Requested
  <2> QED  BY <1>1, <1>7, <2>2 DEF ClipStep, Clip!Next, Clip!Reset, Clip!Decide
<1> QED  BY <1>2, <1>5, <1>7, <1>8 DEF IInv

(* spin_unlock.                                                            *)
LEMMA SpinUnlockInv ==
  ASSUME IInv, InitAlone', NEW t \in Threads, SpinUnlock(t)
  PROVE  IInv' /\ ClipStep
<1>1. /\ TypeOK /\ Knows(t) /\ Answers(t) /\ pc[t] = "unlock" /\ pc' = [pc EXCEPT ![t] = "return"]
      /\ Lock' = 0 /\ UNCHANGED <<Ring, Count, CurrentIndex, item, seen, index, response>>
  BY DEF IInv, SpinUnlock, Moves
<1>2. TypeOK' /\ pc'[t] = "return" /\ "return" \in Labels
  BY <1>1 DEF TypeOK, Labels
<1>3. Knows(t)' /\ Answers(t)' /\ ~Inside(t)' /\ Inside(t)
  BY <1>1, <1>2 DEF Knows, Answers, Inside, EnqueueLabels
<1>4. LockHeld' /\ \A u \in Threads : Knows(u)' /\ Answers(u)'
  <2>1. Lock' \in {0, 1} /\ (Lock' = 1 <=> Inside(t)')
    BY <1>1, <1>3
  <2> QED  BY <1>1, <1>2, <1>3, <2>1, InsideKeeps
<1>5. (Removing' <=> Removing) /\ (Removed' <=> Removed) /\ (Clearing' <=> Clearing)
  BY <1>1, <1>2, <1>3, AloneInside
<1>6. Contents' = Contents
  BY <1>1, <1>5 DEF Contents
<1>7. Asked' = Asked
  <2>1. Request("return", item'[t]) = Request("unlock", item[t])
    BY Requested
  <2> QED  BY <1>1, <1>2, <2>1, AskedMoves
<1> QED  BY <1>1, <1>2, <1>4, <1>6, <1>7 DEF IInv, ClipStep
-----------------------------------------------------------------------------
(* The test for a full clipboard (os_kboard.c:31-37).                      *)
LEMMA Enqueue_TestInv ==
  ASSUME IInv, InitAlone', NEW t \in Threads, Enqueue_Test(t)
  PROVE  IInv' /\ ClipStep
<1> DEFINE to == IF IsFull(Count) THEN "unlock" ELSE "enqStore"
           r == IF IsFull(Count) THEN <<-1>> ELSE << >>
           load == [count |-> Count, current |-> CurrentIndex]
<1>1. /\ TypeOK /\ Knows(t) /\ Answers(t) /\ pc[t] = "enqTest" /\ pc' = [pc EXCEPT ![t] = to]
      /\ response' = [response EXCEPT ![t] = r] /\ seen' = [seen EXCEPT ![t] = load]
      /\ UNCHANGED <<Lock, Ring, Count, CurrentIndex, item, index>>
  BY DEF IInv, Enqueue_Test, Moves, Responds, Load, AfterRefusal, globals
<1>2. r \in Responses /\ to \in Labels /\ response[t] = << >> /\ Inside(t)
  BY <1>1 DEF Responses, Labels, EnqueueLabels, Answers, Inside
<1>3. TypeOK' /\ pc'[t] = to /\ response'[t] = r /\ seen'[t] = load
  BY <1>1, <1>2 DEF TypeOK
<1>4. IsFull(Count) <=> Count = MAX_CLIP
  BY <1>1, ClipAssumption DEF IsFull, TypeOK
<1>5. Knows(t)'
  <2>1. Count \in 0 .. MAX_CLIP /\ MAX_CLIP \in Nat
    BY <1>1, ClipAssumption DEF TypeOK
  <2> QED  BY <1>1, <1>3, <1>4, <2>1 DEF Knows, Loaded, EnqueueLabels
<1>6. Answers(t)' /\ Inside(t)'
  BY <1>2, <1>3 DEF Answers, Inside
<1>7. LockHeld' /\ \A u \in Threads : Knows(u)' /\ Answers(u)'
  <2>1. \A u \in Threads : u # t => response'[u] = response[u]
    BY <1>1 DEF TypeOK
  <2>2. Lock' = 1 /\ Lock' \in {0, 1}
    BY <1>1, <1>2 DEF IInv, LockHeld
  <2> QED  BY <1>1, <1>2, <1>5, <1>6, <2>1, <2>2, InsideKeeps
<1>8. ~Removing /\ ~Clearing /\ ~Removing' /\ ~Clearing'
  BY <1>1, <1>2, AloneInside
<1>9. /\ Contents = RingContents(Ring, MAX_CLIP, CurrentIndex, Count)
      /\ Contents' = Contents
  BY <1>1, <1>8, ContentsCases DEF ContentsByCase
<1>10. ClipStep
  <2>0. /\ Asked[t] = Request("enqTest", item[t])
        /\ Asked' = [Asked EXCEPT ![t] = Request(to, item'[t])]
        /\ Request(to, item'[t]) = Request("enqTest", item[t]) => Asked' = Asked
    BY <1>1, <1>2, AskedMoves
  <2>1. CASE IsFull(Count)
    <3>1. Count \in Nat /\ Contents \in Seq(Items)
      BY <1>1, ClipAssumption DEF IInv, TypeOK
    <3>2. Len(Contents) = Count
      BY <1>9, <3>1, ContentsSlots
    <3>3. Asked[t] = <<"enqueue", item[t]>> /\ Asked' = [Asked EXCEPT ![t] = << >>]
      BY <2>0, <2>1, Requested DEF EnqueueLabels
    <3>4. Clip!EnqueueFull(t, item[t])
      BY <1>1, <1>2, <1>4, <1>9, <2>1, <3>2, <3>3 DEF Clip!EnqueueFull, Clip!Decide
    <3>5. item[t] \in Items
      BY <1>1 DEF Knows, EnqueueLabels
    <3> QED  BY <3>4, <3>5 DEF ClipStep, Clip!Next, Items
  <2>2. CASE ~IsFull(Count)
    <3>1. response' = response
      BY <1>1, <1>2, <2>2 DEF TypeOK
    <3>2. Asked' = Asked
      BY <1>1, <2>0, <2>2, Requested DEF EnqueueLabels
    <3> QED  BY <1>9, <3>1, <3>2 DEF ClipStep
  <2> QED  BY <2>1, <2>2
<1> QED  BY <1>3, <1>7, <1>9, <1>10 DEF IInv

(* The loads of a thread that has the spinlock are the present values, so  *)
(* that the slot it computes is the one behind the last item.              *)
LEMMA FreeSlotFacts ==
  ASSUME IInv, NEW t \in Threads, pc[t] = "enqStore"
  PROVE  /\ CountLoads(t) = {Count} /\ IndexLoads(t) = {CurrentIndex}
         /\ FreeSlot(Count, CurrentIndex) = SlotAt(MAX_CLIP, CurrentIndex + Count)
         /\ FreeSlot(Count, CurrentIndex) \in Slots
<1>1. /\ Count \in 0 .. MAX_CLIP - 1 /\ CurrentIndex \in 0 .. MAX_CLIP - 1
      /\ MAX_CLIP \in Nat \ {0} /\ Loaded(t)
  <2>1. Knows(t) /\ TypeOK
    BY DEF IInv
  <2> QED  BY <2>1, ClipAssumption DEF Knows, TypeOK, Slots
<1>2. CountLoads(t) = {Count} /\ IndexLoads(t) = {CurrentIndex}
  BY <1>1 DEF CountLoads, IndexLoads, Loaded
<1>3. FreeSlot(Count, CurrentIndex) = SlotAt(MAX_CLIP, CurrentIndex + Count)
  <2>1. CurrentIndex + Count >= 0
    BY <1>1
  <2> QED  BY <2>1 DEF FreeSlot, Rem, SlotAt
<1>4. SlotAt(MAX_CLIP, CurrentIndex + Count) \in 0 .. MAX_CLIP - 1
  <2>1. CurrentIndex + Count \in 0 .. 2 * MAX_CLIP - 1
    BY <1>1
  <2> QED  BY <1>1, <2>1, SlotOnce
<1> QED  BY <1>2, <1>3, <1>4 DEF Slots

(* The store of the new item (os_kboard.c:40), not yet counted.            *)
LEMMA Enqueue_StoreInv ==
  ASSUME IInv, InitAlone', NEW t \in Threads, Enqueue_Store(t)
  PROVE  IInv' /\ ClipStep
<1> DEFINE slot == SlotAt(MAX_CLIP, CurrentIndex + Count)
<1>1. /\ TypeOK /\ Knows(t) /\ Answers(t) /\ pc[t] = "enqStore" /\ pc' = [pc EXCEPT ![t] = "enqCount"]
      /\ UNCHANGED <<Lock, Count, CurrentIndex, item, seen, index, response>>
  BY DEF IInv, Enqueue_Store, Moves
<1>2. Ring' = [Ring EXCEPT ![slot] = item[t]] /\ slot \in Slots
  <2>1. /\ CountLoads(t) = {Count} /\ IndexLoads(t) = {CurrentIndex}
        /\ FreeSlot(Count, CurrentIndex) = slot /\ slot \in Slots
    BY <1>1, FreeSlotFacts
  <2>2. Store(FreeSlot(Count, CurrentIndex), item[t])
    BY <2>1 DEF Enqueue_Store
  <2> QED  BY <2>1, <2>2 DEF Store
<1>3. /\ Count \in 0 .. MAX_CLIP - 1 /\ CurrentIndex \in 0 .. MAX_CLIP - 1
      /\ MAX_CLIP \in Nat \ {0}
  BY <1>1, ClipAssumption DEF Knows, TypeOK, Slots
<1> HIDE DEF slot
<1>4. Inside(t) /\ item[t] \in Items /\ Ring'[slot] = item[t] /\ "enqCount" \in Labels
  BY <1>1, <1>2 DEF Inside, Knows, EnqueueLabels, TypeOK, Labels
<1>5. TypeOK' /\ pc'[t] = "enqCount"
  <2>1. Ring' \in [Slots -> Arguments \cup {0, INIT_VALUE}]
    BY <1>1, <1>2, <1>4 DEF TypeOK, Items
  <2> QED  BY <1>1, <1>4, <2>1 DEF TypeOK
<1>6. Knows(t)'
  <2>1. item'[t] = item[t] /\ Ring'[SlotAt(MAX_CLIP, CurrentIndex' + Count')] = item[t]
    BY <1>1, <1>4 DEF slot
  <2> QED  BY <1>1, <1>4, <1>5, <2>1 DEF Knows, Loaded, EnqueueLabels
<1>7. Answers(t)' /\ Inside(t)'
  BY <1>1, <1>5 DEF Answers, Inside
<1>8. LockHeld' /\ \A u \in Threads : Knows(u)' /\ Answers(u)'
  <2>1. Lock' = 1 /\ Lock' \in {0, 1}
    BY <1>1, <1>4 DEF IInv, LockHeld
  <2> QED  BY <1>1, <1>4, <1>6, <1>7, <2>1, InsideKeeps
<1>9. ~Removing /\ ~Clearing /\ ~Removing' /\ ~Clearing'
  BY <1>1, <1>4, AloneInside
<1>10. Contents' = Contents
  <2>1. \A j \in 0 .. MAX_CLIP - 1 : j # SlotAt(MAX_CLIP, CurrentIndex + Count) => Ring'[j] = Ring[j]
    BY <1>1, <1>2 DEF slot, TypeOK, Slots
  <2>2. RingContents(Ring', MAX_CLIP, CurrentIndex, Count)
          = RingContents(Ring, MAX_CLIP, CurrentIndex, Count)
    BY <1>3, <2>1, ContentsKept
  <2> QED  BY <1>1, <1>9, <2>2, ContentsCases DEF ContentsByCase
<1>11. Asked' = Asked
  <2>1. Request("enqCount", item'[t]) = Request("enqStore", item[t])
    BY <1>1, Requested DEF EnqueueLabels
  <2> QED  BY <1>1, <1>4, <2>1, AskedMoves
<1> QED  BY <1>1, <1>5, <1>8, <1>10, <1>11 DEF IInv, ClipStep

(* The count of the new item (os_kboard.c:41): now it is in the clipboard. *)
LEMMA Enqueue_CountInv ==
  ASSUME IInv, InitAlone', NEW t \in Threads, Enqueue_Count(t)
  PROVE  IInv' /\ ClipStep /\ Contents' = Append(Contents, item[t])
<1>1. /\ TypeOK /\ Knows(t) /\ Answers(t) /\ pc[t] = "enqCount" /\ pc' = [pc EXCEPT ![t] = "unlock"]
      /\ response' = [response EXCEPT ![t] = <<0, item[t]>>]
      /\ UNCHANGED <<Lock, Ring, CurrentIndex, item, seen, index>>
  BY DEF IInv, Enqueue_Count, Moves, Responds
<1>2. /\ Count \in 0 .. MAX_CLIP - 1 /\ CurrentIndex \in 0 .. MAX_CLIP - 1
      /\ MAX_CLIP \in Nat \ {0} /\ Loaded(t)
      /\ item[t] \in Items /\ Ring[SlotAt(MAX_CLIP, CurrentIndex + Count)] = item[t]
      /\ response[t] = << >> /\ Inside(t) /\ "unlock" \in Labels
  BY <1>1, ClipAssumption DEF Knows, Answers, TypeOK, Slots, EnqueueLabels, Inside, Labels
<1>3. Count' = Count + 1
  <2>1. CountLoads(t) = {Count}
    BY <1>2 DEF CountLoads, Loaded
  <2> QED  BY <2>1 DEF Enqueue_Count
<1>4. TypeOK' /\ pc'[t] = "unlock" /\ response'[t] = <<0, item[t]>>
  <2>1. <<0, item[t]>> \in Responses
    BY <1>2 DEF Responses, Items
  <2> QED  BY <1>1, <1>2, <1>3, <2>1 DEF TypeOK
<1>5. Knows(t)' /\ Answers(t)' /\ Inside(t)'
  BY <1>2, <1>4 DEF Knows, Answers, Inside, EnqueueLabels
<1>6. LockHeld' /\ \A u \in Threads : Knows(u)' /\ Answers(u)'
  <2>1. \A u \in Threads : u # t => response'[u] = response[u]
    BY <1>1 DEF TypeOK
  <2>2. Lock' = 1 /\ Lock' \in {0, 1}
    BY <1>1, <1>2 DEF IInv, LockHeld
  <2> QED  BY <1>1, <1>2, <1>5, <2>1, <2>2, InsideKeeps
<1>7. ~Removing /\ ~Clearing /\ ~Removing' /\ ~Clearing'
  BY <1>1, <1>2, AloneInside
<1>8. /\ Contents = RingContents(Ring, MAX_CLIP, CurrentIndex, Count)
      /\ Contents' = RingContents(Ring, MAX_CLIP, CurrentIndex, Count + 1)
  BY <1>1, <1>3, <1>7, ContentsCases DEF ContentsByCase
<1>9. Contents \in Seq(Items) /\ Count \in Nat
  BY <1>2 DEF IInv
<1>10. /\ Len(Contents) = Count
       /\ \A i \in 1 .. Count : Ring[SlotAt(MAX_CLIP, CurrentIndex + i - 1)] \in Items
  BY <1>8, <1>9, ContentsSlots
<1>11. Contents' = Append(Contents, item[t])
  <2>1. CurrentIndex + (Count + 1) - 1 = CurrentIndex + Count
    BY <1>2
  <2>2. \A i \in 1 .. Count + 1 : Ring[SlotAt(MAX_CLIP, CurrentIndex + i - 1)] \in Items
    <3>1. \A i \in 1 .. Count + 1 : i \in 1 .. Count \/ i = Count + 1
      BY <1>2
    <3> QED  BY <1>2, <1>10, <2>1, <3>1
  <2>3. RingContents(Ring, MAX_CLIP, CurrentIndex, Count + 1)
          = Append(RingContents(Ring, MAX_CLIP, CurrentIndex, Count),
                   Ring[SlotAt(MAX_CLIP, CurrentIndex + Count)])
    BY <1>2, <2>2, ContentsAppend
  <2> QED  BY <1>2, <1>8, <2>3
<1>12. Contents' \in Seq(Items)
  BY <1>2, <1>9, <1>11
<1>13. ClipStep
  <2>1. Len(Contents) < MAX_CLIP
    BY <1>2, <1>10
  <2>2. /\ Asked[t] = Request("enqCount", item[t])
        /\ Asked' = [Asked EXCEPT ![t] = Request("unlock", item'[t])]
    BY <1>1, <1>2, AskedMoves
  <2>3. Asked[t] = <<"enqueue", item[t]>> /\ Asked' = [Asked EXCEPT ![t] = << >>]
    BY <2>2, Requested DEF EnqueueLabels
  <2>4. Clip!Enqueue(t, item[t])
    BY <1>1, <1>11, <2>1, <2>3 DEF Clip!Enqueue, Clip!Decide
  <2> QED  BY <1>2, <2>4 DEF ClipStep, Clip!Next, Items
<1> QED  BY <1>4, <1>6, <1>11, <1>12, <1>13 DEF IInv
-----------------------------------------------------------------------------
(* The test for an empty clipboard (os_kboard.c:56-62).                    *)
LEMMA Dequeue_TestInv ==
  ASSUME IInv, InitAlone', NEW t \in Threads, Dequeue_Test(t)
  PROVE  IInv' /\ ClipStep
<1> DEFINE to == IF IsEmpty(Count) THEN "unlock" ELSE "deqCopy"
           r == IF IsEmpty(Count) THEN <<-1>> ELSE << >>
<1>1. /\ TypeOK /\ Knows(t) /\ Answers(t) /\ pc[t] = "deqTest" /\ pc' = [pc EXCEPT ![t] = to]
      /\ response' = [response EXCEPT ![t] = r]
      /\ UNCHANGED <<Lock, Ring, Count, CurrentIndex, item, seen, index>>
  BY DEF IInv, Dequeue_Test, Moves, Responds, AfterRefusal, globals
<1>2. r \in Responses /\ to \in Labels /\ response[t] = << >> /\ Inside(t)
  BY <1>1 DEF Responses, Labels, DequeueLabels, Answers, Inside
<1>3. TypeOK' /\ pc'[t] = to /\ response'[t] = r
  BY <1>1, <1>2 DEF TypeOK
<1>4. Count \in Nat /\ (IsEmpty(Count) <=> Count = 0)
  BY <1>1, ClipAssumption DEF IsEmpty, TypeOK
<1>5. Knows(t)'
  BY <1>1, <1>3, <1>4 DEF Knows, EnqueueLabels
<1>6. Answers(t)' /\ Inside(t)'
  BY <1>2, <1>3 DEF Answers, Inside
<1>7. LockHeld' /\ \A u \in Threads : Knows(u)' /\ Answers(u)'
  <2>1. \A u \in Threads : u # t => response'[u] = response[u]
    BY <1>1 DEF TypeOK
  <2>2. Lock' = 1 /\ Lock' \in {0, 1}
    BY <1>1, <1>2 DEF IInv, LockHeld
  <2> QED  BY <1>1, <1>2, <1>5, <1>6, <2>1, <2>2, InsideKeeps
<1>8. ~Removing /\ ~Clearing /\ ~Removing' /\ ~Clearing'
  BY <1>1, <1>2, AloneInside
<1>9. /\ Contents = RingContents(Ring, MAX_CLIP, CurrentIndex, Count)
      /\ Contents' = Contents
  BY <1>1, <1>8, ContentsCases DEF ContentsByCase
<1>10. ClipStep
  <2>0. /\ Asked[t] = Request("deqTest", item[t])
        /\ Asked' = [Asked EXCEPT ![t] = Request(to, item'[t])]
        /\ Request(to, item'[t]) = Request("deqTest", item[t]) => Asked' = Asked
    BY <1>1, <1>2, AskedMoves
  <2>1. CASE IsEmpty(Count)
    <3>1. Contents \in Seq(Items)
      BY DEF IInv
    <3>2. Len(Contents) = 0
      BY <1>4, <1>9, <2>1, <3>1, ContentsSlots
    <3>3. Contents = << >>
      BY <3>1, <3>2
    <3>4. Asked[t] = <<"dequeue">> /\ Asked' = [Asked EXCEPT ![t] = << >>]
      BY <2>0, <2>1, Requested
    <3> QED  BY <1>1, <1>9, <2>1, <3>3, <3>4
             DEF ClipStep, Clip!Next, Clip!DequeueEmpty, Clip!Decide
  <2>2. CASE ~IsEmpty(Count)
    <3>1. response' = response
      BY <1>1, <1>2, <2>2 DEF TypeOK
    <3>2. Asked' = Asked
      BY <2>0, <2>2, Requested
    <3> QED  BY <1>9, <3>1, <3>2 DEF ClipStep
  <2> QED  BY <2>1, <2>2
<1> QED  BY <1>3, <1>7, <1>9, <1>10 DEF IInv

(* copy_to_user() (os_kboard.c:65-71): the oldest item is handed over and  *)
(* counts as taken out, or the copy fails and it stays.                    *)
LEMMA Dequeue_CopyInv ==
  ASSUME IInv, InitAlone', NEW t \in Threads, Dequeue_Copy(t)
  PROVE  /\ IInv' /\ ClipStep
         /\ \/ response'[t] = <<-2>>
            \/ /\ Contents # << >> /\ response'[t] = <<0, Head(Contents)>>
               /\ Contents' = Tail(Contents)
<1> DEFINE load == [count |-> Count, current |-> CurrentIndex]
<1>1. PICK to \in {"deqClear", "unlock"} :
        /\ pc[t] = "deqCopy" /\ pc' = [pc EXCEPT ![t] = to]
        /\ response' = [response EXCEPT ![t] = IF to = "deqClear"
                                                 THEN <<0, Ring[CurrentIndex]>> ELSE <<-2>>]
  BY DEF Dequeue_Copy, Moves, Responds, AfterRefusal
<1>2. /\ TypeOK /\ Knows(t) /\ Answers(t) /\ seen' = [seen EXCEPT ![t] = load]
      /\ UNCHANGED <<Lock, Ring, Count, CurrentIndex, item, index>>
  BY DEF IInv, Dequeue_Copy, Load, globals
<1>3. /\ response[t] = << >> /\ Inside(t) /\ to \in Labels
      /\ Count \in 1 .. MAX_CLIP /\ CurrentIndex \in 0 .. MAX_CLIP - 1 /\ MAX_CLIP \in Nat \ {0}
  BY <1>1, <1>2, ClipAssumption DEF Labels, DequeueLabels, Knows, Answers, TypeOK, Slots, Inside
<1>4. ~Removing /\ ~Clearing /\ ~Clearing' /\ ~Removed' /\ (Removing' <=> to = "deqClear")
  BY <1>1, <1>3, AloneInside
<1>5. /\ Contents = RingContents(Ring, MAX_CLIP, CurrentIndex, Count)
      /\ to = "deqClear" => Contents' = RingContents(Ring, MAX_CLIP, CurrentIndex + 1, Count - 1)
      /\ to = "unlock" => Contents' = Contents
  BY <1>2, <1>4, ContentsCases DEF ContentsByCase
<1>6. /\ Contents \in Seq(Items) /\ Count \in Nat
      /\ \A i \in 1 .. Count : Ring[SlotAt(MAX_CLIP, CurrentIndex + i - 1)] \in Items
  <2>1. Contents \in Seq(Items) /\ Count \in Nat
    BY <1>3 DEF IInv
  <2> QED  BY <1>5, <2>1, ContentsSlots
<1>7. /\ Contents # << >> /\ Head(Contents) = Ring[CurrentIndex]
      /\ to = "deqClear" => Contents' = Tail(Contents)
  <2> DEFINE q == RingContents(Ring, MAX_CLIP, CurrentIndex, Count)
  <2>1. /\ q # << >> /\ Head(q) = Ring[CurrentIndex]
        /\ Tail(q) = RingContents(Ring, MAX_CLIP, CurrentIndex + 1, Count - 1)
    <3>1. Count \in 1 .. MAX_CLIP /\ CurrentIndex \in 0 .. MAX_CLIP - 1 /\ MAX_CLIP \in Nat \ {0}
      BY <1>3
    <3>2. \A i \in 1 .. Count : Ring[SlotAt(MAX_CLIP, CurrentIndex + i - 1)] \in Items
      BY <1>6
    <3> QED  BY <3>1, <3>2, ContentsTail, Zenon
  <2> HIDE DEF q
  <2>2. Contents = q
    BY <1>5 DEF q
  <2> QED  BY <1>5, <2>1, <2>2
<1>8. Contents' \in Seq(Items) /\ Ring[CurrentIndex] \in Items
  <2>1. Head(Contents) \in Items /\ Tail(Contents) \in Seq(Items)
    BY <1>6, <1>7
  <2> QED  BY <1>5, <1>6, <1>7, <2>1
<1> DEFINE r == IF to = "deqClear" THEN <<0, Ring[CurrentIndex]>> ELSE <<-2>>
<1>9. r \in Responses /\ r \in {<<c>> : c \in {0, -1, -2}} \cup {<<0, v>> : v \in Items}
  BY <1>8 DEF Responses, Items
<1>10. response' = [response EXCEPT ![t] = r]
  BY <1>1
<1> HIDE DEF r
<1>11. TypeOK' /\ pc'[t] = to /\ response'[t] = r /\ seen'[t] = load
  BY <1>1, <1>2, <1>3, <1>9, <1>10 DEF TypeOK
<1>12. Knows(t)'
  BY <1>2, <1>3, <1>11 DEF Knows, Loaded, EnqueueLabels
<1>13. Answers(t)' /\ Inside(t)'
  BY <1>9, <1>11 DEF Answers, Inside
<1>14. LockHeld' /\ \A u \in Threads : Knows(u)' /\ Answers(u)'
  <2>1. \A u \in Threads : u # t => response'[u] = response[u]
    BY <1>2, <1>10 DEF TypeOK
  <2>2. Lock' = 1 /\ Lock' \in {0, 1}
    BY <1>2, <1>3 DEF IInv, LockHeld
  <2> QED  BY <1>1, <1>2, <1>3, <1>12, <1>13, <2>1, <2>2, InsideKeeps
<1>15. ClipStep
  <2>0. Asked[t] = <<"dequeue">> /\ Asked' = [Asked EXCEPT ![t] = << >>]
    <3>1. /\ Asked[t] = Request("deqCopy", item[t])
          /\ Asked' = [Asked EXCEPT ![t] = Request(to, item'[t])]
      BY <1>1, <1>2, <1>3, AskedMoves
    <3> QED  BY <3>1, Requested
  <2>1. CASE to = "deqClear"
    <3>1. response' = [response EXCEPT ![t] = <<0, Head(Contents)>>]
      BY <1>7, <1>10, <2>1 DEF r
    <3> QED  BY <1>7, <2>0, <2>1, <3>1 DEF ClipStep, Clip!Next, Clip!Dequeue, Clip!Decide
  <2>2. CASE to = "unlock"
    <3>1. response' = [response EXCEPT ![t] = <<-2>>]
      BY <1>10, <2>2 DEF r
    <3> QED  BY <1>5, <1>7, <2>0, <2>2, <3>1
             DEF ClipStep, Clip!Next, Clip!DequeueFault, Clip!Decide
  <2> QED  BY <2>1, <2>2
<1>16. \/ response'[t] = <<-2>>
       \/ /\ Contents # << >> /\ response'[t] = <<0, Head(Contents)>>
          /\ Contents' = Tail(Contents)
  BY <1>7, <1>11 DEF r
<1> QED  BY <1>8, <1>11, <1>14, <1>15, <1>16 DEF IInv

(* The slot of the item is cleared, Count and CurrentIndex follow          *)
(* (os_kboard.c:74-78): the clipboard is the same after each of the three. *)
LEMMA Dequeue_ClearInv ==
  ASSUME IInv, InitAlone', NEW t \in Threads, Dequeue_Clear(t)
  PROVE  IInv' /\ ClipStep
<1>1. /\ TypeOK /\ Knows(t) /\ Answers(t) /\ pc[t] = "deqClear" /\ pc' = [pc EXCEPT ![t] = "deqCount"]
      /\ UNCHANGED <<Lock, Count, CurrentIndex, item, seen, index, response>>
  BY DEF IInv, Dequeue_Clear, Moves
<1>2. /\ Count \in 1 .. MAX_CLIP /\ CurrentIndex \in 0 .. MAX_CLIP - 1 /\ MAX_CLIP \in Nat \ {0}
      /\ Inside(t) /\ "deqCount" \in Labels /\ Loaded(t)
  BY <1>1, ClipAssumption DEF Labels, DequeueLabels, Knows, TypeOK, Slots, Inside
<1>3. Ring' = [Ring EXCEPT ![CurrentIndex] = INIT_VALUE]
  <2>1. IndexLoads(t) = {CurrentIndex} /\ CurrentIndex \in Slots
    BY <1>2 DEF IndexLoads, Loaded, Slots
  <2>2. Store(CurrentIndex, INIT_VALUE)
    BY <2>1 DEF Dequeue_Clear
  <2> QED  BY <2>1, <2>2 DEF Store
<1>4. TypeOK' /\ pc'[t] = "deqCount"
  BY <1>1, <1>2, <1>3 DEF TypeOK
<1>5. Knows(t)' /\ Answers(t)' /\ Inside(t)'
  BY <1>1, <1>4 DEF Knows, Loaded, Answers, Inside, EnqueueLabels
<1>6. LockHeld' /\ \A u \in Threads : Knows(u)' /\ Answers(u)'
  <2>1. Lock' = 1 /\ Lock' \in {0, 1}
    BY <1>1, <1>2 DEF IInv, LockHeld
  <2> QED  BY <1>1, <1>2, <1>5, <2>1, InsideKeeps
<1>7. Removing /\ ~Removed /\ ~Clearing /\ Removing' /\ ~Removed' /\ ~Clearing'
  BY <1>1, <1>2, AloneInside
<1>8. Contents' = Contents
  <2>1. \A j \in 0 .. MAX_CLIP - 1 : j # CurrentIndex => Ring'[j] = Ring[j]
    BY <1>1, <1>3 DEF TypeOK, Slots
  <2>2. RingContents(Ring', MAX_CLIP, CurrentIndex + 1, Count - 1)
          = RingContents(Ring, MAX_CLIP, CurrentIndex + 1, Count - 1)
    BY <1>2, <2>1, ContentsCleared
  <2> QED  BY <1>1, <1>7, <2>2, ContentsCases DEF ContentsByCase
<1>9. Asked' = Asked
  <2>1. Request("deqCount", item'[t]) = Request("deqClear", item[t])
    BY Requested
  <2> QED  BY <1>1, <1>2, <2>1, AskedMoves
<1> QED  BY <1>1, <1>4, <1>6, <1>8, <1>9 DEF IInv, ClipStep

(* Count-- (os_kboard.c:75).                                               *)
LEMMA Dequeue_CountInv ==
  ASSUME IInv, InitAlone', NEW t \in Threads, Dequeue_Count(t)
  PROVE  IInv' /\ ClipStep
<1>1. /\ TypeOK /\ Knows(t) /\ Answers(t) /\ pc[t] = "deqCount" /\ pc' = [pc EXCEPT ![t] = "deqAdvance"]
      /\ UNCHANGED <<Lock, Ring, CurrentIndex, item, seen, index, response>>
  BY DEF IInv, Dequeue_Count, Moves
<1>2. /\ Count \in 1 .. MAX_CLIP /\ MAX_CLIP \in Nat \ {0}
      /\ Inside(t) /\ "deqAdvance" \in Labels /\ Loaded(t)
  BY <1>1, ClipAssumption DEF Labels, DequeueLabels, Knows, TypeOK, Inside
<1>3. Count' = Count - 1
  <2>1. CountLoads(t) = {Count}
    BY <1>2 DEF CountLoads, Loaded
  <2> QED  BY <2>1 DEF Dequeue_Count
<1>4. TypeOK' /\ pc'[t] = "deqAdvance"
  BY <1>1, <1>2, <1>3 DEF TypeOK
<1>5. Knows(t)'
  BY <1>1, <1>2, <1>3, <1>4 DEF Knows, Loaded, EnqueueLabels
<1>6. Answers(t)' /\ Inside(t)'
  BY <1>1, <1>4 DEF Answers, Inside
<1>7. LockHeld' /\ \A u \in Threads : Knows(u)' /\ Answers(u)'
  <2>1. Lock' = 1 /\ Lock' \in {0, 1}
    BY <1>1, <1>2 DEF IInv, LockHeld
  <2> QED  BY <1>1, <1>2, <1>5, <1>6, <2>1, InsideKeeps
<1>8. Removing /\ ~Removed /\ ~Clearing /\ Removing' /\ Removed' /\ ~Clearing'
  BY <1>1, <1>2, AloneInside
<1>9. Contents' = Contents
  BY <1>1, <1>3, <1>8, ContentsCases DEF ContentsByCase
<1>10. Asked' = Asked
  <2>1. Request("deqAdvance", item'[t]) = Request("deqCount", item[t])
    BY Requested
  <2> QED  BY <1>1, <1>2, <2>1, AskedMoves
<1> QED  BY <1>1, <1>4, <1>7, <1>9, <1>10 DEF IInv, ClipStep

(* The advance of CurrentIndex around the ring (os_kboard.c:78).           *)
LEMMA Dequeue_AdvanceInv ==
  ASSUME IInv, InitAlone', NEW t \in Threads, Dequeue_Advance(t)
  PROVE  IInv' /\ ClipStep
<1>1. /\ TypeOK /\ Knows(t) /\ Answers(t) /\ pc[t] = "deqAdvance" /\ pc' = [pc EXCEPT ![t] = "unlock"]
      /\ UNCHANGED <<Lock, Ring, Count, item, seen, index, response>>
  BY DEF IInv, Dequeue_Advance, Moves
<1>2. /\ Count \in 0 .. MAX_CLIP - 1 /\ CurrentIndex \in 0 .. MAX_CLIP - 1 /\ MAX_CLIP \in Nat \ {0}
      /\ Inside(t) /\ "unlock" \in Labels /\ seen[t].current = CurrentIndex
  BY <1>1, ClipAssumption DEF Labels, Knows, TypeOK, Slots, Inside
<1>3. CurrentIndex' = SlotAt(MAX_CLIP, CurrentIndex + 1) /\ CurrentIndex' \in Slots
  <2>1. IndexLoads(t) = {CurrentIndex}
    BY <1>2 DEF IndexLoads
  <2>2. CurrentIndex' = Rem(CurrentIndex + 1, MAX_CLIP)
    BY <2>1 DEF Dequeue_Advance
  <2>3. CurrentIndex + 1 >= 0 /\ CurrentIndex + 1 \in 0 .. 2 * MAX_CLIP - 1
    BY <1>2
  <2>4. CurrentIndex' = SlotAt(MAX_CLIP, CurrentIndex + 1)
    BY <2>2, <2>3 DEF Rem, SlotAt
  <2> QED  BY <1>2, <2>3, <2>4, SlotOnce DEF Slots
<1>4. TypeOK' /\ pc'[t] = "unlock"
  BY <1>1, <1>2, <1>3 DEF TypeOK
<1>5. Knows(t)' /\ Answers(t)' /\ Inside(t)'
  BY <1>1, <1>4 DEF Knows, Answers, Inside, EnqueueLabels
<1>6. LockHeld' /\ \A u \in Threads : Knows(u)' /\ Answers(u)'
  <2>1. Lock' = 1 /\ Lock' \in {0, 1}
    BY <1>1, <1>2 DEF IInv, LockHeld
  <2> QED  BY <1>1, <1>2, <1>5, <2>1, InsideKeeps
<1>7. Removing /\ Removed /\ ~Clearing /\ ~Removing' /\ ~Clearing'
  BY <1>1, <1>2, AloneInside
<1>8. Contents' = Contents
  <2>1. RingContents(Ring, MAX_CLIP, SlotAt(MAX_CLIP, CurrentIndex + 1), Count)
          = RingContents(Ring, MAX_CLIP, CurrentIndex + 1, Count)
    BY <1>2, ContentsWrapped
  <2> QED  BY <1>1, <1>3, <1>7, <2>1, ContentsCases DEF ContentsByCase
<1>9. Asked' = Asked
  <2>1. Request("unlock", item'[t]) = Request("deqAdvance", item[t])
    BY Requested
  <2> QED  BY <1>1, <1>2, <2>1, AskedMoves
<1> QED  BY <1>1, <1>4, <1>6, <1>8, <1>9 DEF IInv, ClipStep
-----------------------------------------------------------------------------
(* The statements of kb_init under the lock (os_kboard.c:93-99): the       *)
(* clipboard stays empty, and is an empty ring at the end.                 *)
LEMMA Init_RingInv ==
  ASSUME IInv, InitAlone', NEW t \in Threads, Init_Ring(t)
  PROVE  IInv' /\ ClipStep
<1> DEFINE to == IF index[t] + 1 < MAX_CLIP THEN "initRing" ELSE "initCount"
<1>1. /\ TypeOK /\ Knows(t) /\ Answers(t) /\ pc[t] = "initRing" /\ pc' = [pc EXCEPT ![t] = to]
      /\ index' = [index EXCEPT ![t] = index[t] + 1]
      /\ UNCHANGED <<Lock, Count, CurrentIndex, item, seen, response>>
  BY DEF IInv, Init_Ring, Moves
<1>2. /\ index[t] \in 0 .. MAX_CLIP - 1 /\ index[t] \in Slots /\ MAX_CLIP \in Nat \ {0}
      /\ Inside(t) /\ to \in Labels
  BY <1>1, ClipAssumption DEF Labels, InitLabels, Knows, TypeOK, Slots, Inside
<1>3. Ring' = [Ring EXCEPT ![index[t]] = INIT_VALUE]
  BY <1>2 DEF Init_Ring, Store
<1>4. TypeOK' /\ pc'[t] = to /\ index'[t] = index[t] + 1
  <2>1. index' \in [Threads -> 0 .. MAX_CLIP] /\ index'[t] = index[t] + 1
    BY <1>1, <1>2 DEF TypeOK
  <2>2. Ring' \in [Slots -> Arguments \cup {0, INIT_VALUE}]
    BY <1>1, <1>3 DEF TypeOK
  <2>3. pc' \in [Threads -> Labels] /\ pc'[t] = to
    BY <1>1, <1>2 DEF TypeOK
  <2> QED  BY <1>1, <2>1, <2>2, <2>3 DEF TypeOK
<1>5. Knows(t)'
  BY <1>2, <1>4 DEF Knows, EnqueueLabels
<1>6. Answers(t)' /\ Inside(t)'
  BY <1>1, <1>4 DEF Answers, Inside
<1>7. LockHeld' /\ \A u \in Threads : Knows(u)' /\ Answers(u)'
  <2>1. Lock' = 1 /\ Lock' \in {0, 1}
    BY <1>1, <1>2 DEF IInv, LockHeld
  <2>2. \A u \in Threads : u # t => index'[u] = index[u]
    BY <1>1 DEF TypeOK
  <2> QED  BY <1>1, <1>2, <1>5, <1>6, <2>1, <2>2, InsideKeeps
<1>8. Clearing /\ ~Removing /\ Clearing' /\ ~Removing'
  BY <1>1, <1>2, AloneInside
<1>9. Contents' = Contents
  BY <1>8, ContentsCases DEF ContentsByCase
<1>10. Asked' = Asked
  <2>1. Request(to, item'[t]) = Request("initRing", item[t])
    BY Requested
  <2> QED  BY <1>1, <1>2, <2>1, AskedMoves
<1> QED  BY <1>1, <1>4, <1>7, <1>9, <1>10 DEF IInv, ClipStep

(* Count = 0 (os_kboard.c:98).                                             *)
LEMMA Init_CountInv ==
  ASSUME IInv, InitAlone', NEW t \in Threads, Init_Count(t)
  PROVE  IInv' /\ ClipStep
<1>1. /\ TypeOK /\ Knows(t) /\ Answers(t) /\ pc[t] = "initCount" /\ pc' = [pc EXCEPT ![t] = "initIndex"]
      /\ Count' = 0 /\ UNCHANGED <<Lock, Ring, CurrentIndex, item, seen, index, response>>
  BY DEF IInv, Init_Count, Moves
<1>2. TypeOK' /\ pc'[t] = "initIndex" /\ Inside(t) /\ "initIndex" \in Labels
  BY <1>1, ClipAssumption DEF TypeOK, Labels, InitLabels, Inside
<1>3. Knows(t)' /\ Answers(t)' /\ Inside(t)'
  BY <1>1, <1>2 DEF Knows, Answers, Inside, EnqueueLabels
<1>4. LockHeld' /\ \A u \in Threads : Knows(u)' /\ Answers(u)'
  <2>1. Lock' = 1 /\ Lock' \in {0, 1}
    BY <1>1, <1>2 DEF IInv, LockHeld
  <2> QED  BY <1>1, <1>2, <1>3, <2>1, InsideKeeps
<1>5. Clearing /\ ~Removing /\ Clearing' /\ ~Removing'
  BY <1>1, <1>2, AloneInside
<1>6. Contents' = Contents
  BY <1>5, ContentsCases DEF ContentsByCase
<1>7. Asked' = Asked
  <2>1. Request("initIndex", item'[t]) = Request("initCount", item[t])
    BY Requested
  <2> QED  BY <1>1, <1>2, <2>1, AskedMoves
<1> QED  BY <1>1, <1>2, <1>4, <1>6, <1>7 DEF IInv, ClipStep

(* CurrentIndex = 0 (os_kboard.c:99).                                      *)
LEMMA Init_IndexInv ==
  ASSUME IInv, InitAlone', NEW t \in Threads, Init_Index(t)
  PROVE  IInv' /\ ClipStep
<1>1. /\ TypeOK /\ Knows(t) /\ Answers(t) /\ pc[t] = "initIndex" /\ pc' = [pc EXCEPT ![t] = "unlock"]
      /\ CurrentIndex' = 0 /\ UNCHANGED <<Lock, Ring, Count, item, seen, index, response>>
  BY DEF IInv, Init_Index, Moves
<1>2. TypeOK' /\ pc'[t] = "unlock" /\ Inside(t) /\ "unlock" \in Labels /\ Count' = 0
  BY <1>1, ClipAssumption DEF TypeOK, Labels, Inside, Slots, Knows
<1>3. Knows(t)' /\ Answers(t)' /\ Inside(t)'
  BY <1>1, <1>2 DEF Knows, Answers, Inside, EnqueueLabels
<1>4. LockHeld' /\ \A u \in Threads : Knows(u)' /\ Answers(u)'
  <2>1. Lock' = 1 /\ Lock' \in {0, 1}
    BY <1>1, <1>2 DEF IInv, LockHeld
  <2> QED  BY <1>1, <1>2, <1>3, <2>1, InsideKeeps
<1>5. Clearing /\ ~Removing /\ ~Clearing' /\ ~Removing'
  BY <1>1, <1>2, AloneInside
<1>6. Contents' = Contents
  <2>1. Contents = << >> /\ Contents' = RingContents(Ring, MAX_CLIP, 0, 0)
    BY <1>1, <1>2, <1>5, ContentsCases DEF ContentsByCase
  <2>2. RingContents(Ring, MAX_CLIP, 0, 0) = << >>
    BY DEF RingContents
  <2> QED  BY <2>1, <2>2
<1>7. Asked' = Asked
  <2>1. Request("unlock", item'[t]) = Request("initIndex", item[t])
    BY Requested
  <2> QED  BY <1>1, <1>2, <2>1, AskedMoves
<1> QED  BY <1>1, <1>2, <1>4, <1>6, <1>7 DEF IInv, ClipStep
-----------------------------------------------------------------------------
(* The cleared globals satisfy the invariant and stand for an empty        *)
(* clipboard.                                                              *)
LEMMA InitInv == Init => IInv /\ Clip!Init
<1> SUFFICES ASSUME Init PROVE IInv /\ Clip!Init
  OBVIOUS
<1>1. TypeOK
  BY ClipAssumption DEF Init, TypeOK, Labels, Slots, NoLoad, Responses
<1>2. \A t \in Threads : /\ pc[t] = "idle" /\ index[t] = 0 /\ response[t] = << >>
                         /\ ~Inside(t) /\ Knows(t) /\ Answers(t)
  BY DEF Init, Inside, Knows, Answers, EnqueueLabels
<1>3. InitAlone /\ LockHeld /\ ~Removing /\ ~Clearing
  BY <1>2 DEF Init, InitAlone, InitLabels, LockHeld, MutualExclusion, Removing, Clearing
<1>4. Contents = << >>
  <2>1. Contents = RingContents(Ring, MAX_CLIP, 0, 0)
    BY <1>3, ContentsCases DEF ContentsByCase, Init
  <2> QED  BY <2>1 DEF RingContents
<1>5. Asked = [t \in Threads |-> << >>]
  BY <1>2, Requested DEF Asked
<1> QED  BY <1>1, <1>2, <1>3, <1>4, <1>5 DEF IInv, Clip!Init, Init

(* Every step of the system calls preserves the invariant and is a step of *)
(* the abstract clipboard, or leaves it as it is.                          *)
LEMMA StepInv == IInv /\ [QuietNext]_vars => IInv' /\ ClipStep
<1> SUFFICES ASSUME IInv, [QuietNext]_vars PROVE IInv' /\ ClipStep
  OBVIOUS
<1>1. CASE UNCHANGED vars
  <2>1. UNCHANGED <<Lock, Ring, Count, CurrentIndex, pc, item, seen, index, response>>
    BY <1>1 DEF vars, globals, locals
  <2>2. Contents' = Contents
    BY <2>1 DEF Contents, Removing, Removed, Clearing
  <2>3. Asked' = Asked
    BY <2>1 DEF Asked
  <2>4. /\ TypeOK' /\ InitAlone' /\ LockHeld'
        /\ \A t \in Threads : Knows(t)' /\ Answers(t)'
    BY <2>1 DEF IInv, TypeOK, InitAlone, LockHeld, MutualExclusion, Inside, Knows, Loaded, Answers
  <2> QED  BY <2>1, <2>2, <2>3, <2>4 DEF IInv, ClipStep
<1>2. CASE QuietNext
  <2>1. PICK t \in Threads : Calls(t) \/ Locking(t) \/ InKernel(t) \/ Return(t)
    BY <1>2 DEF QuietNext, Next, Step
  <2>2. InitAlone'
    BY <1>2 DEF QuietNext
  <2>3. CASE Calls(t) \/ Return(t)
    BY <2>2, <2>3, CallsInv, ReturnInv
  <2>4. CASE Locking(t)
    BY <2>2, <2>4, LockInv, Init_LockInv DEF Locking
  <2>5. CASE InKernel(t)
    BY <2>2, <2>5, Enqueue_TestInv, Enqueue_StoreInv, Enqueue_CountInv, Dequeue_TestInv,
       Dequeue_CopyInv, Dequeue_ClearInv, Dequeue_CountInv, Dequeue_AdvanceInv,
       Init_NewLockInv, Init_RingInv, Init_CountInv, Init_IndexInv, SpinUnlockInv DEF InKernel
  <2> QED  BY <2>1, <2>3, <2>4, <2>5
<1> QED  BY <1>1, <1>2

(* The invariant in every behaviour in which kb_init is alone.             *)
LEMMA Invariant == QuietSpec => []IInv
BY InitInv, StepInv, PTL DEF QuietSpec

(* CurrentIndex stays in the ring and Count in 0..MAX_CLIP at each         *)
(* statement of os_kboard.c.                                               *)
THEOREM TypeCorrect == QuietSpec => []TypeOK
<1>1. IInv => TypeOK
  BY DEF IInv
<1> QED  BY <1>1, Invariant, PTL

(* The spinlock of os_kboard.c keeps its threads apart, however many call, *)
(* as long as kb_init, which makes it new, is alone.                       *)
THEOREM Mutual == QuietSpec => []MutualExclusion
<1>1. IInv => MutualExclusion
  BY DEF IInv, LockHeld
<1> QED  BY <1>1, Invariant, PTL

(* paste (paste.c:21-26) never receives a negative value.                  *)
THEOREM PasteValid == QuietSpec => []PasteNeverInvalid
<1>1. IInv => PasteNeverInvalid
  <2> SUFFICES ASSUME IInv, NEW t \in Threads PROVE PasteReport(t) # "Invalid value received"
    BY DEF PasteNeverInvalid
  <2>1. response[t] \in {<< >>} \cup {<<c>> : c \in {0, -1, -2}} \cup {<<0, v>> : v \in Items}
    BY DEF IInv, Answers
  <2>2. ~(Len(response[t]) = 2 /\ response[t][2] < 0)
    BY <2>1, ClipAssumption DEF Items
  <2> QED  BY <2>2 DEF PasteReport
<1> QED  BY <1>1, Invariant, PTL

(* Count is the number of stored values (os_kboard.c:12) as long as        *)
(* kb_init is alone: what breaks it is the new spinlock of a racing        *)
(* kb_init (os_kboard.c:90), and nothing else.                             *)
THEOREM CountStored == QuietSpec => []CountIsStored
<1>1. ASSUME IInv, \A t \in Threads : pc[t] = "idle"
      PROVE  /\ Count \in 0 .. MAX_CLIP
             /\ \A i \in 0 .. Count - 1 : Ring[(CurrentIndex + i) % MAX_CLIP] # INIT_VALUE
  <2>1. Count \in 0 .. MAX_CLIP /\ Count \in Nat /\ CurrentIndex \in Int /\ Contents \in Seq(Items)
    BY <1>1, ClipAssumption DEF IInv, TypeOK, Slots
  <2>2. ~Removing /\ ~Clearing
    BY <1>1 DEF Removing, Clearing
  <2>3. Contents = RingContents(Ring, MAX_CLIP, CurrentIndex, Count)
    BY <2>2, ContentsCases DEF ContentsByCase
  <2>4. \A i \in 1 .. Count : Ring[SlotAt(MAX_CLIP, CurrentIndex + i - 1)] \in Items
    BY <2>1, <2>3, ContentsSlots
  <2>5. ASSUME NEW i \in 0 .. Count - 1 PROVE Ring[SlotAt(MAX_CLIP, CurrentIndex + i)] # INIT_VALUE
    <3>1. i + 1 \in 1 .. Count /\ CurrentIndex + (i + 1) - 1 = CurrentIndex + i
      BY <2>1
    <3>2. Ring[SlotAt(MAX_CLIP, CurrentIndex + i)] \in Items
      BY <2>4, <3>1
    <3> QED  BY <3>2 DEF Items, INIT_VALUE
  <2> QED  BY <2>1, <2>5 DEF SlotAt
<1>2. IInv => CountIsStored
  BY <1>1 DEF CountIsStored
<1> QED  BY <1>2, Invariant, PTL

(* The system calls implement the bounded FIFO queue ClipQueue.            *)
THEOREM Refinement == QuietSpec => ClipSpec
BY InitInv, StepInv, Invariant, PTL DEF QuietSpec, ClipSpec, Clip!Spec, ClipStep
=============================================================================
