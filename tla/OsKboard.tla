------------------------------ MODULE OsKboard ------------------------------
(***************************************************************************)
(* The clipboard of lab1: the system calls kb_enqueue, kb_dequeue and      *)
(* kb_init of lab1/kernel/os_kboard.c on one ring buffer under one         *)
(* spinlock, called by any number of threads.  One action per statement    *)
(* that reads or writes shared state.                                      *)
(*                                                                         *)
(* Two threads can be inside at once only after kb_init, which makes the   *)
(* spinlock new before it takes it (line 90).  The accesses then race, and *)
(* a statement may use the value of a global its thread loaded earlier, or *)
(* the present one: Loads.                                                 *)
(***************************************************************************)
EXTENDS Integers, Sequences, FiniteSets

CONSTANTS Threads,    \* the calling threads
          Arguments,  \* the values passed to kb_enqueue, negative ones too
          MAX_CLIP    \* the size of the ring (5 in the code)

ASSUME ClipAssumption == MAX_CLIP \in Nat \ {0} /\ Arguments \subseteq Int

VARIABLES Lock,          \* 1 while the spinlock is taken
          Ring, Count, CurrentIndex,
          pc,            \* the control point of each thread
          item,          \* the argument of a thread's kb_enqueue
          seen,          \* Count and CurrentIndex as a thread loaded them
          index,         \* the loop variable of kb_init
          response       \* return code and value of a call, once decided

globals == <<Lock, Ring, Count, CurrentIndex>>
locals == <<pc, item, seen, index, response>>
vars == <<globals, locals>>

INIT_VALUE == -1
Slots == 0 .. MAX_CLIP - 1
NoLoad == [count |-> 0, current |-> 0]

EnqueueLabels == {"enqLock", "enqTest", "enqStore", "enqCount"}
DequeueLabels == {"deqLock", "deqTest", "deqCopy", "deqClear", "deqCount", "deqAdvance"}
InitLabels == {"initLock", "initTake", "initRing", "initCount", "initIndex"}
Labels == {"idle", "unlock", "return"} \cup EnqueueLabels \cup DequeueLabels \cup InitLabels

(* The globals before the first system call: C clears them. *)
Init ==
  /\ Lock = 0
  /\ Ring = [i \in Slots |-> 0]
  /\ Count = 0
  /\ CurrentIndex = 0
  /\ pc = [t \in Threads |-> "idle"]
  /\ item = [t \in Threads |-> 0]
  /\ seen = [t \in Threads |-> NoLoad]
  /\ index = [t \in Threads |-> 0]
  /\ response = [t \in Threads |-> << >>]

Moves(t, from, to) == pc[t] = from /\ pc' = [pc EXCEPT ![t] = to]
Responds(t, r) == response' = [response EXCEPT ![t] = r]

(* The % of C rounds towards zero. *)
Rem(a, n) == IF a >= 0 THEN a % n ELSE -((-a) % n)

(* A store to Ring[i]; outside the array it reaches no modelled variable. *)
Store(i, v) == Ring' = IF i \in Slots THEN [Ring EXCEPT ![i] = v] ELSE Ring

(* What a statement of thread t may use for Count and for CurrentIndex. *)
CountLoads(t) == {seen[t].count, Count}
IndexLoads(t) == {seen[t].current, CurrentIndex}
Load(t) == seen' = [seen EXCEPT ![t] = [count |-> Count, current |-> CurrentIndex]]

(* spin_lock and spin_unlock, and the return to the caller. *)
SpinLock_Free(t, from, to) ==
  /\ Moves(t, from, to)
  /\ Lock' = 1
  /\ UNCHANGED <<Ring, Count, CurrentIndex, item, seen, index>>

SpinLock(t, from, to) ==
  /\ Lock = 0
  /\ Moves(t, from, to)
  /\ Lock' = 1
  /\ UNCHANGED <<Ring, Count, CurrentIndex, item, seen, index>>

SpinUnlock(t) ==
  /\ Moves(t, "unlock", "return")
  /\ Lock' = 0
  /\ UNCHANGED <<Ring, Count, CurrentIndex, item, seen, index, response>>

Return(t) ==
  /\ Moves(t, "return", "idle")
  /\ Responds(t, << >>)
  /\ item' = [item EXCEPT ![t] = 0]
  /\ seen' = [seen EXCEPT ![t] = NoLoad]
  /\ index' = [index EXCEPT ![t] = 0]
  /\ UNCHANGED globals
-----------------------------------------------------------------------------
(* do_sys_kb_enqueue *)
Enqueue_Call(t, v) ==
  /\ Moves(t, "idle", IF v < 0 THEN "return" ELSE "enqLock")
  /\ Responds(t, IF v < 0 THEN <<-2>> ELSE << >>)
  /\ item' = [item EXCEPT ![t] = v]
  /\ UNCHANGED <<globals, seen, index>>

Enqueue_Lock(t) == SpinLock(t, "enqLock", "enqTest") /\ UNCHANGED response

IsFull_OneMore(count) == count > MAX_CLIP
IsFull_WhenEmpty(count) == count <= 0

IsFull(count) == count >= MAX_CLIP

(* Where a refused call goes on: it gives the lock back. *)
AfterRefusal_NoUnlock == "return"

AfterRefusal == "unlock"

Enqueue_Test(t) ==
  /\ Moves(t, "enqTest", IF IsFull(Count) THEN AfterRefusal ELSE "enqStore")
  /\ Responds(t, IF IsFull(Count) THEN <<-1>> ELSE << >>)
  /\ Load(t)
  /\ UNCHANGED <<globals, item, index>>

FreeSlot(count, current) == Rem(current + count, MAX_CLIP)

Enqueue_Store(t) ==
  /\ Moves(t, "enqStore", "enqCount")
  /\ \E count \in CountLoads(t), current \in IndexLoads(t) :
       Store(FreeSlot(count, current), item[t])
  /\ UNCHANGED <<Lock, Count, CurrentIndex, item, seen, index, response>>

Enqueue_Count(t) ==
  /\ Moves(t, "enqCount", "unlock")
  /\ \E count \in CountLoads(t) : Count' = count + 1
  /\ Responds(t, <<0, item[t]>>)
  /\ UNCHANGED <<Lock, Ring, CurrentIndex, item, seen, index>>
-----------------------------------------------------------------------------
(* do_sys_kb_dequeue *)
Dequeue_Call(t) == Moves(t, "idle", "deqLock") /\ UNCHANGED <<globals, item, seen, index, response>>

Dequeue_Lock(t) == SpinLock(t, "deqLock", "deqTest") /\ UNCHANGED response

IsEmpty_Below(count) == count < 0

IsEmpty(count) == count <= 0

Dequeue_Test(t) ==
  /\ Moves(t, "deqTest", IF IsEmpty(Count) THEN AfterRefusal ELSE "deqCopy")
  /\ Responds(t, IF IsEmpty(Count) THEN <<-1>> ELSE << >>)
  /\ UNCHANGED <<globals, item, seen, index>>

(* copy_to_user() succeeds and hands the value over, or fails and nothing  *)
(* is removed.  It is a call, so the globals are loaded again after it.    *)
Dequeue_Copy(t) ==
  /\ \/ Moves(t, "deqCopy", "deqClear") /\ Responds(t, <<0, Ring[CurrentIndex]>>)
     \/ Moves(t, "deqCopy", AfterRefusal) /\ Responds(t, <<-2>>)
  /\ Load(t)
  /\ UNCHANGED <<globals, item, index>>

Dequeue_Clear(t) ==
  /\ Moves(t, "deqClear", "deqCount")
  /\ \E current \in IndexLoads(t) : Store(current, INIT_VALUE)
  /\ UNCHANGED <<Lock, Count, CurrentIndex, item, seen, index, response>>

Dequeue_Count(t) ==
  /\ Moves(t, "deqCount", "deqAdvance")
  /\ \E count \in CountLoads(t) : Count' = count - 1
  /\ UNCHANGED <<Lock, Ring, CurrentIndex, item, seen, index, response>>

Dequeue_Advance(t) ==
  /\ Moves(t, "deqAdvance", "unlock")
  /\ \E current \in IndexLoads(t) : CurrentIndex' = Rem(current + 1, MAX_CLIP)
  /\ UNCHANGED <<Lock, Ring, Count, item, seen, index, response>>
-----------------------------------------------------------------------------
(* do_sys_kb_init *)
Init_Call(t) == Moves(t, "idle", "initLock") /\ UNCHANGED <<globals, item, seen, index, response>>

Init_NewLock(t) ==
  /\ Moves(t, "initLock", "initTake")
  /\ Lock' = 0
  /\ UNCHANGED <<Ring, Count, CurrentIndex, item, seen, index, response>>

Init_Lock(t) == SpinLock(t, "initTake", "initRing") /\ Responds(t, <<0>>)

Init_Ring(t) ==
  /\ Moves(t, "initRing", IF index[t] + 1 < MAX_CLIP THEN "initRing" ELSE "initCount")
  /\ Store(index[t], INIT_VALUE)
  /\ index' = [index EXCEPT ![t] = @ + 1]
  /\ UNCHANGED <<Lock, Count, CurrentIndex, item, seen, response>>

Init_Count(t) ==
  /\ Moves(t, "initCount", "initIndex")
  /\ Count' = 0
  /\ UNCHANGED <<Lock, Ring, CurrentIndex, item, seen, index, response>>

Init_Index(t) ==
  /\ Moves(t, "initIndex", "unlock")
  /\ CurrentIndex' = 0
  /\ UNCHANGED <<Lock, Ring, Count, item, seen, index, response>>
-----------------------------------------------------------------------------
(* The programs copy, paste and init and the library call the kernel.      *)
(* copy passes on any int that atoi() finds in its argument; without one   *)
(* it makes no call.                                                       *)
Copy(t) == \E v \in Arguments : Enqueue_Call(t, v)
Paste(t) == Dequeue_Call(t)
Initialize(t) == Init_Call(t)
Calls(t) == Copy(t) \/ Paste(t) \/ Initialize(t)

(* What paste makes of a response. *)
PasteReport(t) ==
  CASE response[t] = << >> \/ response[t][1] # 0 -> "KBoard is empty"
    [] Len(response[t]) = 2 /\ response[t][2] < 0 -> "Invalid value received"
    [] OTHER -> "Paste success"

Locking(t) == Enqueue_Lock(t) \/ Dequeue_Lock(t) \/ Init_Lock(t)

InKernel(t) ==
  \/ Enqueue_Test(t) \/ Enqueue_Store(t) \/ Enqueue_Count(t)
  \/ Dequeue_Test(t) \/ Dequeue_Copy(t) \/ Dequeue_Clear(t)
  \/ Dequeue_Count(t) \/ Dequeue_Advance(t)
  \/ Init_NewLock(t) \/ Init_Ring(t) \/ Init_Count(t) \/ Init_Index(t)
  \/ SpinUnlock(t)

Step(t) == InKernel(t) \/ Return(t)

Next == \E t \in Threads : Calls(t) \/ Locking(t) \/ Step(t)

Spec == Init /\ [][Next]_vars

(* Nobody else is in a system call while a thread is in kb_init: the       *)
(* clipboard is set up by running lab1/user/init.c on its own.             *)
InitAlone ==
  \A t, u \in Threads : pc[t] \in InitLabels /\ u # t => pc[u] = "idle"

QuietNext == Next /\ InitAlone'

QuietSpec == Init /\ [][QuietNext]_vars

(* A thread in a system call keeps running, and the queued spinlock of the *)
(* kernel serves its waiters in order.                                     *)
FairQuietSpec ==
  /\ QuietSpec
  /\ \A t \in Threads : WF_vars(Step(t) /\ InitAlone') /\ SF_vars(Locking(t) /\ InitAlone')
-----------------------------------------------------------------------------
Inside(t) ==
  pc[t] \in {"enqTest", "enqStore", "enqCount", "deqTest", "deqCopy", "deqClear",
             "deqCount", "deqAdvance", "initRing", "initCount", "initIndex", "unlock"}

Responses == {<< >>} \cup {<<c>> : c \in {0, -1, -2}} \cup {<<0, v>> : v \in Arguments \cup {0}}

(* The types of the globals and of the locals: with kb_init alone, Count   *)
(* stays in 0..MAX_CLIP and CurrentIndex inside the array.                 *)
TypeOK ==
  /\ Lock \in {0, 1}
  /\ Ring \in [Slots -> Arguments \cup {0, INIT_VALUE}]
  /\ Count \in 0 .. MAX_CLIP
  /\ CurrentIndex \in Slots
  /\ pc \in [Threads -> Labels]
  /\ item \in [Threads -> Arguments \cup {0}]
  /\ seen \in [Threads -> [count : 0 .. MAX_CLIP, current : Slots]]
  /\ index \in [Threads -> 0 .. MAX_CLIP]
  /\ response \in [Threads -> Responses]

(* The spinlock does its work: no two threads are between spin_lock and    *)
(* spin_unlock.                                                            *)
MutualExclusion == \A t, u \in Threads : Inside(t) /\ Inside(u) => t = u

(* No caller is handed the content of a slot that holds no value, the case *)
(* paste.c:21-26 tests for: not even where a dequeue follows a reset, or   *)
(* the dequeue of another thread that found the last item.                 *)
PasteNeverInvalid == \A t \in Threads : PasteReport(t) # "Invalid value received"

(* The clipboard as its callers see it.  A dequeue counts as done once the *)
(* value is handed over, a reset once kb_init has the lock.                *)
Removing == \E t \in Threads : pc[t] \in {"deqClear", "deqCount", "deqAdvance"}
Removed == \E t \in Threads : pc[t] = "deqAdvance"
Clearing == \E t \in Threads : pc[t] \in {"initRing", "initCount", "initIndex"}

Contents ==
  LET first == IF Removing THEN CurrentIndex + 1 ELSE CurrentIndex
      length == CASE Clearing -> 0
                  [] Removing /\ ~Removed -> Count - 1
                  [] OTHER -> Count
  IN  [i \in 1 .. length |-> Ring[(first + i - 1) % MAX_CLIP]]

(* What a call in progress is about, until its response is decided.        *)
Request(label, v) ==
  CASE label \in EnqueueLabels -> <<"enqueue", v>>
    [] label \in {"deqLock", "deqTest", "deqCopy"} -> <<"dequeue">>
    [] label \in {"initLock", "initTake"} -> <<"reset">>
    [] OTHER -> << >>

Asked == [t \in Threads |-> Request(pc[t], item[t])]

(* The system calls implement the bounded FIFO queue: an item comes out    *)
(* once, in the order it went in; an enqueue returns -1 exactly when the   *)
(* clipboard is full, a dequeue exactly when it is empty; and an enqueue   *)
(* stores the item it was called with.                                     *)
Clip == INSTANCE ClipQueue WITH
          queue <- Contents, asked <- Asked, Items <- {v \in Arguments : v >= 0},
          Capacity <- MAX_CLIP, OK <- 0, FULL <- -1, EMPTY <- -1,
          REFUSED <- {-2}, FAULT <- -2
ClipSpec == Clip!Spec

(* Every system call returns: each path through a call that takes the      *)
(* spinlock gives it back, the early returns at 31-37, 56-62 and 65-71 too. *)
CallsReturn == \A t \in Threads : pc[t] # "idle" ~> pc[t] = "idle"

(* Count is the number of stored values (the comment at os_kboard.c:12):   *)
(* when no call is running, the Count slots from CurrentIndex on are in    *)
(* the ring and hold stored values, not INIT_VALUE.                        *)
CountIsStored ==
  (\A t \in Threads : pc[t] = "idle") =>
    /\ Count \in 0 .. MAX_CLIP
    /\ \A i \in 0 .. Count - 1 : Ring[(CurrentIndex + i) % MAX_CLIP] # INIT_VALUE
=============================================================================
