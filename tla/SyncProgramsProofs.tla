------------------------- MODULE SyncProgramsProofs -------------------------
(***************************************************************************)
(* Proofs about copy_sync_test and paste_sync_test on the system calls of  *)
(* lab1, for any size of the ring and any width of int: the test never     *)
(* reports a fault, and between two calls the clipboard holds exactly the  *)
(* numbers that one program has counted and the other has not.             *)
(*                                                                         *)
(* The programs never call kb_init, so their steps are steps of QuietSpec: *)
(* the invariant IInv of OsKboardProofs holds, and what a step does to     *)
(* Contents is known from the proof that the calls implement ClipQueue.    *)
(***************************************************************************)
EXTENDS SyncPrograms, OsKboardProofs

(* The number a program is at, with the one after INT_MAX not wrapped.     *)
NextNumber(n) == IF n >= 0 THEN n ELSE INT_MAX + 1

(* How many numbers went into the clipboard, and how many came out: those  *)
(* a program has counted and the one its running call has decided.         *)
Copied == NextNumber(value) + IF response[Copier] = <<0, value>> THEN 1 ELSE 0
Pasted == NextNumber(expectValue) + IF response[Paster] = <<0, expectValue>> THEN 1 ELSE 0

(* copy_sync_test only makes kb_enqueue calls, with its value.             *)
AtCopier ==
  /\ pc[Copier] \in {"idle", "unlock", "return"} \cup EnqueueLabels
  /\ pc[Copier] # "idle" => item[Copier] = value
  /\ response[Copier] \in {<< >>, <<-1>>, <<-2>>, <<0, value>>}
  /\ pc[Copier] \in {"unlock", "return"} => response[Copier] # << >>

(* paste_sync_test only makes kb_dequeue calls, and a value that is handed *)
(* over is the one it expects.                                             *)
AtPaster ==
  /\ pc[Paster] \in {"idle", "unlock", "return"} \cup DequeueLabels
  /\ response[Paster] \in {<< >>, <<-1>>, <<0, expectValue>>}
  /\ pc[Paster] \in {"deqClear", "deqCount", "deqAdvance", "unlock", "return"} =>
       response[Paster] # << >>

InTransit ==
  /\ Len(Contents) = Copied - Pasted
  /\ \A i \in 1 .. Len(Contents) : Contents[i] = Pasted + i - 1

Locals == value \in Ints /\ expectValue \in Ints /\ ~stopped

PInv == Locals /\ AtCopier /\ AtPaster /\ InTransit
-----------------------------------------------------------------------------
(* The two processes, and the numbers that kb_enqueue accepts.             *)
LEMMA TwoPrograms ==
  /\ Copier \in Threads /\ Paster \in Threads /\ Copier # Paster
  /\ \A t \in Threads : t = Copier \/ t = Paster
  /\ INT_MAX \in Nat /\ Arguments = Ints /\ Items = 0 .. INT_MAX
<1>1. /\ Copier \in Threads /\ Paster \in Threads /\ Copier # Paster
      /\ \A t \in Threads : t = Copier \/ t = Paster
      /\ INT_MAX \in Nat /\ Arguments = Ints
  BY ProgramsAssumption
<1>2. Items = 0 .. INT_MAX
  BY <1>1 DEF Items, Ints
<1> QED  BY <1>1, <1>2

(* An accepted number is counted as it is, its successor as one more, also *)
(* when ++ wraps around (copy_sync_test.c:20, paste_sync_test.c:35).       *)
LEMMA NumberFacts ==
  /\ \A n \in Ints : NextNumber(n) \in 0 .. INT_MAX + 1 /\ Increment(n) \in Ints
  /\ \A n \in Items : NextNumber(n) = n /\ NextNumber(Increment(n)) = n + 1
  /\ \A n \in Ints : NextNumber(n) \in Items => n \in Items /\ NextNumber(n) = n
  BY TwoPrograms DEF NextNumber, Increment, Ints

(* A successful response is none of the others.                            *)
LEMMA CodesDiffer ==
  \A v : <<0, v>> # << >> /\ <<0, v>> # <<-1>> /\ <<0, v>> # <<-2>>
  OBVIOUS

(* A step that decides no successful response leaves the clipboard.        *)
LEMMA SilentStep ==
  ASSUME IInv, ClipStep, NEW t \in Threads, response \in [Threads -> Responses],
         \A u \in Threads : u # t => response'[u] = response[u],
         response'[t] = response[t] \/ response'[t] \in {<< >>, <<-1>>, <<-2>>}
  PROVE  Contents' = Contents
<1>1. CASE UNCHANGED <<Contents, Asked, response>>
  BY <1>1
<1>2. CASE Clip!Next
  <2>1. PICK u \in Threads :
          \/ \E v \in Items : Clip!Enqueue(u, v)
          \/ Clip!Dequeue(u) \/ Clip!Reset(u)
          \/ Contents' = Contents
    BY <1>2 DEF Clip!Next, Clip!Ask, Clip!EnqueueFull, Clip!Refuse, Clip!DequeueEmpty,
                Clip!DequeueFault, Clip!Return, Items
  <2>0. Asked[u] # << >> => response[u] = << >>
    <3>1. pc[u] \in Labels /\ Answers(u) /\ Asked[u] = Request(pc[u], item[u])
      BY DEF IInv, TypeOK, Asked
    <3> QED  BY <3>1, Requested DEF Answers, Labels, EnqueueLabels, DequeueLabels, InitLabels
  <2>2. ASSUME NEW r, response[u] = << >>, response' = [response EXCEPT ![u] = r],
               r # << >>, r # <<-1>>, r # <<-2>>
        PROVE  FALSE
    <3>1. response'[u] = r
      BY <2>2
    <3> QED  BY <2>2, <3>1
  <2>3. ASSUME NEW v \in Items, Clip!Enqueue(u, v) PROVE FALSE
    <3>1. response[u] = << >> /\ response' = [response EXCEPT ![u] = <<0, v>>]
      <4>1. Asked[u] = <<"enqueue", v>> /\ <<"enqueue", v>> # << >>
        BY <2>3 DEF Clip!Enqueue, Clip!Decide
      <4> QED  BY <2>0, <2>3, <4>1 DEF Clip!Enqueue, Clip!Decide
    <3> QED  BY <2>2, <3>1
  <2>4. ASSUME Clip!Dequeue(u) PROVE FALSE
    <3>1. response[u] = << >> /\ response' = [response EXCEPT ![u] = <<0, Head(Contents)>>]
      <4>1. Asked[u] = <<"dequeue">> /\ <<"dequeue">> # << >>
        BY <2>4 DEF Clip!Dequeue, Clip!Decide
      <4> QED  BY <2>0, <2>4, <4>1 DEF Clip!Dequeue, Clip!Decide
    <3> QED  BY <2>2, <3>1, CodesDiffer
  <2>5. ASSUME Clip!Reset(u) PROVE FALSE
    <3>1. response[u] = << >> /\ response' = [response EXCEPT ![u] = <<0>>]
      <4>1. Asked[u] = <<"reset">> /\ <<"reset">> # << >>
        BY <2>5 DEF Clip!Reset, Clip!Decide
      <4> QED  BY <2>0, <2>5, <4>1 DEF Clip!Reset, Clip!Decide
    <3>2. <<0>> # << >> /\ <<0>> # <<-1>> /\ <<0>> # <<-2>>
      OBVIOUS
    <3> QED  BY <2>2, <3>1, <3>2
  <2> QED  BY <2>1, <2>3, <2>4, <2>5
<1> QED  BY <1>1, <1>2 DEF ClipStep
-----------------------------------------------------------------------------
(* In the kernel, copy_sync_test takes the steps of kb_enqueue             *)
(* (os_kboard.c:30-44) and paste_sync_test those of kb_dequeue (53-81).    *)
LEMMA CopierInKernel ==
  ASSUME AtCopier, Kernel(Copier)
  PROVE  /\ \/ Enqueue_Lock(Copier) \/ Enqueue_Test(Copier) \/ Enqueue_Store(Copier)
            \/ Enqueue_Count(Copier) \/ SpinUnlock(Copier)
         /\ UNCHANGED programVars
<1>1. pc[Copier] \notin DequeueLabels \cup InitLabels
  BY DEF AtCopier, EnqueueLabels, DequeueLabels, InitLabels
<1>2. /\ pc[Copier] \notin {"deqLock", "deqTest", "deqCopy", "deqClear", "deqCount", "deqAdvance"}
      /\ pc[Copier] \notin {"initLock", "initTake", "initRing", "initCount", "initIndex"}
  BY <1>1 DEF DequeueLabels, InitLabels
<1> QED
  BY <1>2 DEF Kernel, Locking, InKernel, SpinLock, Moves, Dequeue_Lock, Dequeue_Test,
     Dequeue_Copy, Dequeue_Clear, Dequeue_Count, Dequeue_Advance, Init_NewLock, Init_Lock,
     Init_Ring, Init_Count, Init_Index

LEMMA PasterInKernel ==
  ASSUME AtPaster, Kernel(Paster)
  PROVE  /\ \/ Dequeue_Lock(Paster) \/ Dequeue_Test(Paster) \/ Dequeue_Copy(Paster)
            \/ Dequeue_Clear(Paster) \/ Dequeue_Count(Paster) \/ Dequeue_Advance(Paster)
            \/ SpinUnlock(Paster)
         /\ response'[Paster] # <<-2>>
         /\ UNCHANGED programVars
<1>1. pc[Paster] \notin EnqueueLabels \cup InitLabels
  BY DEF AtPaster, EnqueueLabels, DequeueLabels, InitLabels
<1>2. /\ pc[Paster] \notin {"enqLock", "enqTest", "enqStore", "enqCount"}
      /\ pc[Paster] \notin {"initLock", "initTake", "initRing", "initCount", "initIndex"}
  BY <1>1 DEF EnqueueLabels, InitLabels
<1> QED
  BY <1>2 DEF Kernel, Locking, InKernel, SpinLock, Moves, Enqueue_Lock, Enqueue_Test,
     Enqueue_Store, Enqueue_Count, Init_NewLock, Init_Lock, Init_Ring, Init_Count, Init_Index
-----------------------------------------------------------------------------
(* The programs never call kb_init, so a step of theirs is one of the      *)
(* system calls with kb_init alone: everything proved of those holds.      *)
LEMMA ProgramsQuiet ==
  ASSUME IInv, PInv, ProgramsNext
  PROVE  QuietNext
<1>1. AtCopier /\ AtPaster /\ pc \in [Threads -> Labels]
  BY DEF IInv, TypeOK, PInv
<1>2. \A t \in Threads : pc[t] \notin InitLabels
  BY <1>1, TwoPrograms DEF AtCopier, AtPaster, EnqueueLabels, DequeueLabels, InitLabels
<1>3. Next
  <2>1. CASE Copy_Call
    BY <2>1, TwoPrograms DEF Copy_Call, PInv, Locals, Copy, Calls, Next
  <2>2. CASE Paste_Call
    BY <2>2, TwoPrograms DEF Paste_Call, Paste, Calls, Next
  <2>3. CASE Copy_Return \/ Paste_Retry \/ Paste_Compare
    BY <2>3, TwoPrograms DEF Copy_Return, Paste_Retry, Paste_Compare, Step, Next
  <2>4. CASE Kernel(Copier) \/ Kernel(Paster)
    BY <2>4, TwoPrograms DEF Kernel, Step, Next
  <2> QED  BY <2>1, <2>2, <2>3, <2>4 DEF ProgramsNext, CopierStep, PasterStep
<1>4. \E t \in Threads, to \in Labels \ InitLabels : pc' = [pc EXCEPT ![t] = to]
  <2> DEFINE Goes(t, to) == t \in Threads /\ to \in Labels \ InitLabels /\ pc' = [pc EXCEPT ![t] = to]
  <2> SUFFICES \E t, to : Goes(t, to)
    OBVIOUS
  <2>1. \A to \in {"idle", "unlock", "return", "enqLock", "enqTest", "enqStore", "enqCount",
                   "deqLock", "deqTest", "deqCopy", "deqClear", "deqCount", "deqAdvance"} :
          to \in Labels \ InitLabels
    BY DEF Labels, EnqueueLabels, DequeueLabels, InitLabels
  <2>2. CASE Copy_Call
    BY <2>1, <2>2, TwoPrograms DEF Copy_Call, Enqueue_Call, Moves
  <2>3. CASE Paste_Call
    BY <2>1, <2>3, TwoPrograms DEF Paste_Call, Dequeue_Call, Moves
  <2>4. CASE Copy_Return \/ Paste_Retry \/ Paste_Compare
    BY <2>1, <2>4, TwoPrograms DEF Copy_Return, Paste_Retry, Paste_Compare, Return, Moves
  <2>5. CASE Kernel(Copier)
    <3>1. \/ Enqueue_Lock(Copier) \/ Enqueue_Test(Copier) \/ Enqueue_Store(Copier)
          \/ Enqueue_Count(Copier) \/ SpinUnlock(Copier)
      BY <1>1, <2>5, CopierInKernel
    <3> QED  BY <2>1, <3>1, TwoPrograms DEF Enqueue_Lock, SpinLock, Enqueue_Test,
                AfterRefusal, Enqueue_Store, Enqueue_Count, SpinUnlock, Moves
  <2>6. CASE Kernel(Paster)
    <3>1. \/ Dequeue_Lock(Paster) \/ Dequeue_Test(Paster) \/ Dequeue_Copy(Paster)
          \/ Dequeue_Clear(Paster) \/ Dequeue_Count(Paster) \/ Dequeue_Advance(Paster)
          \/ SpinUnlock(Paster)
      BY <1>1, <2>6, PasterInKernel
    <3> QED  BY <2>1, <3>1, TwoPrograms DEF Dequeue_Lock, SpinLock, Dequeue_Test,
                AfterRefusal, Dequeue_Copy, Dequeue_Clear, Dequeue_Count, Dequeue_Advance,
                SpinUnlock, Moves
  <2> QED  BY <2>2, <2>3, <2>4, <2>5, <2>6 DEF ProgramsNext, CopierStep, PasterStep
<1>5. \A t \in Threads : pc'[t] \notin InitLabels
  BY <1>1, <1>2, <1>4
<1> QED  BY <1>3, <1>5 DEF QuietNext, InitAlone
-----------------------------------------------------------------------------
(* A step of one program that touches neither the other's variables nor    *)
(* the clipboard keeps the invariant, if the count of its program stays.   *)
LEMMA CopierKeeps ==
  ASSUME PInv, AtCopier', Contents' = Contents, Copied' = Copied, value' \in Ints,
         UNCHANGED <<expectValue, stopped>>,
         pc'[Paster] = pc[Paster], response'[Paster] = response[Paster]
  PROVE  PInv'
<1>1. AtPaster' /\ Pasted' = Pasted
  BY DEF PInv, AtPaster, Pasted
<1>2. InTransit'
  BY <1>1 DEF PInv, InTransit
<1> QED  BY <1>1, <1>2 DEF PInv, Locals

LEMMA PasterKeeps ==
  ASSUME PInv, AtPaster', Contents' = Contents, Pasted' = Pasted, expectValue' \in Ints,
         UNCHANGED <<value, stopped>>, pc'[Copier] = pc[Copier],
         item'[Copier] = item[Copier], response'[Copier] = response[Copier]
  PROVE  PInv'
<1>1. AtCopier' /\ Copied' = Copied
  BY DEF PInv, AtCopier, Copied
<1>2. InTransit'
  BY <1>1 DEF PInv, InTransit
<1> QED  BY <1>1, <1>2 DEF PInv, Locals

(* kboard_copy(value) (copy_sync_test.c:14) enters the kernel, or is       *)
(* refused once value has wrapped around.                                  *)
LEMMA CopyCallInv ==
  ASSUME IInv, PInv, ClipStep, Copy_Call
  PROVE  PInv'
<1> DEFINE to == IF value < 0 THEN "return" ELSE "enqLock"
           r == IF value < 0 THEN <<-2>> ELSE << >>
<1>1. /\ pc[Copier] = "idle" /\ pc' = [pc EXCEPT ![Copier] = to]
      /\ response' = [response EXCEPT ![Copier] = r] /\ item' = [item EXCEPT ![Copier] = value]
      /\ UNCHANGED <<value, expectValue, stopped>>
  BY DEF Copy_Call, Enqueue_Call, Moves, Responds, programVars
<1>2. /\ pc \in [Threads -> Labels] /\ response \in [Threads -> Responses]
      /\ item \in [Threads -> Arguments \cup {0}] /\ response[Copier] = << >>
  BY <1>1, TwoPrograms DEF IInv, TypeOK, Answers
<1>3. /\ pc'[Copier] = to /\ response'[Copier] = r /\ item'[Copier] = value
      /\ \A u \in Threads : u # Copier => pc'[u] = pc[u] /\ response'[u] = response[u]
  BY <1>1, <1>2, TwoPrograms
<1>4. r \in {<< >>, <<-1>>, <<-2>>} /\ (to = "return" => r # << >>) /\ to # "unlock"
  OBVIOUS
<1>5. to \in {"idle", "unlock", "return"} \cup EnqueueLabels
  BY DEF EnqueueLabels
<1> HIDE DEF to, r
<1>6. AtCopier'
  BY <1>1, <1>3, <1>4, <1>5 DEF AtCopier
<1>7. Contents' = Contents
  BY <1>2, <1>3, <1>4, TwoPrograms, SilentStep
<1>8. Copied' = Copied
  <2>1. response[Copier] # <<0, value>> /\ response'[Copier] # <<0, value'>>
    BY <1>2, <1>3, <1>4, CodesDiffer
  <2> QED  BY <1>1, <2>1 DEF Copied
<1>9. value' \in Ints
  BY <1>1 DEF PInv, Locals
<1> QED  BY <1>1, <1>3, <1>6, <1>7, <1>8, <1>9, TwoPrograms, CopierKeeps

(* kboard_copy() returns: value++ when the kernel said 0                   *)
(* (copy_sync_test.c:14-20), and the number is no longer in the response   *)
(* but in value.                                                           *)
LEMMA CopyReturnInv ==
  ASSUME IInv, PInv, ClipStep, Copy_Return
  PROVE  PInv'
<1>1. /\ pc[Copier] = "return" /\ pc' = [pc EXCEPT ![Copier] = "idle"]
      /\ response' = [response EXCEPT ![Copier] = << >>]
      /\ value' = IF response[Copier][1] = 0 THEN Increment(value) ELSE value
      /\ UNCHANGED <<expectValue, stopped>>
  BY DEF Copy_Return, Return, Moves, Responds, Succeeded
<1>2. /\ pc \in [Threads -> Labels] /\ response \in [Threads -> Responses] /\ value \in Ints
      /\ response[Copier] \in {<<-1>>, <<-2>>, <<0, value>>} /\ Answers(Copier)
  BY <1>1, TwoPrograms DEF IInv, TypeOK, PInv, Locals, AtCopier
<1>3. /\ pc'[Copier] = "idle" /\ response'[Copier] = << >>
      /\ \A u \in Threads : u # Copier => pc'[u] = pc[u] /\ response'[u] = response[u]
  BY <1>1, <1>2, TwoPrograms
<1>4. AtCopier'
  BY <1>3 DEF AtCopier
<1>5. Contents' = Contents
  BY <1>2, <1>3, TwoPrograms, SilentStep
<1>6. Copied' = NextNumber(value')
  <2>1. NextNumber(value') \in Int
    BY <1>1, <1>2, NumberFacts, TwoPrograms
  <2> QED  BY <1>3, <2>1 DEF Copied
<1>7. Copied' = Copied /\ value' \in Ints
  <2>1. CASE response[Copier] = <<0, value>>
    <3>1. value \in Items
      BY <1>2, <2>1 DEF Answers
    <3> QED  BY <1>1, <1>2, <1>6, <2>1, <3>1, NumberFacts DEF Copied
  <2>2. CASE response[Copier] # <<0, value>>
    <3>1. value' = value
      BY <1>1, <1>2, <2>2
    <3>2. NextNumber(value) \in Int
      BY <1>2, NumberFacts, TwoPrograms
    <3> QED  BY <1>2, <1>6, <2>2, <3>1, <3>2 DEF Copied
  <2> QED  BY <2>1, <2>2
<1> QED  BY <1>1, <1>3, <1>4, <1>5, <1>7, TwoPrograms, CopierKeeps

(* The statements of kb_enqueue: a number enters the clipboard when it is  *)
(* counted (os_kboard.c:41), and it is the next one.                       *)
LEMMA CopierKernelInv ==
  ASSUME IInv, PInv, IInv', ClipStep, Kernel(Copier)
  PROVE  PInv'
<1>1. UNCHANGED <<value, expectValue, stopped>> /\ value' \in Ints
  BY DEF Kernel, programVars, PInv, Locals
<1>2. /\ pc \in [Threads -> Labels] /\ response \in [Threads -> Responses]
      /\ AtCopier /\ Answers(Copier) /\ Knows(Copier)
  BY TwoPrograms DEF IInv, TypeOK, PInv
<1>3. CASE Enqueue_Lock(Copier) \/ Enqueue_Store(Copier) \/ SpinUnlock(Copier)
  <2>1. PICK to \in {"enqTest", "enqCount", "return"} :
          /\ pc' = [pc EXCEPT ![Copier] = to]
          /\ to = "return" => pc[Copier] = "unlock"
          /\ pc[Copier] # "idle" /\ UNCHANGED <<item, response>>
    BY <1>3 DEF Enqueue_Lock, SpinLock, Enqueue_Store, SpinUnlock, Moves
  <2>2. pc'[Copier] = to /\ pc'[Paster] = pc[Paster]
    BY <1>2, <2>1, TwoPrograms
  <2>3. AtCopier'
    BY <1>1, <1>2, <2>1, <2>2 DEF AtCopier, EnqueueLabels
  <2>4. Contents' = Contents
    BY <1>2, <2>1, TwoPrograms, SilentStep
  <2>5. Copied' = Copied
    BY <1>1, <2>1 DEF Copied
  <2> QED  BY <1>1, <2>1, <2>2, <2>3, <2>4, <2>5, CopierKeeps
<1>4. CASE Enqueue_Test(Copier)
  <2>1. PICK r \in {<< >>, <<-1>>} :
          /\ pc[Copier] = "enqTest" /\ item' = item
          /\ pc' = [pc EXCEPT ![Copier] = IF r = << >> THEN "enqStore" ELSE "unlock"]
          /\ response' = [response EXCEPT ![Copier] = r]
    <3>1. << >> # <<-1>>
      OBVIOUS
    <3> QED  BY <1>4, <3>1 DEF Enqueue_Test, Moves, Responds, AfterRefusal
  <2>2. /\ pc'[Copier] = (IF r = << >> THEN "enqStore" ELSE "unlock") /\ response'[Copier] = r
        /\ \A u \in Threads : u # Copier => pc'[u] = pc[u] /\ response'[u] = response[u]
    BY <1>2, <2>1, TwoPrograms
  <2>3. response[Copier] # <<0, value>> /\ response'[Copier] # <<0, value'>>
    BY <1>2, <2>1, <2>2, CodesDiffer DEF Answers
  <2>4. AtCopier'
    BY <1>1, <1>2, <2>1, <2>2 DEF AtCopier, EnqueueLabels
  <2>5. Contents' = Contents
    BY <1>2, <2>2, TwoPrograms, SilentStep
  <2>6. Copied' = Copied
    BY <1>1, <2>3 DEF Copied
  <2> QED  BY <1>1, <2>2, <2>4, <2>5, <2>6, TwoPrograms, CopierKeeps
<1>5. CASE Enqueue_Count(Copier)
  <2>1. /\ pc[Copier] = "enqCount" /\ pc' = [pc EXCEPT ![Copier] = "unlock"]
        /\ response' = [response EXCEPT ![Copier] = <<0, item[Copier]>>] /\ item' = item
    BY <1>5 DEF Enqueue_Count, Moves, Responds
  <2>2. item[Copier] = value /\ value \in Items /\ response[Copier] = << >>
    BY <1>2, <2>1 DEF AtCopier, Knows, Answers, EnqueueLabels
  <2>3. /\ pc'[Copier] = "unlock" /\ response'[Copier] = <<0, value>>
        /\ pc'[Paster] = pc[Paster] /\ response'[Paster] = response[Paster]
    BY <1>2, <2>1, <2>2, TwoPrograms
  <2>4. Contents' = Append(Contents, value)
    <3>1. InitAlone'
      BY DEF IInv
    <3> QED  BY <1>5, <2>2, <3>1, TwoPrograms, Enqueue_CountInv
  <2>5. AtCopier' /\ AtPaster' /\ Pasted' = Pasted
    <3>1. AtCopier'
      BY <1>1, <2>1, <2>2, <2>3, CodesDiffer DEF AtCopier
    <3> QED  BY <1>1, <2>3, <3>1 DEF PInv, AtPaster, Pasted
  <2>6. Copied = value /\ Copied' = value + 1 /\ Pasted \in Int /\ value \in Int
    <3>1. NextNumber(value) = value /\ value \in Int
      BY <2>2, NumberFacts, TwoPrograms
    <3>2. response[Copier] # <<0, value>>
      BY <2>2
    <3>3. NextNumber(expectValue) \in Int
      BY NumberFacts, TwoPrograms DEF PInv, Locals
    <3> QED  BY <1>1, <2>3, <3>1, <3>2, <3>3 DEF Copied, Pasted
  <2>7. InTransit'
    <3>1. /\ Contents \in Seq(Items) /\ Len(Contents) \in Nat /\ Len(Contents) = value - Pasted
          /\ \A i \in 1 .. Len(Contents) : Contents[i] = Pasted + i - 1
      BY <2>6 DEF IInv, PInv, InTransit
    <3>2. /\ Len(Contents') = Len(Contents) + 1
          /\ \A i \in 1 .. Len(Contents) : Contents'[i] = Contents[i]
          /\ Contents'[Len(Contents) + 1] = value
      BY <2>2, <2>4, <3>1
    <3>3. \A i \in 1 .. Len(Contents') : i \in 1 .. Len(Contents) \/ i = Len(Contents) + 1
      BY <3>1, <3>2
    <3>4. \A i \in 1 .. Len(Contents') : Contents'[i] = Pasted + i - 1
      BY <2>6, <3>1, <3>2, <3>3
    <3> QED  BY <2>5, <2>6, <3>1, <3>2, <3>4 DEF InTransit
  <2> QED  BY <1>1, <2>5, <2>7 DEF PInv, Locals
<1> QED  BY <1>2, <1>3, <1>4, <1>5, CopierInKernel
-----------------------------------------------------------------------------
(* kboard_paste(&clipBoardValue) (paste_sync_test.c:22) enters the kernel. *)
LEMMA PasteCallInv ==
  ASSUME IInv, PInv, ClipStep, Paste_Call
  PROVE  PInv'
<1>1. /\ pc' = [pc EXCEPT ![Paster] = "deqLock"]
      /\ UNCHANGED <<item, response, value, expectValue, stopped>>
  BY DEF Paste_Call, Dequeue_Call, Moves, programVars
<1>2. /\ pc \in [Threads -> Labels] /\ response \in [Threads -> Responses]
      /\ AtPaster /\ expectValue' \in Ints
  BY <1>1 DEF IInv, TypeOK, PInv, Locals
<1>3. pc'[Paster] = "deqLock" /\ pc'[Copier] = pc[Copier]
  BY <1>1, <1>2, TwoPrograms
<1>4. AtPaster' /\ Pasted' = Pasted
  BY <1>1, <1>2, <1>3 DEF AtPaster, DequeueLabels, Pasted
<1>5. Contents' = Contents
  BY <1>1, <1>2, TwoPrograms, SilentStep
<1> QED  BY <1>1, <1>2, <1>3, <1>4, <1>5, PasterKeeps

(* kboard_paste() returns (paste_sync_test.c:22-35): -1 and the program    *)
(* tries again, or 0 and the value is the one it expects.                  *)
LEMMA PasteReturnInv ==
  ASSUME IInv, PInv, ClipStep, Paste_Retry \/ Paste_Compare
  PROVE  PInv'
<1>1. /\ pc[Paster] = "return" /\ pc' = [pc EXCEPT ![Paster] = "idle"]
      /\ response' = [response EXCEPT ![Paster] = << >>] /\ item' = [item EXCEPT ![Paster] = 0]
      /\ UNCHANGED value
  BY DEF Paste_Retry, Paste_Compare, Return, Moves, Responds, programVars
<1>2. /\ pc \in [Threads -> Labels] /\ response \in [Threads -> Responses]
      /\ item \in [Threads -> Arguments \cup {0}] /\ expectValue \in Ints
      /\ response[Paster] \in {<<-1>>, <<0, expectValue>>} /\ Answers(Paster)
  BY <1>1, TwoPrograms DEF IInv, TypeOK, PInv, Locals, AtPaster
<1>3. /\ pc'[Paster] = "idle" /\ response'[Paster] = << >> /\ item'[Copier] = item[Copier]
      /\ \A u \in Threads : u # Paster => pc'[u] = pc[u] /\ response'[u] = response[u]
  BY <1>1, <1>2, TwoPrograms
<1>4. AtPaster'
  BY <1>3 DEF AtPaster
<1>5. Contents' = Contents
  BY <1>2, <1>3, TwoPrograms, SilentStep
<1>6. /\ UNCHANGED stopped
      /\ expectValue' = IF response[Paster] = <<0, expectValue>> THEN Increment(expectValue)
                                                                 ELSE expectValue
  <2>1. CASE response[Paster] = <<-1>>
    BY <2>1, CodesDiffer DEF Paste_Retry, Paste_Compare, Succeeded, programVars
  <2>2. CASE response[Paster] = <<0, expectValue>>
    BY <2>2 DEF Paste_Retry, Paste_Compare, Succeeded
  <2> QED  BY <1>2, <2>1, <2>2
<1>7. expectValue' \in Ints /\ Pasted' = NextNumber(expectValue')
  <2>1. expectValue' \in Ints /\ NextNumber(expectValue') \in Int
    BY <1>2, <1>6, NumberFacts, TwoPrograms
  <2> QED  BY <1>3, <2>1, CodesDiffer DEF Pasted
<1>8. Pasted' = Pasted
  <2>1. CASE response[Paster] = <<0, expectValue>>
    <3>1. expectValue \in Items
      BY <1>2, <2>1 DEF Answers
    <3> QED  BY <1>6, <1>7, <2>1, <3>1, NumberFacts DEF Pasted
  <2>2. CASE response[Paster] # <<0, expectValue>>
    <3>1. NextNumber(expectValue) \in Int
      BY <1>2, NumberFacts, TwoPrograms
    <3> QED  BY <1>6, <1>7, <2>2, <3>1 DEF Pasted
  <2> QED  BY <2>1, <2>2
<1> QED  BY <1>1, <1>3, <1>4, <1>5, <1>6, <1>7, <1>8, TwoPrograms, PasterKeeps

(* The statements of kb_dequeue: a number leaves the clipboard when it is  *)
(* handed over (os_kboard.c:65), and it is the one that is expected.       *)
LEMMA PasterKernelInv ==
  ASSUME IInv, PInv, IInv', ClipStep, Kernel(Paster)
  PROVE  PInv'
<1>1. /\ UNCHANGED <<value, expectValue, stopped>> /\ expectValue' \in Ints
      /\ response'[Paster] # <<-2>>
  BY DEF Kernel, programVars, PInv, Locals
<1>2. /\ pc \in [Threads -> Labels] /\ response \in [Threads -> Responses]
      /\ AtPaster /\ Answers(Paster)
  BY TwoPrograms DEF IInv, TypeOK, PInv
<1>3. CASE \/ Dequeue_Lock(Paster) \/ Dequeue_Clear(Paster) \/ Dequeue_Count(Paster)
           \/ Dequeue_Advance(Paster) \/ SpinUnlock(Paster)
  <2>1. PICK to \in {"deqTest", "deqCount", "deqAdvance", "unlock", "return"} :
          /\ pc' = [pc EXCEPT ![Paster] = to]
          /\ to # "deqTest" => pc[Paster] \in {"deqClear", "deqCount", "deqAdvance", "unlock"}
          /\ UNCHANGED <<item, response>>
    BY <1>3 DEF Dequeue_Lock, SpinLock, Dequeue_Clear, Dequeue_Count, Dequeue_Advance,
                SpinUnlock, Moves
  <2>2. pc'[Paster] = to /\ pc'[Copier] = pc[Copier]
    BY <1>2, <2>1, TwoPrograms
  <2>3. AtPaster'
    BY <1>1, <1>2, <2>1, <2>2 DEF AtPaster, DequeueLabels
  <2>4. Contents' = Contents
    BY <1>2, <2>1, TwoPrograms, SilentStep
  <2>5. Pasted' = Pasted
    BY <1>1, <2>1 DEF Pasted
  <2> QED  BY <1>1, <2>1, <2>2, <2>3, <2>4, <2>5, PasterKeeps
<1>4. CASE Dequeue_Test(Paster)
  <2>1. PICK r \in {<< >>, <<-1>>} :
          /\ pc[Paster] = "deqTest" /\ item' = item
          /\ pc' = [pc EXCEPT ![Paster] = IF r = << >> THEN "deqCopy" ELSE "unlock"]
          /\ response' = [response EXCEPT ![Paster] = r]
    <3>1. << >> # <<-1>>
      OBVIOUS
    <3> QED  BY <1>4, <3>1 DEF Dequeue_Test, Moves, Responds, AfterRefusal
  <2>2. /\ pc'[Paster] = (IF r = << >> THEN "deqCopy" ELSE "unlock") /\ response'[Paster] = r
        /\ \A u \in Threads : u # Paster => pc'[u] = pc[u] /\ response'[u] = response[u]
    BY <1>2, <2>1, TwoPrograms
  <2>3. response[Paster] # <<0, expectValue>> /\ response'[Paster] # <<0, expectValue'>>
    BY <1>2, <2>1, <2>2, CodesDiffer DEF Answers
  <2>4. AtPaster'
    BY <1>1, <1>2, <2>1, <2>2 DEF AtPaster, DequeueLabels
  <2>5. Contents' = Contents
    BY <1>2, <2>2, TwoPrograms, SilentStep
  <2>6. Pasted' = Pasted
    BY <1>1, <2>3 DEF Pasted
  <2> QED  BY <1>1, <2>1, <2>2, <2>4, <2>5, <2>6, TwoPrograms, PasterKeeps
<1>5. CASE Dequeue_Copy(Paster)
  <2>1. /\ pc[Paster] = "deqCopy" /\ item' = item
        /\ \E to \in {"deqClear", "unlock"} : pc' = [pc EXCEPT ![Paster] = to]
        /\ \E r : response' = [response EXCEPT ![Paster] = r]
    BY <1>5 DEF Dequeue_Copy, Moves, Responds, AfterRefusal
  <2>2. /\ pc'[Paster] \in {"deqClear", "unlock"} /\ response[Paster] = << >>
        /\ pc'[Copier] = pc[Copier] /\ response'[Copier] = response[Copier]
    BY <1>2, <2>1, TwoPrograms DEF Answers
  <2>3. /\ Contents # << >> /\ response'[Paster] = <<0, Head(Contents)>>
        /\ Contents' = Tail(Contents)
    <3>1. InitAlone'
      BY DEF IInv
    <3> QED  BY <1>1, <1>5, <3>1, TwoPrograms, Dequeue_CopyInv
  <2>4. /\ Contents \in Seq(Items) /\ Len(Contents) \in Nat \ {0}
        /\ Head(Contents) = Contents[1] /\ Head(Contents) \in Items
        /\ Len(Tail(Contents)) = Len(Contents) - 1
        /\ \A i \in 1 .. Len(Contents) - 1 : Tail(Contents)[i] = Contents[i + 1]
    BY <2>3 DEF IInv
  <2>5. Pasted = NextNumber(expectValue)
    <3>1. NextNumber(expectValue) \in Int
      BY NumberFacts, TwoPrograms DEF PInv, Locals
    <3> QED  BY <2>2, <3>1, CodesDiffer DEF Pasted
  <2>6. Head(Contents) = expectValue /\ expectValue \in Items /\ Pasted = expectValue
    <3>1. Contents[1] = Pasted + 1 - 1
      BY <2>4 DEF PInv, InTransit
    <3>2. NextNumber(expectValue) \in Items /\ NextNumber(expectValue) = Head(Contents)
      BY <2>4, <2>5, <3>1, NumberFacts, TwoPrograms DEF PInv, Locals
    <3> QED  BY <2>5, <3>2, NumberFacts DEF PInv, Locals
  <2>7. Pasted' = Pasted + 1 /\ Pasted \in Int
    BY <1>1, <2>3, <2>5, <2>6, TwoPrograms DEF Pasted
  <2>8. AtPaster' /\ AtCopier' /\ Copied' = Copied
    <3>1. AtPaster'
      BY <1>1, <2>2, <2>3, <2>6, CodesDiffer DEF AtPaster, DequeueLabels
    <3> QED  BY <1>1, <2>1, <2>2, <3>1 DEF PInv, AtCopier, Copied
  <2>9. InTransit'
    <3>1. Copied \in Int
      <4>1. NextNumber(value) \in Int
        BY NumberFacts, TwoPrograms DEF PInv, Locals
      <4> QED  BY <4>1 DEF Copied
    <3>2. /\ Len(Contents) = Copied - Pasted
          /\ \A i \in 1 .. Len(Contents) : Contents[i] = Pasted + i - 1
      BY DEF PInv, InTransit
    <3>3. \A i \in 1 .. Len(Contents) - 1 : Contents'[i] = Pasted' + i - 1
      BY <2>3, <2>4, <2>7, <3>2
    <3>4. Len(Contents') = Copied' - Pasted' /\ Len(Contents') = Len(Contents) - 1
      BY <2>3, <2>4, <2>7, <2>8, <3>1, <3>2
    <3> QED  BY <3>3, <3>4 DEF InTransit
  <2> QED  BY <1>1, <2>8, <2>9 DEF PInv, Locals
<1> QED  BY <1>2, <1>3, <1>4, <1>5, PasterInKernel
-----------------------------------------------------------------------------
(* Both programs at their first call, the clipboard empty.                 *)
LEMMA ProgramsStart == ProgramsInit => IInv /\ PInv
<1> SUFFICES ASSUME ProgramsInit PROVE IInv /\ PInv
  OBVIOUS
<1>1. IInv /\ Contents = << >> /\ \A t \in Threads : response[t] = << >> /\ pc[t] = "idle"
  BY InitInv DEF ProgramsInit, Init, Clip!Init
<1>2. Locals /\ AtCopier /\ AtPaster
  BY <1>1, TwoPrograms DEF ProgramsInit, Locals, AtCopier, AtPaster, Ints
<1>3. Copied = 0 /\ Pasted = 0
  BY <1>1, TwoPrograms, CodesDiffer DEF ProgramsInit, Copied, Pasted, NextNumber
<1>4. InTransit
  BY <1>1, <1>3 DEF InTransit
<1> QED  BY <1>1, <1>2, <1>4 DEF PInv

(* Each step of a program keeps both invariants.                           *)
LEMMA ProgramsStep == IInv /\ PInv /\ [ProgramsNext]_allVars => IInv' /\ PInv' /\ [QuietNext]_vars
<1> SUFFICES ASSUME IInv, PInv, [ProgramsNext]_allVars
             PROVE  IInv' /\ PInv' /\ [QuietNext]_vars
  OBVIOUS
<1>1. [QuietNext]_vars
  BY ProgramsQuiet DEF allVars
<1>2. IInv' /\ ClipStep
  BY <1>1, StepInv
<1>3. CASE UNCHANGED allVars
  <2>1. /\ UNCHANGED <<Lock, Ring, Count, CurrentIndex, pc, item, seen, index, response>>
        /\ UNCHANGED <<value, expectValue, stopped>>
    BY <1>3 DEF allVars, vars, globals, locals, programVars
  <2>2. Contents' = Contents
    BY <2>1 DEF Contents, Removing, Removed, Clearing
  <2>3. Locals' /\ AtCopier' /\ AtPaster' /\ Copied' = Copied /\ Pasted' = Pasted
    BY <2>1 DEF PInv, Locals, AtCopier, AtPaster, Copied, Pasted
  <2> QED  BY <1>1, <1>2, <2>2, <2>3 DEF PInv, InTransit
<1>4. CASE ProgramsNext
  <2>1. PInv'
    BY <1>2, <1>4, CopyCallInv, CopyReturnInv, CopierKernelInv, PasteCallInv, PasteReturnInv,
       PasterKernelInv DEF ProgramsNext, CopierStep, PasterStep
  <2> QED  BY <1>1, <1>2, <2>1
<1> QED  BY <1>3, <1>4

(* The invariant of the two programs.                                      *)
LEMMA ProgramsInvariant == ProgramsSpec => [](IInv /\ PInv)
<1>1. IInv /\ PInv /\ [ProgramsNext]_allVars => (IInv /\ PInv)'
  BY ProgramsStep
<1> QED  BY <1>1, ProgramsStart, PTL DEF ProgramsSpec

(* The test programs use the system calls as QuietSpec allows, so that     *)
(* what is proved of os_kboard.c holds under them.                         *)
THEOREM TestUsesCalls == ProgramsSpec => QuietSpec
<1>1. ProgramsInit => Init
  BY DEF ProgramsInit
<1> QED  BY <1>1, ProgramsStep, ProgramsInvariant, PTL DEF ProgramsSpec, QuietSpec

(* paste_sync_test never reports "Validation fault"                        *)
(* (paste_sync_test.c:27-32), however often the two programs interrupt     *)
(* each other and for any size of the ring and of int.                     *)
THEOREM TestNeverFails == ProgramsSpec => []NoValidationFault
<1>1. IInv /\ PInv => NoValidationFault
  BY DEF PInv, Locals, NoValidationFault
<1> QED  BY <1>1, ProgramsInvariant, PTL

(* Between two calls the ring holds the numbers from expectValue up to     *)
(* value, in order (copy_sync_test.c:14-20, paste_sync_test.c:22-35).      *)
THEOREM NumbersKept == ProgramsSpec => []NumbersInTransit
<1>1. ASSUME IInv, PInv, \A t \in Threads : pc[t] = "idle"
      PROVE  /\ NextNumber(value) - NextNumber(expectValue) = Count
             /\ \A i \in 1 .. Count : Contents[i] = NextNumber(expectValue) + i - 1
  <2>1. response[Copier] = << >> /\ response[Paster] = << >>
    BY <1>1, TwoPrograms DEF IInv, Answers
  <2>2. NextNumber(value) \in Int /\ NextNumber(expectValue) \in Int
    BY <1>1, NumberFacts, TwoPrograms DEF PInv, Locals
  <2>3. Copied = NextNumber(value) /\ Pasted = NextNumber(expectValue)
    BY <2>1, <2>2, CodesDiffer DEF Copied, Pasted
  <2>4. Contents = RingContents(Ring, MAX_CLIP, CurrentIndex, Count)
    <3>1. ~Removing /\ ~Clearing
      BY <1>1 DEF Removing, Clearing
    <3> QED  BY <3>1, ContentsCases DEF ContentsByCase
  <2>5. Len(Contents) = Count
    <3>1. Contents \in Seq(Items) /\ Count \in Nat
      BY <1>1, ClipAssumption DEF IInv, TypeOK
    <3> QED  BY <2>4, <3>1, ContentsSlots
  <2> QED  BY <1>1, <2>3, <2>5 DEF PInv, InTransit
<1>2. IInv /\ PInv => NumbersInTransit
  BY <1>1 DEF NumbersInTransit, NextNumber
<1> QED  BY <1>2, ProgramsInvariant, PTL
=============================================================================
