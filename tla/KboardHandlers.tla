--------------------------- MODULE KboardHandlers ---------------------------
(***************************************************************************)
(* The proc file handlers of lab2/KboardModule.c and the state they share: *)
(* the ring buffer and the two run counters.  One action per statement     *)
(* that reads or writes shared state.  The critical section around them is *)
(* not here: KboardModule1 conjoins the calls of Enter and Leave with      *)
(* those of a SYNC_SOLUTION, and lets Body(t) happen only between them.    *)
(***************************************************************************)
EXTENDS Integers, Sequences, FiniteSets

CONSTANTS Readers,     \* threads reading /proc/kboard/reader
          Writers,     \* threads reading or writing /proc/kboard/writer
          Observers,   \* threads reading /proc/kboard/count and /proc/kboard/dump
          Inputs,      \* what writers write, see InputRecords
          StackNumbers,   \* numbers the unset bytes of the stack may add up to
          RING_BUFFER_SIZE,   \* 5 in the code
          INT_MAX             \* bound: the largest int, 2^31 - 1 in the code

WRITER_BUFFER_SIZE == 20
RING_BUFFER_INIT_VALUE == -1
EPERM == 1
E2BIG == 7
EFAULT == 14
EINVAL == 22

(* A write(): its length, whether copy_from_user() reaches the data, the   *)
(* number its text says (a sequence of none or one), and whether the text  *)
(* ends that number, as the newline of echo does.                          *)
InputRecords ==
  [length : Nat, readable : BOOLEAN, text : Seq(Int), ended : BOOLEAN]
NoInput == [length |-> 0, readable |-> FALSE, text |-> << >>, ended |-> FALSE]

ASSUME KboardAssumption ==
  /\ RING_BUFFER_SIZE \in Nat \ {0}
  /\ INT_MAX \in Nat
  /\ \A in \in Inputs : in \in InputRecords /\ Len(in.text) <= 1
  /\ StackNumbers \subseteq Int

VARIABLES RingBuffer, RingBufferCount, RingBufferCurrentIndex,
          PerformWriter, PerformReader,
          op,          \* which handler a thread is in, "none" outside
          at,          \* the next statement of its body, "none" outside it
          input,       \* the arguments of its write()
          item,        \* its local of that name
          loaded,      \* the run counter as it loaded it for ++
          randomIndex, \* the slot a reader looks at
          response,    \* its return code and value, once decided
          dump,        \* the file an observer reads and the values printed so far
          ran          \* history: how often the bodies really ran

ringVars == <<RingBuffer, RingBufferCount, RingBufferCurrentIndex>>
performVars == <<PerformWriter, PerformReader, ran>>
localVars == <<op, at, input, item, loaded, randomIndex, response>>
callVars == <<op, input, randomIndex, dump>>   \* unchanged within a body
kboardVars == <<ringVars, performVars, localVars, dump>>

Users == Readers \cup Writers
Slots == 0 .. RING_BUFFER_SIZE - 1
NoDump == [file |-> "none", values |-> << >>]

(* int arithmetic: the kernel is built so that ++ wraps around. *)
Increment(n) == IF n = INT_MAX THEN -INT_MAX - 1 ELSE n + 1

(* InitializeKboard, before any thread can open a proc file. *)
InitializeKboard ==
  /\ RingBuffer = [i \in Slots |-> RING_BUFFER_INIT_VALUE]
  /\ RingBufferCount = 0
  /\ RingBufferCurrentIndex = 0
  /\ PerformWriter = 0
  /\ PerformReader = 0
  /\ op = [t \in Users |-> "none"]
  /\ at = [t \in Users |-> "none"]
  /\ input = [t \in Users |-> NoInput]
  /\ item = [t \in Users |-> RING_BUFFER_INIT_VALUE]
  /\ loaded = [t \in Users |-> 0]
  /\ randomIndex = [r \in Readers |-> 0]
  /\ response = [t \in Users |-> << >>]
  /\ dump = [o \in Observers |-> NoDump]
  /\ ran = [writer |-> 0, reader |-> 0]

Goes(t, from, to) == at[t] = from /\ at' = [at EXCEPT ![t] = to]
Responds(t, r) == response' = [response EXCEPT ![t] = r]
-----------------------------------------------------------------------------
(* The handlers up to their call of Enter.                                 *)
Begins(t, handler, in, v) ==
  /\ op[t] = "none"
  /\ op' = [op EXCEPT ![t] = handler]
  /\ input' = [input EXCEPT ![t] = in]
  /\ item' = [item EXCEPT ![t] = v]
  /\ UNCHANGED <<ringVars, performVars, loaded, dump>>

KboardWriter_Show_Call(w) ==
  /\ Begins(w, "show", NoInput, RING_BUFFER_INIT_VALUE)
  /\ Goes(w, "none", "load")
  /\ UNCHANGED <<randomIndex, response>>

(* What sscanf() may find: buffer is not terminated, so where the text     *)
(* does not end its number the bytes left on the stack belong to it too.   *)
Scans(in) ==
  IF in.ended THEN {in.text} ELSE {in.text} \cup {<<n>> : n \in StackNumbers}

(* What the checks before Enter return of a write that scans so, or 0.     *)
InputError(in, scanned) ==
  CASE in.length > WRITER_BUFFER_SIZE -> -E2BIG
    [] in.length <= WRITER_BUFFER_SIZE /\ ~in.readable -> -EFAULT
    [] in.length <= WRITER_BUFFER_SIZE /\ in.readable ->
         IF scanned = << >> \/ scanned[1] < 0 THEN -EINVAL ELSE 0

KboardWriter_Write_Call(w, in) ==
  \E scanned \in Scans(in) :
    /\ InputError(in, scanned) = 0
    /\ Begins(w, "write", in, scanned[1])
    /\ Goes(w, "none", "load")
    /\ UNCHANGED <<randomIndex, response>>

KboardWriter_Write_Refuse(w, in) ==
  \E scanned \in Scans(in) :
    /\ InputError(in, scanned) # 0
    /\ Begins(w, "write", in, RING_BUFFER_INIT_VALUE)
    /\ Responds(w, <<InputError(in, scanned)>>)
    /\ UNCHANGED <<at, randomIndex>>

KboardReader_Show_Call(r) ==
  /\ Begins(r, "read", NoInput, RING_BUFFER_INIT_VALUE)
  /\ Goes(r, "none", "load")
  /\ \E i \in Slots : randomIndex' = [randomIndex EXCEPT ![r] = i]
  /\ UNCHANGED response
-----------------------------------------------------------------------------
(* PerformWriter++ and PerformReader++, a load and a store.                *)
Perform_Load(t) ==
  /\ Goes(t, "load", "perform")
  /\ loaded' = [loaded EXCEPT ![t] = IF t \in Writers THEN PerformWriter ELSE PerformReader]
  /\ UNCHANGED <<ringVars, performVars, item, response, callVars>>

PerformWriter_Store(w) ==
  /\ w \in Writers
  /\ Goes(w, "perform", IF op[w] = "write" THEN "testFull" ELSE "testEmpty")
  /\ PerformWriter' = Increment(loaded[w])
  /\ ran' = [ran EXCEPT !.writer = Increment(@)]
  /\ loaded' = [loaded EXCEPT ![w] = 0]
  /\ UNCHANGED <<ringVars, PerformReader, item, response, callVars>>

PerformReader_Store(r) ==
  /\ r \in Readers
  /\ Goes(r, "perform", "read")
  /\ PerformReader' = Increment(loaded[r])
  /\ ran' = [ran EXCEPT !.reader = Increment(@)]
  /\ loaded' = [loaded EXCEPT ![r] = 0]
  /\ UNCHANGED <<ringVars, PerformWriter, item, response, callVars>>
-----------------------------------------------------------------------------
(* The test of the ring in either body, and its early return.              *)
AfterRefusal_NoLeave == "none"

AfterRefusal == "leave"

Tests(w, from, refuses, to) ==
  /\ Goes(w, from, IF refuses THEN AfterRefusal ELSE to)
  /\ Responds(w, IF refuses THEN <<-EPERM>> ELSE << >>)
  /\ UNCHANGED <<ringVars, performVars, item, loaded, callVars>>

(* The body of KboardWriter_Write: enqueue.                                *)
IsFull_OneMore == RingBufferCount > RING_BUFFER_SIZE
IsFull_WhenEmpty == RingBufferCount <= 0

IsFull == RingBufferCount >= RING_BUFFER_SIZE

Write_Test(w) == Tests(w, "testFull", IsFull, "store")

FreeSlot == (RingBufferCurrentIndex + RingBufferCount) % RING_BUFFER_SIZE

Write_Store(w) ==
  /\ Goes(w, "store", "count")
  /\ RingBuffer' = [RingBuffer EXCEPT ![FreeSlot] = item[w]]
  /\ UNCHANGED <<RingBufferCount, RingBufferCurrentIndex, performVars, item, loaded, response, callVars>>

Write_Count(w) ==
  /\ Goes(w, "count", "leave")
  /\ RingBufferCount' = RingBufferCount + 1
  /\ Responds(w, <<0, item[w]>>)
  /\ UNCHANGED <<RingBuffer, RingBufferCurrentIndex, performVars, item, loaded, callVars>>

(* The body of KboardWriter_Show: dequeue.                                 *)
Show_Test(w) == Tests(w, "testEmpty", RingBufferCount <= 0, "take")

Show_Take(w) ==
  /\ Goes(w, "take", "clear")
  /\ item' = [item EXCEPT ![w] = RingBuffer[RingBufferCurrentIndex]]
  /\ Responds(w, <<0, RingBuffer[RingBufferCurrentIndex]>>)
  /\ UNCHANGED <<ringVars, performVars, loaded, callVars>>

Show_Clear_Skipped(w) ==
  /\ Goes(w, "clear", "uncount")
  /\ UNCHANGED <<ringVars, performVars, item, loaded, response, callVars>>

Show_Clear(w) ==
  /\ Goes(w, "clear", "uncount")
  /\ RingBuffer' = [RingBuffer EXCEPT ![RingBufferCurrentIndex] = RING_BUFFER_INIT_VALUE]
  /\ UNCHANGED <<RingBufferCount, RingBufferCurrentIndex, performVars, item, loaded, response, callVars>>

Show_Count(w) ==
  /\ Goes(w, "uncount", "advance")
  /\ RingBufferCount' = RingBufferCount - 1
  /\ UNCHANGED <<RingBuffer, RingBufferCurrentIndex, performVars, item, loaded, response, callVars>>

Show_Advance(w) ==
  /\ Goes(w, "advance", "leave")
  /\ RingBufferCurrentIndex' = (RingBufferCurrentIndex + 1) % RING_BUFFER_SIZE
  /\ UNCHANGED <<RingBuffer, RingBufferCount, performVars, item, loaded, response, callVars>>

(* The body of KboardReader_Show. *)
Reader_Read(r) ==
  /\ Goes(r, "read", "leave")
  /\ item' = [item EXCEPT ![r] = RingBuffer[randomIndex[r]]]
  /\ UNCHANGED <<ringVars, performVars, loaded, response, callVars>>

(* Everything a thread does between Enter and Leave. *)
Body(t) ==
  \/ Perform_Load(t) \/ PerformWriter_Store(t) \/ PerformReader_Store(t)
  \/ Write_Test(t) \/ Write_Store(t) \/ Write_Count(t)
  \/ Show_Test(t) \/ Show_Take(t) \/ Show_Clear(t) \/ Show_Count(t) \/ Show_Advance(t)
  \/ Reader_Read(t)

(* The call of Leave, and the return from the handler. *)
Leaves(t) ==
  /\ Goes(t, "leave", "none")
  /\ UNCHANGED <<ringVars, performVars, item, loaded, response, callVars>>

Returns(t) ==
  /\ op[t] # "none" /\ at[t] = "none"
  /\ op' = [op EXCEPT ![t] = "none"]
  /\ input' = [input EXCEPT ![t] = NoInput]
  /\ item' = [item EXCEPT ![t] = RING_BUFFER_INIT_VALUE]
  /\ randomIndex' = [r \in Readers |-> IF r = t THEN 0 ELSE randomIndex[r]]
  /\ Responds(t, << >>)
  /\ UNCHANGED <<ringVars, performVars, at, loaded, dump>>
-----------------------------------------------------------------------------
(* KboardCounter_Show and KboardDumper_Show take no lock: what they print  *)
(* is read value by value, with other threads running in between.          *)
Report(file) ==
  IF file = "count"
    THEN <<RingBufferCount>>
    ELSE [i \in 1 .. RING_BUFFER_SIZE |-> RingBuffer[i - 1]]
           \o <<RingBufferCount, RingBufferCurrentIndex, PerformWriter, PerformReader>>

Prints(o, file, values) ==
  /\ dump' = [dump EXCEPT ![o] = [file |-> file, values |-> values]]
  /\ UNCHANGED <<ringVars, performVars, localVars>>

KboardCounter_Show(o) == dump[o] = NoDump /\ Prints(o, "count", Report("count"))

KboardDumper_Show(o) == dump[o] = NoDump /\ Prints(o, "dump", << >>)

Complete(o) == dump[o] # NoDump /\ Len(dump[o].values) = Len(Report(dump[o].file))

Dumper_Print(o) ==
  LET values == dump[o].values
  IN  /\ dump[o].file = "dump" /\ ~Complete(o)
      /\ Prints(o, "dump", Append(values, Report("dump")[Len(values) + 1]))

Observer_Close(o) == Complete(o) /\ Prints(o, "none", << >>)

Observe(o) ==
  KboardCounter_Show(o) \/ KboardDumper_Show(o) \/ Dumper_Print(o) \/ Observer_Close(o)
-----------------------------------------------------------------------------
(* The queue as writers see it.  A dequeue counts as done once the item is *)
(* taken out of its slot.                                                  *)
Removing == \E w \in Writers : at[w] \in {"clear", "uncount", "advance"}
Removed == \E w \in Writers : at[w] = "advance"

Contents ==
  LET first == IF Removing THEN RingBufferCurrentIndex + 1 ELSE RingBufferCurrentIndex
      length == IF Removing /\ ~Removed THEN RingBufferCount - 1 ELSE RingBufferCount
  IN  [i \in 1 .. length |-> RingBuffer[(first + i - 1) % RING_BUFFER_SIZE]]

Occupied == {(RingBufferCurrentIndex + i) % RING_BUFFER_SIZE : i \in 0 .. RingBufferCount - 1}
=============================================================================
