---------------------------- MODULE SyncPrograms ----------------------------
(***************************************************************************)
(* The test programs of lab1, copy_sync_test and paste_sync_test, each in  *)
(* an endless loop of system calls on OsKboard.  One copies 0, 1, 2, ...   *)
(* and goes on to the next number when a copy has succeeded; the other     *)
(* pastes and stops when a value is not the one it expects.                *)
(***************************************************************************)
EXTENDS OsKboard

CONSTANTS Copier, Paster,   \* the process of each program
          INT_MAX           \* bound: the largest int, 2^31 - 1 in the code

Ints == -INT_MAX - 1 .. INT_MAX

ASSUME ProgramsAssumption ==
  /\ Copier # Paster /\ Threads = {Copier, Paster}
  /\ INT_MAX \in Nat /\ Arguments = Ints

VARIABLES value,         \* local of copy_sync_test
          expectValue,   \* local of paste_sync_test
          stopped        \* paste_sync_test has left its loop

programVars == <<value, expectValue, stopped>>
allVars == <<vars, programVars>>

(* int arithmetic as the processor does it. *)
Increment(n) == IF n = INT_MAX THEN -INT_MAX - 1 ELSE n + 1

ProgramsInit == Init /\ value = 0 /\ expectValue = 0 /\ stopped = FALSE

(* The library turns an error code of the kernel into -1 and errno, so the *)
(* programs can only tell success from failure.                            *)
Succeeded(t) == response[t][1] = 0
-----------------------------------------------------------------------------
(* copy_sync_test *)
Copy_Call == Enqueue_Call(Copier, value) /\ UNCHANGED programVars

Copy_Return_Always ==
  /\ Return(Copier)
  /\ value' = Increment(value)
  /\ UNCHANGED <<expectValue, stopped>>

Copy_Return ==
  /\ Return(Copier)
  /\ value' = IF Succeeded(Copier) THEN Increment(value) ELSE value
  /\ UNCHANGED <<expectValue, stopped>>
-----------------------------------------------------------------------------
(* paste_sync_test; iteration is only printed. *)
Paste_Call == ~stopped /\ Dequeue_Call(Paster) /\ UNCHANGED programVars

Paste_Retry == Return(Paster) /\ ~Succeeded(Paster) /\ UNCHANGED programVars

Paste_Compare ==
  /\ Return(Paster) /\ Succeeded(Paster)
  /\ IF response[Paster][2] = expectValue
       THEN expectValue' = Increment(expectValue) /\ UNCHANGED stopped
       ELSE stopped' = TRUE /\ UNCHANGED expectValue
  /\ UNCHANGED value
-----------------------------------------------------------------------------
(* In the kernel; &clipBoardValue is a good address, so copy_to_user()     *)
(* never fails.                                                            *)
Kernel(t) ==
  /\ Locking(t) \/ InKernel(t)
  /\ response'[Paster] # <<-2>>
  /\ UNCHANGED programVars

CopierStep == Copy_Call \/ Copy_Return \/ Kernel(Copier)
PasterStep == Paste_Call \/ Paste_Retry \/ Paste_Compare \/ Kernel(Paster)

ProgramsNext == CopierStep \/ PasterStep

(* Both processes are run, and the queued spinlock of the kernel serves    *)
(* its waiters in order.                                                   *)
ProgramsSpec ==
  /\ ProgramsInit /\ [][ProgramsNext]_allVars
  /\ SF_allVars(CopierStep) /\ SF_allVars(PasterStep)
-----------------------------------------------------------------------------
(* The test never finds a fault: whatever the interleaving, each value     *)
(* that comes out is the next one (the comparison at                       *)
(* paste_sync_test.c:27-32).                                               *)
NoValidationFault == ~stopped

(* What is in the clipboard are the numbers between the two programs': no  *)
(* copy is counted by one program and lost, or doubled, for the other.     *)
NumbersInTransit ==
  (\A t \in Threads : pc[t] = "idle") =>
    LET next == IF value >= 0 THEN value ELSE INT_MAX + 1
        last == IF expectValue >= 0 THEN expectValue ELSE INT_MAX + 1
    IN  /\ next - last = Count
        /\ \A i \in 1 .. Count : Contents[i] = last + i - 1

(* The test goes all the way: every int from 0 to the largest is copied    *)
(* and pasted.  (The next one is negative and refused for ever.)           *)
AllNumbersPass == <>(expectValue < 0)
=============================================================================
