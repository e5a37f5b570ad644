------------------------------ MODULE SyncTest ------------------------------
(***************************************************************************)
(* lab2/SyncTest.c as a user of the proc files of KboardProc, beside other *)
(* users and while the module is loaded and removed.  main starts its      *)
(* threads, joins them, sleeps and returns.  Each thread forks one shell   *)
(* after the other, and a shell opens one proc file, makes one call on it  *)
(* and closes it, or does not find it.  A shell outlives the test.         *)
(*                                                                         *)
(* main creates, and joins, the enqueuing writers first, then the          *)
(* dequeuing ones and then the readers: the three loops are one here, over *)
(* the threads in that order.                                              *)
(***************************************************************************)
EXTENDS KboardProc

CONSTANTS WriterNumber, ReaderNumber,   \* the first two arguments
          Others                        \* users of the files that are not of the test

ThreadNumber == WriterNumber + ReaderNumber
Threads == 1 .. ThreadNumber
TestUsers == Threads \cup Others

ASSUME TestAssumption ==
  /\ WriterNumber \in Nat /\ ReaderNumber \in Nat
  /\ Others \cap Threads = {} /\ Users = TestUsers

VARIABLES main,      \* where main is; "exited" or "killed" once the test is gone
          index,     \* its loop variable, from 1
          slot,      \* the three arrays of thread ids
          created,   \* the threads that were started
          shells     \* the threads whose shell has not ended

testVars == <<main, index, slot, created, shells>>
allVars == <<vars, testVars>>

(* What a pthread_t can hold here: a thread's id, which is an address, or  *)
(* a result of pthread_create().                                           *)
EAGAIN == 11
ThreadId(i) == 1000 + i

TestInit ==
  /\ Init
  /\ main = "start" /\ index = 1
  /\ slot = [i \in Threads |-> 0]
  /\ created = {} /\ shells = {}

Ended == main \in {"exited", "killed"}
-----------------------------------------------------------------------------
(* Too few arguments, or the arrays are allocated. *)
Main_Start ==
  /\ main = "start"
  /\ main' \in {"exited", "create"}
  /\ UNCHANGED <<index, slot, created, shells>>

(* malloc() is not checked: the first store into an array there was no     *)
(* memory for ends the process.                                            *)
FirstOfArray == {1, (WriterNumber \div 2) + 1, WriterNumber + 1}

Main_NoArray ==
  /\ main = "create" /\ index <= ThreadNumber /\ index \in FirstOfArray
  /\ main' = "killed"
  /\ UNCHANGED <<index, slot, created, shells>>

(* pthread_create() puts the id of the new thread into the slot, and then  *)
(* its result is assigned to the same slot.                                *)
Stored_Id(i, result) == IF result = 0 THEN ThreadId(i) ELSE result

Stored(i, result) == result

Main_Create ==
  /\ main = "create" /\ index <= ThreadNumber
  /\ \E result \in {0, EAGAIN} :
       /\ slot' = [slot EXCEPT ![index] = Stored(index, result)]
       /\ created' = IF result = 0 THEN created \cup {index} ELSE created
  /\ index' = index + 1
  /\ UNCHANGED <<main, shells>>

(* pthread_join() waits for a thread that has an id, and the threads never *)
(* end.  A result is no id, 0 neither: undefined.  An implementation that  *)
(* checks returns an error; one that takes it for an address, as glibc     *)
(* does, ends the process.                                                 *)
Main_Join ==
  /\ main = "join" /\ index <= ThreadNumber
  /\ slot[index] \notin {ThreadId(i) : i \in Threads}
  /\ main' \in {"join", "killed"}
  /\ index' = index + 1
  /\ UNCHANGED <<slot, created, shells>>

Main_LoopEnds ==
  /\ main \in {"create", "join"} /\ index > ThreadNumber
  /\ main' = IF main = "create" THEN "join" ELSE "sleep"
  /\ index' = 1
  /\ UNCHANGED <<slot, created, shells>>

(* usleep() is over; main frees the arrays and returns, which ends all     *)
(* threads.                                                                *)
Main_Return ==
  /\ main = "sleep"
  /\ main' = "exited"
  /\ UNCHANGED <<index, slot, created, shells>>

MainStep ==
  /\ KernelRuns
  /\ \/ Main_Start \/ Main_NoArray \/ Main_Create
     \/ Main_Join \/ Main_LoopEnds \/ Main_Return
  /\ UNCHANGED vars
-----------------------------------------------------------------------------
(* WriterEnqueue, WriterDequeue and Reader: endless loops of system().     *)
Thread_Fork(i) ==
  /\ KernelRuns /\ ~Ended
  /\ i \in created \ shells
  /\ shells' = shells \cup {i}
  /\ UNCHANGED <<main, index, slot, created, vars>>

FileOf(i) == IF i <= WriterNumber THEN "writer" ELSE "reader"

Shell_Ends(i) ==
  /\ i \in shells /\ shells' = shells \ {i}
  /\ UNCHANGED <<main, index, slot, created>>

(* The shell opens its file, or there is none, and calls the handler,      *)
(* which returns, or the file was shut in between.                         *)
Shell_Open(i) == i \in shells /\ File_Open(i, FileOf(i)) /\ UNCHANGED testVars
Shell_Call(i) == i \in shells /\ Handler_Call(i) /\ UNCHANGED testVars
Shell_Return(i) == Handler_Return(i, TRUE) /\ Shell_Ends(i)
Shell_Refused(i) == file[i] = "dead" /\ File_Close(i) /\ Shell_Ends(i)
Shell_NoFile(i) ==
  /\ KernelRuns /\ file[i] = "none" /\ ~PathTo(FileOf(i))
  /\ Shell_Ends(i) /\ UNCHANGED vars

ShellStep(i) == Shell_Open(i) \/ Shell_Call(i) \/ Shell_Refused(i) \/ Shell_NoFile(i)
-----------------------------------------------------------------------------
TestNext ==
  \/ MainStep
  \/ \E i \in Threads : Thread_Fork(i) \/ ShellStep(i) \/ Shell_Return(i)
  \/ /\ \/ Insmod \/ Rmmod \/ ModuleStep
        \/ (\E u \in Others : UserStep(u)) \/ (\E u \in Users : Lost_Stops(u))
     /\ UNCHANGED testVars

(* A handler of the module that is there returns.                          *)
Return(u) ==
  /\ u \notin lost
  /\ IF u \in Threads THEN Shell_Return(u)
     ELSE (\E closes \in BOOLEAN : Handler_Return(u, closes)) /\ UNCHANGED testVars

(* main and the shells are run, and so is the process in insmod or rmmod.  *)
(* Handlers return, as CallsReturn of KboardModule1 has it: those of the   *)
(* writer file if again and again no reader is in its handler.  Nobody has *)
(* to fork, to call, or to load or remove the module, and what runs in     *)
(* freed memory may never end.                                             *)
TestSpec ==
  /\ TestInit /\ [][TestNext]_allVars
  /\ WF_allVars(MainStep)
  /\ \A i \in Threads : WF_allVars(ShellStep(i))
  /\ WF_allVars(ModuleStep /\ UNCHANGED testVars)
  /\ \A u \in Users : /\ WF_allVars(Return(u) /\ file[u] # "writer")
                      /\ SF_allVars(Return(u) /\ file[u] = "writer" /\ Running("reader") = {})
-----------------------------------------------------------------------------
(* The test comes to an end although its threads never do, since no slot   *)
(* holds the id of a thread when main joins (SyncTest.c:41-70), and with   *)
(* it the shells it leaves behind, whether their file is still there or    *)
(* not: if readers leave the writers a gap again and again, and but for    *)
(* those whose file is of a load that failed.                              *)
TestEnds ==
  []<>(Running("reader") = {}) => <>[]((Ended /\ shells \subseteq lost) \/ ~KernelRuns)
=============================================================================
