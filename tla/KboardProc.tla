----------------------------- MODULE KboardProc -----------------------------
(***************************************************************************)
(* The life of the module of lab2: KboardModuleInit sets up the Kboard and *)
(* the semaphores and then creates /proc/kboard and four files in it, each *)
(* creation of which may fail; KboardModuleExit removes them.  A file can  *)
(* be used from the moment it exists, also while the module still loads.   *)
(* What a handler does is not looked at here, only when it may run.        *)
(*                                                                         *)
(* The proc file system is external.  remove_proc_subtree() takes the      *)
(* directory out of the tree; then it shuts the files below it, one after  *)
(* the other and the newest first, and waits for each until no handler of  *)
(* it runs.  remove_proc_entry() of the directory takes the directory out  *)
(* and does nothing about the files in it: a file that was open stays so,  *)
(* and its handlers are code and data of a module that the kernel frees    *)
(* when the load has failed.  proc_remove() with a pointer to an entry     *)
(* that is gone already reads freed memory: it does nothing more, or the   *)
(* kernel stops.                                                           *)
(***************************************************************************)
EXTENDS Naturals, SequencesExt

CONSTANT Users   \* threads that use the proc files, one file at a time

KBOARD_DIRECTORY == "kboard"

(* The files, in the order InitializeProc creates them. *)
FileOrder == <<"writer", "reader", "count", "dump">>
Files == ToSet(FileOrder)
Entries == Files \cup {KBOARD_DIRECTORY}

VARIABLES module,    \* "absent", "loading", "live", "unloading", "stopped" (the kernel is)
          next,      \* the next call of KboardModuleInit or KboardModuleExit
          ready,     \* which initialisations the module in memory has made
          tree,      \* the entries that are there; a path needs the directory too
          pointers,  \* the entries the KboardProc... variables point to
          file,      \* what a thread has open: a file, "dead" if it was shut, or "none"
          inside,    \* the threads in a handler
          lost       \* the threads with a file of a load that failed

procVars == <<module, next, ready, tree, pointers>>
userVars == <<file, inside, lost>>
vars == <<procVars, userVars>>

Init ==
  /\ module = "absent" /\ next = "none"
  /\ ready = {} /\ tree = {} /\ pointers = {}
  /\ file = [u \in Users |-> "none"] /\ inside = {} /\ lost = {}

(* Nothing happens any more once the kernel has stopped. *)
KernelRuns == module # "stopped"

(* The threads in a handler of file f, of the module that is there. *)
Running(f) == {u \in inside \ lost : file[u] = f}

(* The init or exit function makes one call and goes on to another. *)
Calls(m, from, to) == module = m /\ next = from /\ next' = to
-----------------------------------------------------------------------------
(* A process opens a file, calls its handlers and closes it.  On a file of *)
(* a failed load the handlers are still called, as nothing has shut it.    *)
PathTo(f) == {f, KBOARD_DIRECTORY} \subseteq tree

File_Open(u, f) ==
  /\ KernelRuns /\ file[u] = "none" /\ PathTo(f)
  /\ file' = [file EXCEPT ![u] = f]
  /\ UNCHANGED <<procVars, inside, lost>>

Handler_Call(u) ==
  /\ KernelRuns /\ u \notin inside
  /\ file[u] \in tree \/ u \in lost
  /\ inside' = inside \cup {u}
  /\ UNCHANGED <<procVars, file, lost>>

Handler_Return(u, closes) ==
  /\ KernelRuns /\ u \in inside
  /\ inside' = inside \ {u}
  /\ file' = [file EXCEPT ![u] = IF closes THEN "none"
                                 ELSE IF u \in lost \/ @ \in tree THEN @ ELSE "dead"]
  /\ lost' = IF closes THEN lost \ {u} ELSE lost
  /\ UNCHANGED procVars

File_Close(u) ==
  /\ KernelRuns /\ u \notin inside /\ file[u] # "none"
  /\ file' = [file EXCEPT ![u] = "none"]
  /\ lost' = lost \ {u}
  /\ UNCHANGED <<procVars, inside>>

(* Whatever is done with a file of a failed load happens in memory that is *)
(* freed: undefined, it goes on as above or the kernel stops.              *)
Lost_Stops(u) ==
  /\ KernelRuns /\ u \in lost
  /\ module' = "stopped"
  /\ UNCHANGED <<next, ready, tree, pointers, userVars>>
-----------------------------------------------------------------------------
(* KboardModuleInit.  The static variables are fresh in every load.        *)
FirstCall_ProcFirst == KBOARD_DIRECTORY
FirstCall == "InitializeKboard"

Insmod ==
  /\ module = "absent"
  /\ module' = "loading" /\ next' = FirstCall
  /\ UNCHANGED <<ready, tree, pointers, userVars>>

Load_InitializeKboard ==
  /\ Calls("loading", "InitializeKboard", "InitializeSyncSolution")
  /\ ready' = ready \cup {"Kboard"}
  /\ UNCHANGED <<module, tree, pointers, userVars>>

Load_InitializeSyncSolution ==
  /\ Calls("loading", "InitializeSyncSolution", KBOARD_DIRECTORY)
  /\ ready' = ready \cup {"SyncSolution"}
  /\ UNCHANGED <<module, tree, pointers, userVars>>

(* InitializeProc: the next creation succeeds ...                          *)
AfterCreation(e) ==
  CASE e = KBOARD_DIRECTORY -> FileOrder[1]
    [] e = Last(FileOrder) -> "none"
    [] OTHER -> FileOrder[1 + CHOOSE i \in 1 .. Len(FileOrder) - 1 : FileOrder[i] = e]

Load_Create(e) ==
  /\ Calls("loading", e, AfterCreation(e))
  /\ tree' = tree \cup {e}
  /\ pointers' = pointers \cup {e}
  /\ module' = IF AfterCreation(e) = "none" THEN "live" ELSE "loading"
  /\ UNCHANGED <<ready, userVars>>

(* ... or it fails: the directory is removed, by its name only, and the    *)
(* module is freed with its data.  Who has one of its files open, or is in *)
(* a handler of it, keeps it.                                              *)
Load_CreateFails_GoesOn(e) ==
  /\ Calls("loading", e, AfterCreation(e))
  /\ tree' = {}
  /\ module' = IF AfterCreation(e) = "none" THEN "live" ELSE "loading"
  /\ UNCHANGED <<ready, pointers, userVars>>

Load_CreateFails(e) ==
  /\ Calls("loading", e, "none")
  /\ module' = "absent"
  /\ ready' = {} /\ tree' = {} /\ pointers' = {}
  /\ lost' = {u \in Users : file[u] \in Files}
  /\ UNCHANGED <<file, inside>>
-----------------------------------------------------------------------------
(* KboardModuleExit: DestroyProc. *)
Rmmod ==
  /\ module = "live"
  /\ module' = "unloading" /\ next' = "unlink"
  /\ UNCHANGED <<ready, tree, pointers, userVars>>

(* remove_proc_subtree: no path leads to the files any more, but they are  *)
(* still there for who has them open.                                      *)
Unload_Unlink ==
  /\ Calls("unloading", "unlink", "rundown")
  /\ tree' = tree \ {KBOARD_DIRECTORY}
  /\ UNCHANGED <<module, ready, pointers, userVars>>

(* The newest file is shut: calls are refused from now on.                 *)
Newest(f) == f \in tree /\ AfterCreation(f) \notin tree

Unload_Shut_UntilClosed(f) ==
  /\ Calls("unloading", "rundown", "rundown") /\ Newest(f)
  /\ \A u \in Users \ lost : file[u] # f
  /\ tree' = tree \ {f}
  /\ UNCHANGED <<module, ready, pointers, userVars>>

Unload_Shut(f) ==
  /\ Calls("unloading", "rundown", "rundown") /\ Newest(f)
  /\ Running(AfterCreation(f)) = {}
  /\ tree' = tree \ {f}
  /\ file' = [u \in Users |-> IF file[u] = f /\ u \notin inside \cup lost THEN "dead" ELSE file[u]]
  /\ UNCHANGED <<module, ready, pointers, inside, lost>>

Unload_Rundown_NoWait ==
  /\ Calls("unloading", "rundown", KBOARD_DIRECTORY) /\ tree = {}
  /\ UNCHANGED <<module, ready, tree, pointers, userVars>>

Unload_Rundown ==
  /\ Calls("unloading", "rundown", KBOARD_DIRECTORY) /\ tree = {}
  /\ Running(FileOrder[1]) = {}
  /\ UNCHANGED <<module, ready, tree, pointers, userVars>>

(* The five calls of proc_remove(), each with a pointer to an entry that   *)
(* remove_proc_subtree has removed; after the last the module is freed.    *)
Unload_ProcRemove(e) ==
  /\ Calls("unloading", e, AfterCreation(e))
  /\ IF AfterCreation(e) = "none"
       THEN module' = "absent" /\ ready' = {} /\ pointers' = {}
       ELSE UNCHANGED <<module, ready, pointers>>
  /\ UNCHANGED <<tree, userVars>>

Unload_Stops(e) ==
  /\ Calls("unloading", e, "none") /\ e \in pointers \ tree
  /\ module' = "stopped"
  /\ UNCHANGED <<ready, tree, pointers, userVars>>
-----------------------------------------------------------------------------
ModuleStep ==
  \/ Load_InitializeKboard \/ Load_InitializeSyncSolution
  \/ \E e \in Entries : Load_Create(e) \/ Load_CreateFails(e)
  \/ Unload_Unlink \/ (\E f \in Files : Unload_Shut(f)) \/ Unload_Rundown
  \/ \E e \in Entries : Unload_ProcRemove(e) \/ Unload_Stops(e)

UserStep(u) ==
  \/ \E f \in Files : File_Open(u, f)
  \/ Handler_Call(u) \/ (\E closes \in BOOLEAN : Handler_Return(u, closes))
  \/ File_Close(u)

Next ==
  \/ Insmod \/ Rmmod \/ ModuleStep
  \/ \E u \in Users : UserStep(u) \/ Lost_Stops(u)

(* With any users; SyncTest says who they are and what is fair. *)
Spec == Init /\ [][Next]_vars
-----------------------------------------------------------------------------
(* The values of the variables; a handler runs on a file that is open, and *)
(* a module that is live has all five pointers DestroyProc uses.           *)
TypeOK ==
  /\ module \in {"absent", "loading", "live", "unloading", "stopped"}
  /\ next \in {"none", "InitializeKboard", "InitializeSyncSolution", "unlink", "rundown"} \cup Entries
  /\ ready \subseteq {"Kboard", "SyncSolution"}
  /\ tree \subseteq Entries /\ pointers \subseteq Entries
  /\ file \in [Users -> Files \cup {"none", "dead"}]
  /\ inside \cup lost \subseteq {u \in Users : file[u] \in Files}
  /\ module = "live" => tree = Entries /\ pointers = Entries

(* No handler runs on a ring or a semaphore that is not set up, or that is *)
(* freed, although files can be used before KboardModuleInit returns (the  *)
(* order at 576-578) and are still open when KboardModuleExit is called    *)
(* (202).  Threads that had a file open when a load failed are excepted:   *)
(* theirs do run in freed memory (167, 176, 185).                          *)
InitBeforeUse == inside \subseteq lost \/ ready = {"Kboard", "SyncSolution"}

(* KboardModuleExit returns with no handler still running and no file of   *)
(* this load that could still be called.                                   *)
QuietExit ==
  [][module = "unloading" /\ module' = "absent" => \A u \in Users \ lost : file[u] \notin Files]_vars

(* Unloading comes to an end, although it waits for handlers (202) and     *)
(* processes keep the files open and call them all the time.               *)
UnloadEnds == module = "unloading" ~> module \in {"absent", "stopped"}
=============================================================================
