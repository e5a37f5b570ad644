-------------------------- MODULE KboardProcProofs --------------------------
(***************************************************************************)
(* Proofs that the handlers of lab2 run only on what KboardModuleInit has  *)
(* set up and nobody has freed, unless a load fails while their file is    *)
(* open, and that an unload leaves none running and none to be called: for *)
(* any set of users, through any number of loads and unloads.              *)
(***************************************************************************)
EXTENDS SyncTest, TLAPS

(* The entries InitializeProc has created when it comes to create e.       *)
CreatedBefore(e) ==
  CASE e = "kboard" -> {}
    [] e = "writer" -> {"kboard"}
    [] e = "reader" -> {"kboard", "writer"}
    [] e = "count" -> {"kboard", "writer", "reader"}
    [] e = "dump" -> {"kboard", "writer", "reader", "count"}

(* The files remove_proc_subtree has still to shut after file f, or after  *)
(* none.                                                                   *)
StillOpen(f) ==
  CASE f = "none" -> {"writer", "reader", "count", "dump"}
    [] f = "dump" -> {"writer", "reader", "count"}
    [] f = "count" -> {"writer", "reader"}
    [] f = "reader" -> {"writer"}
    [] f = "writer" -> {}

AllReady == {"Kboard", "SyncSolution"}

(* Where KboardModuleInit is says what it has initialised and created.     *)
Loading ==
  /\ module = "absent" => next = "none" /\ ready = {} /\ tree = {} /\ pointers = {}
  /\ module = "loading" =>
       \/ next = "InitializeKboard" /\ ready = {} /\ tree = {} /\ pointers = {}
       \/ next = "InitializeSyncSolution" /\ ready = {"Kboard"} /\ tree = {} /\ pointers = {}
       \/ next \in Entries /\ ready = AllReady /\ tree = CreatedBefore(next) /\ pointers = tree

(* remove_proc_subtree has shut f last: what else is open is still to be   *)
(* shut, and of f only the handlers are left that it waits for.            *)
HasShut(f) ==
  /\ tree = StillOpen(f)
  /\ \A u \in Users \ lost : file[u] \in Files => file[u] \in tree \/ (file[u] = f /\ u \in inside)

(* Where KboardModuleExit is says what is still there.                     *)
Unloading ==
  /\ module = "live" => next = "none" /\ tree = Entries /\ pointers = Entries
  /\ module = "unloading" =>
       \/ next = "unlink" /\ tree = Entries
       \/ next = "rundown" /\ \E f \in Files \cup {"none"} : HasShut(f)
       \/ next \in Entries /\ tree = {}
  /\ module \in {"live", "unloading"} => ready = AllReady

(* But while remove_proc_subtree shuts them, an open file is one that is   *)
(* there, or it is of a load that failed.                                  *)
OpenFiles ==
  module # "stopped" /\ next # "rundown" => \A u \in Users \ lost : file[u] \in Files => file[u] \in tree

IInv == TypeOK /\ Loading /\ Unloading /\ OpenFiles /\ InitBeforeUse
-----------------------------------------------------------------------------
(* The names of the files and of the entries.                              *)
LEMMA EntryNames ==
  /\ Files = {"writer", "reader", "count", "dump"}
  /\ Entries = {"kboard", "writer", "reader", "count", "dump"}
<1>1. Files = {"writer", "reader", "count", "dump"}
  <2>1. DOMAIN FileOrder = {1, 2, 3, 4}
    BY DEF FileOrder
  <2>2. FileOrder[1] = "writer" /\ FileOrder[2] = "reader" /\ FileOrder[3] = "count" /\ FileOrder[4] = "dump"
    BY DEF FileOrder
  <2> QED  BY <2>1, <2>2, Zenon DEF Files, ToSet
<1> QED  BY <1>1 DEF Entries, KBOARD_DIRECTORY

(* The order of the calls of InitializeProc and of DestroyProc.            *)
LEMMA CreationOrder ==
  /\ AfterCreation("kboard") = "writer"
  /\ AfterCreation("writer") = "reader"
  /\ AfterCreation("reader") = "count"
  /\ AfterCreation("count") = "dump"
  /\ AfterCreation("dump") = "none"
<1> DEFINE Place(e) == CHOOSE i \in 1 .. Len(FileOrder) - 1 : FileOrder[i] = e
<1>1. /\ FileOrder[1] = "writer" /\ FileOrder[2] = "reader"
      /\ FileOrder[3] = "count" /\ FileOrder[4] = "dump"
      /\ Len(FileOrder) = 4
  BY DEF FileOrder
<1>2. Last(FileOrder) = "dump"
  BY <1>1 DEF Last
<1>3. Place("writer") = 1 /\ Place("reader") = 2 /\ Place("count") = 3
  BY <1>1
<1> HIDE DEF Place
<1>4. AfterCreation("kboard") = "writer"
  BY <1>1, <1>2 DEF AfterCreation, KBOARD_DIRECTORY
<1>5. AfterCreation("dump") = "none"
  BY <1>1, <1>2 DEF AfterCreation, KBOARD_DIRECTORY
<1>6. ASSUME NEW e \in {"writer", "reader", "count"}
      PROVE  AfterCreation(e) = FileOrder[1 + Place(e)]
  BY <1>2 DEF AfterCreation, KBOARD_DIRECTORY, Place
<1> QED  BY <1>1, <1>3, <1>4, <1>5, <1>6
(* What has been created before the next entry is what had been created    *)
(* before this one, and this one.                                          *)
LEMMA CreatedNext ==
  ASSUME NEW e \in Entries
  PROVE  /\ CreatedBefore(e) \subseteq Entries
         /\ CreatedBefore(e) \ {"kboard"} \subseteq Files
         /\ e # "kboard" => "kboard" \in CreatedBefore(e)
         /\ e # "none"
         /\ \/ AfterCreation(e) = "none" /\ CreatedBefore(e) \cup {e} = Entries
            \/ /\ AfterCreation(e) \in Entries
               /\ CreatedBefore(AfterCreation(e)) = CreatedBefore(e) \cup {e}
<1>1. CASE e = "kboard"  BY <1>1, EntryNames, CreationOrder DEF CreatedBefore
<1>2. CASE e = "writer"  BY <1>2, EntryNames, CreationOrder DEF CreatedBefore
<1>3. CASE e = "reader"  BY <1>3, EntryNames, CreationOrder DEF CreatedBefore
<1>4. CASE e = "count"   BY <1>4, EntryNames, CreationOrder DEF CreatedBefore
<1>5. CASE e = "dump"    BY <1>5, EntryNames, CreationOrder DEF CreatedBefore
<1> QED  BY <1>1, <1>2, <1>3, <1>4, <1>5, EntryNames

(* The files are shut in the order opposite to that of their creation.     *)
LEMMA ShutOrder ==
  ASSUME NEW g \in Files \cup {"none"}
  PROVE  /\ StillOpen(g) \subseteq Files
         /\ StillOpen(g) = {} => g = "writer"
         /\ \A f \in StillOpen(g) :
              AfterCreation(f) \notin StillOpen(g) =>
                AfterCreation(f) = g /\ StillOpen(g) \ {f} = StillOpen(f)
<1>1. CASE g = "none"    BY <1>1, EntryNames, CreationOrder DEF StillOpen
<1>2. CASE g = "writer"  BY <1>2, EntryNames, CreationOrder DEF StillOpen
<1>3. CASE g = "reader"  BY <1>3, EntryNames, CreationOrder DEF StillOpen
<1>4. CASE g = "count"   BY <1>4, EntryNames, CreationOrder DEF StillOpen
<1>5. CASE g = "dump"    BY <1>5, EntryNames, CreationOrder DEF StillOpen
<1> QED  BY <1>1, <1>2, <1>3, <1>4, <1>5, EntryNames

(* A file can be opened, or its handlers be called by who has no file of a *)
(* failed load, only when everything is set up.                            *)
LEMMA SetUpWhenThere == ASSUME IInv, tree # {}, module # "stopped" PROVE ready = AllReady
  BY DEF IInv, TypeOK, Loading, Unloading

(* Where remove_proc_subtree shuts the files, one of them was shut last.   *)
LEMMA Shutting ==
  ASSUME IInv, module # "stopped", next = "rundown"
  PROVE  module = "unloading" /\ \E f \in Files \cup {"none"} : HasShut(f)
<1>1. /\ next \notin {"none", "unlink", "InitializeKboard", "InitializeSyncSolution"}
      /\ next \notin Entries
  BY EntryNames
<1> QED  BY <1>1 DEF IInv, TypeOK, Loading, Unloading

(* While the directory is there it shuts none.                             *)
LEMMA NotShutting ==
  ASSUME IInv, module # "stopped", KBOARD_DIRECTORY \in tree
  PROVE  next # "rundown"
<1> SUFFICES ASSUME next = "rundown" PROVE FALSE
  OBVIOUS
<1>1. PICK f \in Files \cup {"none"} : HasShut(f)
  BY Shutting
<1>2. tree \subseteq Files
  BY <1>1, ShutOrder DEF HasShut
<1> QED  BY <1>2, EntryNames DEF KBOARD_DIRECTORY
-----------------------------------------------------------------------------
(* What a user does with its file moves nothing of the module.  If what is *)
(* open afterwards is there, or was open before and its handler running,   *)
(* the parts of the invariant about the module are kept.                   *)
LEMMA UserKeeps ==
  ASSUME IInv, UNCHANGED procVars,
         \A w \in Users \ lost' : file'[w] \in Files =>
           \/ file'[w] \in tree
           \/ file'[w] = file[w] /\ w \notin lost /\ (w \in inside => w \in inside')
  PROVE  Loading' /\ Unloading' /\ OpenFiles'
<1>1. Loading'
  BY DEF IInv, Loading, procVars
<1>2. ASSUME NEW f, HasShut(f) PROVE HasShut(f)'
  BY <1>2 DEF HasShut, procVars
<1>3. Unloading'
  BY <1>2 DEF IInv, Unloading, procVars
<1>4. OpenFiles'
  BY DEF IInv, OpenFiles, procVars
<1> QED  BY <1>1, <1>3, <1>4

(* A file is opened, closed, or its handler called or left.                *)
LEMMA UserInv == ASSUME IInv, NEW u \in Users, UserStep(u) PROVE IInv'
<1>1. UNCHANGED procVars /\ module # "stopped"
  BY DEF UserStep, File_Open, Handler_Call, Handler_Return, File_Close, KernelRuns
<1>2. "none" \notin Files /\ "dead" \notin Files
  BY EntryNames
<1>3. /\ file \in [Users -> Files \cup {"none", "dead"}]
      /\ inside \cup lost \subseteq {w \in Users : file[w] \in Files}
  BY DEF IInv, TypeOK
<1> DEFINE
  Kept ==
    /\ file' \in [Users -> Files \cup {"none", "dead"}]
    /\ inside' \cup lost' \subseteq {w \in Users : file'[w] \in Files}
    /\ InitBeforeUse'
    /\ \A w \in Users \ lost' : file'[w] \in Files =>
         \/ file'[w] \in tree
         \/ file'[w] = file[w] /\ w \notin lost /\ (w \in inside => w \in inside')
<1>4. SUFFICES Kept
  <2>1. TypeOK'
    BY <1>1, <1>4 DEF IInv, TypeOK, procVars
  <2> QED  BY <1>1, <1>4, <2>1, UserKeeps DEF IInv
<1>5. ASSUME NEW f \in Files, File_Open(u, f)
      PROVE  Kept
  <2>1. /\ file' = [file EXCEPT ![u] = f] /\ inside' = inside /\ lost' = lost
        /\ ready' = ready /\ file[u] = "none" /\ f \in tree
    BY <1>5 DEF File_Open, PathTo, procVars
  <2>2. InitBeforeUse'
    BY <2>1 DEF IInv, InitBeforeUse
  <2> QED  BY <1>2, <1>3, <2>1, <2>2
<1>6. ASSUME Handler_Call(u)
      PROVE  Kept
  <2>1. /\ file' = file /\ inside' = inside \cup {u} /\ lost' = lost
        /\ ready' = ready /\ (file[u] \in tree \/ u \in lost)
    BY <1>6 DEF Handler_Call, procVars
  <2>2. file[u] \in Files
    <3>1. tree \subseteq Entries /\ "none" \notin Entries /\ "dead" \notin Entries
      BY EntryNames DEF IInv, TypeOK
    <3> QED  BY <1>3, <2>1, <3>1
  <2>3. u \notin lost => ready = AllReady
    BY <1>1, <2>1, SetUpWhenThere
  <2>4. InitBeforeUse'
    BY <2>1, <2>3 DEF IInv, InitBeforeUse, AllReady
  <2> QED  BY <1>3, <2>1, <2>2, <2>4
<1>7. ASSUME NEW closes \in BOOLEAN, Handler_Return(u, closes)
      PROVE  Kept
  <2>1. /\ inside' = inside \ {u} /\ u \in inside /\ ready' = ready
        /\ file' = [file EXCEPT ![u] = IF closes THEN "none"
                                       ELSE IF u \in lost \/ file[u] \in tree THEN file[u] ELSE "dead"]
        /\ lost' = IF closes THEN lost \ {u} ELSE lost
    BY <1>7 DEF Handler_Return, procVars
  <2>2. InitBeforeUse'
    BY <2>1 DEF IInv, InitBeforeUse
  <2>3. \A w \in Users : w # u => file'[w] = file[w] /\ (w \in lost' <=> w \in lost)
    BY <1>3, <2>1
  <2>4. file' \in [Users -> Files \cup {"none", "dead"}]
    BY <1>3, <2>1
  <2>5. CASE closes
    BY <1>2, <1>3, <2>1, <2>2, <2>3, <2>4, <2>5
  <2>6. CASE ~closes
    BY <1>2, <1>3, <2>1, <2>2, <2>3, <2>4, <2>6
  <2> QED  BY <2>5, <2>6
<1>8. ASSUME File_Close(u)
      PROVE  Kept
  <2>1. /\ inside' = inside /\ u \notin inside /\ lost' = lost \ {u} /\ ready' = ready
        /\ file' = [file EXCEPT ![u] = "none"]
    BY <1>8 DEF File_Close, procVars
  <2>2. InitBeforeUse'
    BY <2>1 DEF IInv, InitBeforeUse
  <2> QED  BY <1>2, <1>3, <2>1, <2>2
<1> QED  BY <1>5, <1>6, <1>7, <1>8 DEF UserStep

(* insmod starts with nothing that is there and nothing set up.            *)
LEMMA InsmodInv == ASSUME IInv, Insmod PROVE IInv'
<1>1. /\ module = "absent" /\ next = "none" /\ ready = {} /\ tree = {} /\ pointers = {}
      /\ UNCHANGED <<ready, tree, pointers, file, inside, lost>>
      /\ module' = "loading" /\ next' = "InitializeKboard"
  BY DEF Insmod, FirstCall, IInv, Loading, userVars
<1>2. OpenFiles'
  BY <1>1 DEF IInv, OpenFiles
<1> QED  BY <1>1, <1>2 DEF IInv, TypeOK, Loading, Unloading, InitBeforeUse

(* The first two calls of KboardModuleInit (576, 577).                     *)
LEMMA InitializeInv ==
  ASSUME IInv, Load_InitializeKboard \/ Load_InitializeSyncSolution
  PROVE  IInv'
<1>1. next \notin Entries
  BY EntryNames DEF Load_InitializeKboard, Load_InitializeSyncSolution, Calls
<1>2. /\ module = "loading" /\ ready # AllReady /\ tree = {} /\ pointers = {} /\ next' # "rundown"
      /\ UNCHANGED <<module, tree, pointers, file, inside, lost>>
  BY <1>1 DEF Load_InitializeKboard, Load_InitializeSyncSolution, Calls, IInv, Loading, AllReady,
              userVars, KBOARD_DIRECTORY
<1>3. InitBeforeUse' /\ OpenFiles'
  BY <1>1, <1>2
  DEF Load_InitializeKboard, Load_InitializeSyncSolution, Calls, IInv, InitBeforeUse, OpenFiles, AllReady
<1>4. CASE Load_InitializeKboard
  <2>1. next = "InitializeKboard" /\ next' = "InitializeSyncSolution" /\ ready = {} /\ ready' = {"Kboard"}
    BY <1>1, <1>2, <1>4 DEF Load_InitializeKboard, Calls, IInv, Loading
  <2> QED  BY <1>2, <1>3, <2>1 DEF IInv, TypeOK, Loading, Unloading
<1>5. CASE Load_InitializeSyncSolution
  <2>1. next' = "kboard" /\ ready' = AllReady
    BY <1>1, <1>2, <1>5 DEF Load_InitializeSyncSolution, Calls, IInv, Loading, KBOARD_DIRECTORY, AllReady
  <2>2. "kboard" \in Entries /\ CreatedBefore("kboard") = {}
    BY EntryNames DEF CreatedBefore
  <2>3. Loading'
    BY <1>2, <2>1, <2>2 DEF Loading
  <2> QED  BY <1>2, <1>3, <2>1, <2>2, <2>3 DEF IInv, TypeOK, Unloading, AllReady
<1> QED  BY <1>4, <1>5

(* A creation of InitializeProc, and one that fails (146-191): then what   *)
(* is open or running is all of a load that failed.                        *)
LEMMA CreateInv ==
  ASSUME IInv, NEW e \in Entries, Load_Create(e) \/ Load_CreateFails(e)
  PROVE  IInv'
<1>1. /\ e \notin {"InitializeKboard", "InitializeSyncSolution", "rundown"}
      /\ "none" \notin Entries /\ "rundown" \notin Entries
  BY EntryNames
<1>2. /\ module = "loading" /\ next = e /\ ready = AllReady
      /\ tree = CreatedBefore(e) /\ pointers = CreatedBefore(e)
  BY <1>1 DEF Load_Create, Load_CreateFails, Calls, IInv, Loading
<1>3. CASE Load_CreateFails(e)
  <2>1. /\ module' = "absent" /\ next' = "none" /\ ready' = {} /\ tree' = {} /\ pointers' = {}
        /\ lost' = {u \in Users : file[u] \in Files} /\ UNCHANGED <<file, inside>>
    BY <1>3 DEF Load_CreateFails, Calls
  <2>2. TypeOK' /\ inside' \subseteq lost'
    BY <2>1 DEF IInv, TypeOK
  <2> QED  BY <2>1, <2>2 DEF IInv, Loading, Unloading, OpenFiles, InitBeforeUse
<1>4. CASE Load_Create(e)
  <2>1. /\ next' = AfterCreation(e) /\ ready' = AllReady /\ UNCHANGED <<file, inside, lost>>
        /\ tree' = CreatedBefore(e) \cup {e} /\ pointers' = CreatedBefore(e) \cup {e}
        /\ module' = IF AfterCreation(e) = "none" THEN "live" ELSE "loading"
    BY <1>2, <1>4 DEF Load_Create, Calls, userVars
  <2>2. tree' \subseteq Entries
    BY <2>1, CreatedNext
  <2>3. InitBeforeUse'
    BY <2>1 DEF InitBeforeUse, AllReady
  <2>4. OpenFiles'
    BY <1>1, <1>2, <2>1 DEF IInv, OpenFiles
  <2>5. CASE AfterCreation(e) = "none" /\ CreatedBefore(e) \cup {e} = Entries
    BY <2>1, <2>2, <2>3, <2>4, <2>5 DEF IInv, TypeOK, Loading, Unloading, AllReady
  <2>6. CASE /\ AfterCreation(e) \in Entries
             /\ CreatedBefore(AfterCreation(e)) = CreatedBefore(e) \cup {e}
    <3>1. module' = "loading" /\ next' \in Entries /\ tree' = CreatedBefore(next') /\ pointers' = tree'
      BY <1>1, <2>1, <2>6
    <3>2. Loading'
      BY <2>1, <3>1 DEF Loading
    <3> QED  BY <2>1, <2>2, <2>3, <2>4, <3>1, <3>2 DEF IInv, TypeOK, Unloading, AllReady
  <2> QED  BY <2>5, <2>6, CreatedNext
<1> QED  BY <1>3, <1>4
-----------------------------------------------------------------------------
(* rmmod, and the directory is taken out of the tree (202).                *)
LEMMA UnlinkInv == ASSUME IInv, Rmmod \/ Unload_Unlink PROVE IInv'
<1>1. /\ module \in {"live", "unloading"} /\ module' = "unloading"
      /\ UNCHANGED <<ready, pointers, file, inside, lost>>
  BY DEF Rmmod, Unload_Unlink, Calls, userVars
<1>2. ready = AllReady /\ InitBeforeUse'
  BY <1>1 DEF IInv, Unloading, InitBeforeUse
<1>3. "unlink" \notin Entries
  BY EntryNames
<1>4. CASE Rmmod
  BY <1>1, <1>2, <1>4 DEF Rmmod, IInv, TypeOK, Loading, Unloading, OpenFiles
<1>5. CASE Unload_Unlink
  <2>1. /\ next = "unlink" /\ next' = "rundown" /\ tree = Entries /\ tree' = Entries \ {"kboard"}
        /\ module = "unloading"
    BY <1>3, <1>5 DEF Unload_Unlink, Calls, KBOARD_DIRECTORY, IInv, Unloading
  <2>2. tree' = StillOpen("none") /\ Files \subseteq tree'
    BY <2>1, EntryNames DEF StillOpen
  <2>3. HasShut("none")'
    BY <2>2 DEF HasShut
  <2>4. Unloading'
    BY <1>1, <1>2, <2>1, <2>3 DEF Unloading
  <2> QED  BY <1>1, <1>2, <2>1, <2>4 DEF IInv, TypeOK, Loading, OpenFiles
<1> QED  BY <1>4, <1>5

(* The next file is shut when no handler of the one before runs any more.  *)
LEMMA ShutInv == ASSUME IInv, NEW f \in Files, Unload_Shut(f) PROVE IInv'
<1>1. /\ module = "unloading" /\ next = "rundown" /\ module' = "unloading" /\ next' = "rundown"
      /\ f \in tree /\ AfterCreation(f) \notin tree /\ tree' = tree \ {f}
      /\ {u \in inside \ lost : file[u] = AfterCreation(f)} = {}
      /\ file' = [u \in Users |-> IF file[u] = f /\ u \notin inside \cup lost THEN "dead" ELSE file[u]]
      /\ UNCHANGED <<ready, pointers, inside, lost>>
  BY DEF Unload_Shut, Calls, Newest, Running
<1>2. PICK g \in Files \cup {"none"} : HasShut(g)
  BY <1>1, Shutting
<1>3. AfterCreation(f) = g /\ tree' = StillOpen(f)
  BY <1>1, <1>2, ShutOrder DEF HasShut
<1>4. \A u \in Users \ lost : file[u] \in Files => file[u] \in tree
  <2> SUFFICES ASSUME NEW u \in Users \ lost, file[u] \in Files PROVE file[u] \in tree
    OBVIOUS
  <2>1. file[u] \in tree \/ (file[u] = g /\ u \in inside)
    BY <1>2 DEF HasShut
  <2>2. ~(file[u] = g /\ u \in inside)
    BY <1>1, <1>3
  <2> QED  BY <2>1, <2>2
<1>5. "dead" \notin Files
  BY EntryNames
<1>6. HasShut(f)'
  BY <1>1, <1>3, <1>4, <1>5 DEF HasShut
<1>7. Unloading'
  BY <1>1, <1>6 DEF IInv, Unloading
<1>8. TypeOK'
  BY <1>1 DEF IInv, TypeOK
<1> QED  BY <1>1, <1>7, <1>8 DEF IInv, Loading, OpenFiles, InitBeforeUse

(* The wait for the handlers of the last file ends.                        *)
LEMMA RundownInv == ASSUME IInv, Unload_Rundown PROVE IInv'
<1>1. /\ module = "unloading" /\ next = "rundown" /\ module' = "unloading" /\ next' = "kboard"
      /\ tree = {} /\ {u \in inside \ lost : file[u] = "writer"} = {}
      /\ UNCHANGED <<ready, tree, pointers, file, inside, lost>>
  <2>1. FileOrder[1] = "writer"
    BY DEF FileOrder
  <2> QED  BY <2>1 DEF Unload_Rundown, Calls, Running, KBOARD_DIRECTORY, userVars
<1>2. PICK g \in Files \cup {"none"} : HasShut(g)
  BY <1>1, Shutting
<1>3. g = "writer"
  BY <1>1, <1>2, ShutOrder DEF HasShut
<1>4. \A u \in Users \ lost : file[u] \notin Files
  BY <1>1, <1>2, <1>3 DEF HasShut
<1>5. "kboard" \in Entries
  BY EntryNames
<1>6. OpenFiles' /\ Unloading'
  BY <1>1, <1>4, <1>5 DEF IInv, OpenFiles, Unloading
<1> QED  BY <1>1, <1>5, <1>6 DEF IInv, TypeOK, Loading, InitBeforeUse

(* The calls of proc_remove (203-207) find nobody with an open file.       *)
LEMMA NobodyLeft ==
  ASSUME IInv, module = "unloading", next \in Entries
  PROVE  tree = {} /\ inside \subseteq lost /\ \A u \in Users \ lost : file[u] \notin Files
<1>1. next \notin {"unlink", "rundown"}
  BY EntryNames
<1> QED  BY <1>1 DEF IInv, TypeOK, Unloading, OpenFiles

LEMMA ProcRemoveInv ==
  ASSUME IInv, NEW e \in Entries, Unload_ProcRemove(e) \/ Unload_Stops(e)
  PROVE  IInv'
<1>1. /\ module = "unloading" /\ next = e /\ UNCHANGED <<tree, file, inside, lost>>
  BY DEF Unload_ProcRemove, Unload_Stops, Calls, userVars
<1>2. tree' = {} /\ inside' \subseteq lost' /\ \A u \in Users \ lost' : file'[u] \notin Files
  BY <1>1, NobodyLeft
<1>3. OpenFiles' /\ InitBeforeUse'
  BY <1>2 DEF OpenFiles, InitBeforeUse
<1>4. \/ module' = "stopped" /\ next' = "none" /\ UNCHANGED <<ready, pointers>>
      \/ module' = "absent" /\ next' = "none" /\ ready' = {} /\ pointers' = {}
      \/ module' = "unloading" /\ next' \in Entries /\ UNCHANGED <<ready, pointers>>
  <2>1. CASE Unload_Stops(e)
    BY <2>1 DEF Unload_Stops, Calls
  <2>2. CASE Unload_ProcRemove(e) /\ AfterCreation(e) = "none"
    BY <2>2 DEF Unload_ProcRemove, Calls
  <2>3. CASE Unload_ProcRemove(e) /\ AfterCreation(e) # "none"
    BY <1>1, <2>3, CreatedNext DEF Unload_ProcRemove, Calls
  <2> QED  BY <2>1, <2>2, <2>3
<1> QED  BY <1>1, <1>2, <1>3, <1>4 DEF IInv, TypeOK, Loading, Unloading

(* What is done in freed memory stops the kernel.                          *)
LEMMA LostInv == ASSUME IInv, NEW u \in Users, Lost_Stops(u) PROVE IInv'
<1>1. module' = "stopped" /\ UNCHANGED <<next, ready, tree, pointers, file, inside, lost>>
  BY DEF Lost_Stops, userVars
<1> QED  BY <1>1 DEF IInv, TypeOK, Loading, Unloading, OpenFiles, InitBeforeUse

(* The invariant holds before the module is loaded.                        *)
LEMMA InitInv == ASSUME Init PROVE IInv
  BY EntryNames DEF Init, IInv, TypeOK, Loading, Unloading, OpenFiles, InitBeforeUse

(* Every step of the module, and of a user of its files, keeps it.         *)
LEMMA StepInv == ASSUME IInv, [Next]_vars PROVE IInv'
<1>1. CASE UNCHANGED vars
  <2>1. UNCHANGED <<module, next, ready, tree, pointers, file, inside, lost>>
    BY <1>1 DEF vars, procVars, userVars
  <2>2. \A f : HasShut(f)' <=> HasShut(f)
    BY <2>1 DEF HasShut
  <2> QED  BY <2>1, <2>2 DEF IInv, TypeOK, Loading, Unloading, OpenFiles, InitBeforeUse
<1>2. CASE Next
  BY <1>2, InsmodInv, InitializeInv, CreateInv, UnlinkInv, ShutInv, RundownInv, ProcRemoveInv,
     UserInv, LostInv DEF Next, ModuleStep
<1> QED  BY <1>1, <1>2
-----------------------------------------------------------------------------
(* The invariant of the life of the module.                                *)
LEMMA Invariant == Spec => []IInv
<1>1. Init => IInv
  BY InitInv
<1>2. IInv /\ [Next]_vars => IInv'
  BY StepInv
<1> QED  BY <1>1, <1>2, PTL DEF Spec

(* The types of the variables: whoever is in a handler has its file open,  *)
(* and DestroyProc finds all its pointers set, whatever creation failed in *)
(* an earlier load.                                                        *)
THEOREM TypeCorrect == Spec => []TypeOK
<1>1. IInv => TypeOK
  BY DEF IInv
<1> QED  BY <1>1, Invariant, PTL

(* Who is in a handler, and has no file of a load that failed, finds the   *)
(* Kboard and the semaphores set up and not freed: on a file that is used  *)
(* while KboardModuleInit still creates the others, on one that is open    *)
(* while KboardModuleExit runs, and when another load failed before.       *)
THEOREM SetUpBeforeUse == Spec => []InitBeforeUse
<1>1. IInv => InitBeforeUse
  BY DEF IInv
<1> QED  BY <1>1, Invariant, PTL

(* When KboardModuleExit returns, no handler of this load runs and none    *)
(* can be called again: to shut the files one after the other and to wait  *)
(* for each is enough, since nobody opens one meanwhile.                   *)
THEOREM ExitIsQuiet == Spec => QuietExit
<1> DEFINE Quiet == module = "unloading" /\ module' = "absent" => \A u \in Users \ lost : file[u] \notin Files
<1>1. ASSUME IInv, [Next]_vars PROVE [Quiet]_vars
  <2> SUFFICES ASSUME Next, module = "unloading", module' = "absent"
               PROVE  \A u \in Users \ lost : file[u] \notin Files
    BY <1>1
  <2>1. PICK e \in Entries : Unload_ProcRemove(e)
    BY DEF Next, ModuleStep, Insmod, Rmmod, Calls, UserStep, File_Open, Handler_Call, Handler_Return,
           File_Close, Lost_Stops, procVars, Load_InitializeKboard, Load_InitializeSyncSolution,
           Load_Create, Load_CreateFails, Unload_Unlink, Unload_Shut, Unload_Rundown, Unload_Stops
  <2>2. next \in Entries
    BY <2>1 DEF Unload_ProcRemove, Calls
  <2> QED  BY <1>1, <2>2, NobodyLeft
<1>2. IInv /\ [Next]_vars => [Quiet]_vars
  BY <1>1
<1> QED  BY <1>2, Invariant, PTL DEF Spec, QuietExit

(* SyncTest and the users beside it do with the proc files only what any   *)
(* users may, so that all of the above holds of a run of the test,         *)
(* whatever its arguments and whichever of its threads could be created.   *)
THEOREM TestUsesModule == TestSpec => Spec
<1>1. TestInit => Init
  BY DEF TestInit
<1>2. [TestNext]_allVars => [Next]_vars
  <2> SUFFICES ASSUME [TestNext]_allVars PROVE [Next]_vars
    OBVIOUS
  <2>1. Users = Threads \cup Others
    BY TestAssumption DEF TestUsers
  <2>2. \A i : FileOf(i) \in Files
    BY EntryNames DEF FileOf
  <2>3. CASE UNCHANGED allVars
    BY <2>3 DEF allVars
  <2>4. CASE MainStep
    BY <2>4 DEF MainStep
  <2>5. ASSUME NEW i \in Threads, Thread_Fork(i) \/ ShellStep(i) \/ Shell_Return(i) PROVE [Next]_vars
    BY <2>1, <2>2, <2>5
    DEF Thread_Fork, ShellStep, Shell_Open, Shell_Call, Shell_Return, Shell_Refused, Shell_NoFile,
        UserStep, Next
  <2>6. CASE \/ Insmod \/ Rmmod \/ ModuleStep
             \/ (\E u \in Others : UserStep(u)) \/ (\E u \in Users : Lost_Stops(u))
    BY <2>1, <2>6 DEF Next
  <2> QED  BY <2>3, <2>4, <2>5, <2>6 DEF TestNext
<1> QED  BY <1>1, <1>2, PTL DEF TestSpec, Spec
=============================================================================
