# TLA+ models of the OS-Class labs

The repository holds two versions of one service, a small clipboard in the
Linux kernel:

* **lab1** (`lab1/kernel/os_kboard.c`): three system calls on a ring buffer
  under one spinlock, a user library (`lab1/user/kboard.c`), two command line
  programs and two endless test programs.
* **lab2** (`lab2/KboardModule.c`): a kernel module with four files under
  `/proc/kboard`. `writer` enqueues on write and dequeues on read, `reader`
  shows a random slot, `count` and `dump` show the state. A readers-writers
  lock protects the ring; there are three versions of it (`SYNC_SOLUTION`,
  1 in the source). `lab2/SyncTest.c` starts threads that use the files.

Paths below are relative to the repository (`src/`).

## Inventory

| component | state | operations | what makes it correct | status |
|---|---|---|---|---|
| lab1 system calls | `Lock`, `Ring`, `Count`, `CurrentIndex` | `kb_enqueue`, `kb_dequeue`, `kb_init` | a bounded FIFO queue; every path unlocks; `Count` is the number of stored values | modelled and proved, `OsKboard` |
| lab1 user library, `copy`, `paste`, `init` | none | one system call each | passes its argument on; `paste` is never given a slot without a value | modelled, `Calls` and `PasteReport` of `OsKboard` |
| lab1 test programs | `value`, `expectValue` | endless copy, endless paste | every value comes back, once and in order | modelled and proved, `SyncPrograms` |
| lab1 kernel registration (`syscalls.h`, `syscall_64.tbl`, `Makefile`) | none | none | - | not modelled: a few declarations added to files of Linux |
| kernel semaphore | count, list of sleepers | `InitializeSemaphore`, `down`, `up` | FIFO hand-over | modelled, `Semaphore` |
| `SYNC_SOLUTION` 1 | 2 semaphores, `ReaderCount` | Enter and Leave, for readers and writers | exclusion, readers share, no reader starves | modelled and proved, `SyncSolution1` |
| `SYNC_SOLUTION` 2 | 4 semaphores, 2 counts | the same | exclusion, writers first, no writer starves | modelled and proved, `SyncSolution2` |
| `SYNC_SOLUTION` 3 | 3 semaphores, 4 counts | the same | exclusion, nobody left asleep | modelled, `SyncSolution3`; its counts proved exact, exclusion fails, and is proved for at most one reader |
| proc file handlers | `RingBuffer`, its count and index, `PerformWriter`, `PerformReader` | write, three reads, dump | a bounded FIFO queue for writers, readers see no half-done update, every path leaves the critical section | modelled and proved, `KboardHandlers` with `KboardModule1` |
| module life cycle | the `proc_dir_entry` pointers | `InitializeProc`, `DestroyProc` | no handler runs on what is not set up or is freed; removal shuts every file, waits for running handlers and ends | modelled and proved, `KboardProc` |
| `SyncTest` | its thread ids | create, join, sleep; threads that fork shells | it comes to an end, one way or another, and so do the shells it leaves; its calls are safe while the module comes and goes | modelled, `SyncTest` |

How the parts interact: user threads enter the kernel through system calls or
proc files, any number of them at once. In lab1 the spinlock serialises them.
In lab2 each handler calls `EnterCriticalSection_*` and
`LeaveCriticalSection_*` around its work, except the count and dump handlers,
which take no lock. Within a solution threads interact through the semaphores
(sleep and wake-up) and through the counts that a mutex semaphore protects.

What is hard: all of it is interleaving. A reader sleeps for one semaphore
while it holds another; a woken thread runs much later than its wake-up; the
first and the last thread of a group act for the group; handlers return early;
readers inside together write a shared counter; two handlers look at the ring
without a lock; `kb_init` makes a lock new that may be held; a buffer is
scanned beyond what was copied into it. `PROJECT.json` lists these hazards by
line, with the property that would catch each.

## Modules

* `Semaphore`: the semaphore of the kernel as a record of a count and a FIFO
  list. `Down` and `Up` are functions on that record. `down()` and `up()` are
  not in the repository; they are modelled from the kernel's contract as the
  code relies on it. A thread in the list has its control point already after
  its `down()` and takes no step until an `Up` removes it.
* `ReadersWriters`: the abstract lock. It goes from party to party in the order
  they asked; each writer is a party and the readers are one together. The
  state is whose turn it is, the line of parties that wait, and who is inside.
  Readers come and go during their turn, and it is passed on once, when none of
  them is inside.
* `SyncSolution1`, `SyncSolution2`, `SyncSolution3`: the three versions of
  `EnterCriticalSection_*` and `LeaveCriticalSection_*`. The variables are the
  C globals and `pc`. There is one action per semaphore call and one per
  update of a count with the test that follows it; these need not be split
  further since a mutex semaphore is held. The critical section itself is
  control point `reading` or `writing`. The first two instantiate
  `ReadersWriters` and state that they implement it: the turn is held by who
  holds `SemaphoreWriter`, the line is its list of sleepers with the party of
  each, and inside are the threads at those points. The third does not
  implement it.
* `ClipQueue`: the abstract clipboard, a bounded FIFO queue. A thread asks for
  an enqueue of a value, a dequeue or a reset; the answer is decided together
  with the effect and must be one to what was asked. So although the code has
  one return code for "full" and "empty", an enqueue can only be refused by a
  full queue and a dequeue only by an empty one. What a thread of `OsKboard` or
  `KboardModule1` has asked (`Asked`) is read off its control point.
* `OsKboard` (`MCOsKboard` for TLC): the system calls of lab1, one action per
  statement that reads or writes a global. When two threads are inside (after
  a racing `kb_init`) the accesses are data races, so a statement may use the
  value its thread loaded earlier or the present one (`CountLoads`,
  `IndexLoads`).
* `KboardHandlers`: the handlers of lab2 without the lock, one action per
  statement on shared state. `++` of a run counter is a load and a store.
  `KboardWriter_Write` refuses a write by its length, by a failing
  `copy_from_user()`, by what `sscanf()` finds, or because the number is
  negative. The buffer is not terminated, so when the text does not end its
  number `sscanf()` may find another one (`Scans`). The count and dump handlers
  take no lock; an observer prints one value per step (`Dumper_Print`).
* `KboardModule1` (`MCKboardModule1` for TLC): the handlers within solution 1.
  It takes the actions of `SyncSolution1` through `INSTANCE` and conjoins them
  with those of `KboardHandlers`: a call with the first `down()`, the body only
  between Enter and Leave, the call of Leave with its first semaphore call.
* `SyncPrograms`: `copy_sync_test` and `paste_sync_test` as two processes that
  make the system calls of `OsKboard` in endless loops. Their `int`s wrap
  around at `INT_MAX`.
* `KboardProc`: the life of the module of lab2. Each call of
  `KboardModuleInit`, `InitializeProc` and `DestroyProc` is an action, beside
  threads that open the files, call their handlers and close them; what a
  handler does is left to `KboardModule1`. The proc file system is external.
  `remove_proc_subtree()` takes the directory out (`Unload_Unlink`), then shuts
  the files one after the other, the newest first (`Unload_Shut`), and waits for
  the handlers of each before it goes on. `proc_remove()` of what is gone already
  does nothing or stops the kernel. `remove_proc_entry()`, by which a failed load
  removes the directory, does neither of the first two to the files below it,
  and the kernel then frees the module: `Load_CreateFails` clears `ready`, and
  the threads with such a file become `lost`. They may still call the handlers
  and return from them, during later loads too, or stop the kernel at any moment
  (`Lost_Stops`). A file that is reached through a directory kept open counts as
  opened before.
* `SyncTest`: `SyncTest.c` composed with `KboardProc`. Its `main` creates the
  threads, joins them, sleeps and returns; each thread forks shells in an
  endless loop, and a shell opens one proc file, makes its call and ends. The
  array slot holds what the code leaves there: `pthread_create()` stores the id,
  and then the code stores its result over it. `pthread_join()` of what is no
  thread, 0 included, is undefined: `main` goes on or is killed. (glibc takes
  the number for an address.) The shells are processes of their own and live on
  when `main` is gone. Other users of the files run beside the test.
* `DataProofs`: lemmas about the operators of the model, what `Down` and `Up` do
  to a semaphore, and what a ring buffer stands for.
* `SyncSolution1Proofs`, `SyncSolution2Proofs`, `SyncSolution3Proofs`,
  `OsKboardProofs`, `SyncProgramsProofs`, `KboardModule1Proofs`,
  `KboardProcProofs`: the theorems about each part and their proofs.
  `KboardProcProofs` also relates `SyncTest` to `KboardProc`.

Left out everywhere: `printk`, the wording of what is printed, `mdelay` (time
passes between any two actions), `PerformDelay`. A return code and the value
passed with it are the `response` of a thread.

## Runs

Each passing run needs between a few seconds and two minutes.

| run | module, bounds | shows |
|---|---|---|
| `solution1` | `SyncSolution1`, 3 readers, 3 writers | `Exclusion`, `BinarySemaphores`, `ReadersShare`, the inductive `LockInvariant`, the refinement `RWSpec` of the lock of turns; `ReaderEntry`: no reader starves; `WriterEntry`: a writer gets in if `ReaderCount` is 0 again and again |
| `solution2` | `SyncSolution2`, 3 readers, 2 writers | the same, with `WritersFirst` (nobody comes through the turnstile while the writers hold it) in place of `ReadersShare`; here no writer starves |
| `solution3_progress` | `SyncSolution3`, 2 readers, 2 writers | the four counts are exact (`CountsExact`), and nobody who called Enter stays asleep |
| `solution3_exclusion` | 2 readers, 1 writer | **violated**: a reader and a writer inside together |
| `lab1_clipboard` | `OsKboard`, 2 threads, ring of 2, values -1, 1, 2 | `MutualExclusion`, `PasteNeverInvalid` (the message of `paste.c:24` is never printed), the refinement `ClipSpec` of the FIFO queue with its refusals, `CallsReturn` |
| `lab1_racing_init` | the same, `kb_init` at any time | **violated**: `Count` is not the number of stored values |
| `lab1_sync_tests` | `SyncPrograms`, one process each, ring of 2, `INT_MAX = 5` | `NoValidationFault`: `paste_sync_test` never reports a fault; `NumbersInTransit`: the clipboard holds exactly the numbers between the two programs; `AllNumbersPass`: the largest `int` comes through (after it every copy is refused) |
| `lab2_module` | `SyncTest` with `KboardProc`, 1 writer thread, 1 reader thread, 1 other user | `InitBeforeUse`: who is in a handler, unless `lost`, finds everything set up; `QuietExit`: rmmod leaves no handler running and no file that can be called; `UnloadEnds`: it is not held up for ever by files kept open or by new calls; `TestEnds`: the joins hold nobody up, and the last shells end too |
| `lab2_service` | `KboardModule1`, 1 reader, 2 writers, ring of 2 | `ClipSpec` for the writer file, `ReaderSeesQueue`, `PerformWriterExact`, `CountNearSlots`: the unlocked count is at most one off the filled slots |
| `lab2_returns` | 1 reader, 1 writer, 1 observer, ring of 1 | `CallsReturn`: every handler returns, those of the dump and count files too |
| `lab2_reader_runs` | 2 readers, 1 writer | **violated**: a run of a reader is not counted |
| `lab2_unended_input` | 1 writer | **violated**: a number is enqueued that was not written |

Why the bounds are enough to be of use: the tests in the solutions tell "first"
and "last" from the others, so two threads of a kind make every branch happen,
and the third lets one sleep behind another that sleeps. A ring of two slots is
empty, partly filled, full and wraps around; the code's size of 5 adds no
branch. `INT_MAX = 0` makes an `int` one bit wide, so that the run counters
wrap around constantly; a single lost increment still shows, since it changes
the last bit. `ran`, the number of runs that really happened, is counted in the
same width. `MaxSurplus` bounds the wake-ups that solution 3 leaves over in its
semaphores: no new call starts while there are more. That guard is not in the
code, so `solution3_progress` does not look for deadlock; its liveness
properties are about calls that have started. `lab2_module` does not either,
since the kernel may stop. The other runs check deadlock. `lab2_returns` makes
do with a ring of one slot because a dump holds every value it has printed; the
ring is then empty or full, so that both early returns happen, and a dump has
five values, which writers change between any two. What the ring does when it
wraps around is the question of `lab2_service`. One writer
thread and one reader thread leave the first of the three arrays of `SyncTest`
empty, since half of one is 0, and fill the others; with the other user there
can be readers that overlap, a writer that waits for them, and a thread with a
file of a failed load beside two of a later one. For the test programs
a ring of 2 and six numbers make the ring wrap around three times and the `int`
once; the two programs treat all numbers alike.

### Fairness

`FairSpec` asks weak fairness of the steps of every thread that is in a call:
the scheduler runs a thread that is not asleep, and the work inside a critical
section is a delay of some milliseconds. It never asks that a thread calls
again. Semaphores need nothing more, for their lists are FIFO. The spinlock of
lab1 is not a list in the model; strong fairness of taking it stands for the
queued spinlocks of the kernel, which serve waiters in order. The test programs
call again by themselves, so there fairness is of every step of a program. In
`SyncTest` the process in insmod or rmmod is run, and so are `main` and the
shells that were forked. Handlers return as `CallsReturn` of `KboardModule1` has
it: a handler of the writer file only if again and again no reader is in its
handler, which is strong fairness of a return at such a moment; the others
without a condition; and the handlers of `lost` threads need not. No thread has
to fork another, and nobody has to load or remove the module. `TestEnds` has the
same condition on readers in front. `UnloadEnds` needs none: the reader file is
shut before the kernel waits for the writer file.
An observer in `KboardModule1` takes no lock and prints on. The condition
`[]<>(ReaderCount = 0)` in `WriterEntry` of solution 1 (and its like in
solution 2) is there because the code does not promise more: readers that
overlap for ever keep writers out.

## What the runs found

1. **Solution 3 does not exclude** (`KboardModule.c:288`, `326`). A woken thread
   enters without looking at the counts again, and a thread that was woken but
   has not run yet still counts as waiting, so wake-ups are sent twice.
2. **`kb_init` during another call** (`os_kboard.c:90`) makes the held spinlock
   new. With `kb_init` alone, as `init.c` is meant to be run, lab1 is right.
3. **`PerformReader++`** (`KboardModule.c:515`) is done by readers that are
   inside together, so counts are lost. `PerformWriter` is exact.
4. **A write that does not end its number** (`KboardModule.c:462`), by a newline
   for instance, may enqueue a longer number made of bytes left on the stack.
   `SyncTest` writes with `echo`, which ends it.

`SyncTest` has two mistakes: its joins are given 0 instead of thread ids
(`SyncTest.c:41`), and its threads never end. What a join of 0 does is undefined;
where it returns an error, the two cancel out and `main` sleeps and returns, and
where it is taken for an address the test dies there. `TestEnds` holds either
way; with the ids kept, which is the mutant of that property, the test would
hang.

A load that fails half way (`KboardModule.c:158`, `167`, `176`, `185`) is safe
only if nobody has opened one of the files created so far: they are not shut,
and the module is freed under them. No document promises anything about it, so
this is a hazard and not a finding; `InitBeforeUse` and `QuietExit` except the
threads it happens to, and hold for all others.

## Proofs

Every theorem is about the whole specification, for every value of the
constants that the named assumptions allow: threads and users in any number,
rings of any size, any arguments and inputs, any width of `int`.

| module | theorem | statement |
|---|---|---|
| `SyncSolution1Proofs` | `TypeCorrect`, `LockInvariance` | `Spec => []TypeOK`, `Spec => []LockInvariant` |
| | `MutualExclusion` | `Spec => []Exclusion` |
| | `SemaphoresBinary`, `ReadersPreferred` | `Spec => []BinarySemaphores`, `Spec => []ReadersShare` |
| | `Refinement` | `Spec => RWSpec`: implements the abstract lock of turns |
| `SyncSolution2Proofs` | `TypeCorrect` | `Spec => []TypeOK` |
| | `MutualExclusion` | `Spec => []Exclusion` |
| | `SemaphoresBinary` | `Spec => []BinarySemaphores` |
| | `WritersPreferred` | `Spec => WritersFirst`, an action property |
| | `Refinement` | `Spec => RWSpec` |
| `SyncSolution3Proofs` | `TypeCorrect`, `CountsCorrect` | `Spec => []TypeOK`, `Spec => []CountsExact` |
| | `MutexExcludes`, `CountsProtected` | `SemaphoreMutex` has one holder, and only that thread changes a count |
| | `OneReaderExcludes` | with at most one reader, `Spec => []Exclusion` |
| `OsKboardProofs` | `TypeCorrect` | `QuietSpec => []TypeOK` |
| | `Mutual`, `PasteValid` | `QuietSpec => []MutualExclusion`, `QuietSpec => []PasteNeverInvalid` |
| | `CountStored` | `QuietSpec => []CountIsStored` |
| | `Refinement` | `QuietSpec => ClipSpec`: implements the FIFO queue |
| `SyncProgramsProofs` | `TestNeverFails`, `NumbersKept` | `ProgramsSpec => []NoValidationFault`, `ProgramsSpec => []NumbersInTransit` |
| | `TestUsesCalls` | `ProgramsSpec => QuietSpec`: what is proved of lab1 holds while the test runs |
| `KboardModule1Proofs` | `TypeCorrect` | `Spec => []TypeOK` |
| | `WriterCountExact`, `ReaderView` | `Spec => []PerformWriterExact`, `Spec => []ReaderSeesQueue` |
| | `CountIsNear` | `Spec => []CountNearSlots` |
| | `Refinement` | `Spec => ClipSpec`: implements the FIFO queue |
| | `LockRefined` | `Spec => Lock!Spec`: implements solution 1 |
| | `RingUndisturbed` | `Spec => RingStable`, an action property |
| | `OneReaderCounted` | with at most one reader, `Spec => []PerformReaderExact` |
| | `EndedInputStored` | if every text ends its number, `Spec => []StoredAsWritten` |
| `KboardProcProofs` | `TypeCorrect`, `SetUpBeforeUse` | `Spec => []TypeOK`, `Spec => []InitBeforeUse` |
| | `ExitIsQuiet` | `Spec => QuietExit`, an action property |
| | `TestUsesModule` | `TestSpec => Spec`: all of this holds while `SyncTest` runs |

Assumptions. The readers of solution 1, and of the module built with it, are a
finite set, disjoint from the writers; in solutions 2 and 3 the writers are
finite too. Finiteness is needed because the counts are numbers; that a count
of threads never exceeds an `int` is not claimed. Rings have at least one slot,
and what is passed to a call is an integer (`ClipAssumption`,
`KboardAssumption`). `QuietSpec` is lab1 with `kb_init` running alone; without
that `MutualExclusion` fails, which is the finding about `os_kboard.c:90`. The
test programs are two threads, and their `int` is any range from
`-INT_MAX - 1` to `INT_MAX` (`ProgramsAssumption`).

Each of the four findings has a theorem that says where it ends. The property
that its run violates is proved under the one condition the counterexample
breaks: `kb_init` alone (`CountStored`), one reader (`OneReaderCounted`, and
`OneReaderExcludes` for solution 3), texts that end their number
(`EndedInputStored`). So nothing else in the code endangers these properties. The
conditions are hypotheses of the theorem, not assumptions of a module, and each
was tried with TLC first.

### Solution 1

`Exclusion` is not inductive: it says nothing about threads that are about to
enter. `LockInvariant` adds

* `SleepersPlaced`: who may sleep where. Only readers sleep for
  `SemaphoreMutex`, at the two places where they take it; for `SemaphoreWriter`
  sleep writers, and the reader that takes it for all.
* `MutexHeld`: `SemaphoreMutex` is held by exactly the one reader that is
  between its `down()` and its `up()` and not asleep.
* `ReadersCounted`: `ReaderCount` is the number of readers between `++` and
  `--`; the one that is about to take `SemaphoreWriter`, or sleeps for it, is
  the only one; when one is about to give it back there is none.
* `WriterHeld`: `SemaphoreWriter` is held by one writer, or by the readers
  together, or its count is 1.

A reader inside is counted, so by `ReadersCounted` nobody is still waiting to
take `SemaphoreWriter` for the group; so the readers hold it, and by
`WriterHeld` no writer does. There is one lemma per action (the two `down()`
and the two `up()` of `SemaphoreMutex` share one each). They rest on the
lemmas of `DataProofs` that say what `Down` and `Up` do to the count and to
the set of sleepers, so that the order of the list never matters. That counts
are those of sets uses the library's facts on finite sets.

`Refinement` does need the order: `WaitingDown`, `WaitingUp` and `UpHead`
(`DataProofs`) say that a `down()` that sleeps appends its party to the line and
that an `up()` hands the semaphore to the head. A party asks at its `down()` of
`SemaphoreWriter`, and by `WriterHeld` the turn is with one party at a time.

### Solution 2

The two groups mirror each other, so the invariant is made of two operators.
`Held(semaphore, single, group)` (`DataProofs`) says that a semaphore is
held by one thread of the first set, or by the threads of the second together,
or has count 1; `Counted` says that a count is the number of threads between
`++` and `--`, that the first is alone while it takes the group's semaphore,
and that nobody is counted when the last gives it back. The invariant is
`Held` for the two mutexes, the turnstile and `SemaphoreWriter`, `Counted` for
both groups, and who sleeps where. `WritersFirst` is about a step, and follows
from `Held` of the turnstile: while the writers share it, no reader holds it.
The refinement is the one of solution 1, on `SemaphoreWriter`; the turnstile and
the mutexes decide who comes to ask, and their steps leave the turns alone.

### Solution 3

The invariant is `CountsExact` with the places of the sleepers and `Held` of
`SemaphoreMutex`. It is inductive without saying anything about
`SemaphoreWriter` and `SemaphoreReader`, which is the point: the counts are
right, and exclusion fails all the same, because a wake-up is not tied to the
counts it was decided on. `CountsProtected` also justifies that a block of
tests and updates between two semaphore calls is one action of the model.

`OneReaderExcludes` shows what is missing. Call it the turn: it is with a thread
that is inside, that is about to pass it on, or that was woken, or it is in a
semaphore as a wake-up that nobody has taken. `OneTurn` says that it is at one
place at most, `Promised` that a wake-up is sent only if somebody of that kind
waits. Both are preserved by every step for any number of writers. The step that
needs the hypothesis is the test at `KboardModule.c:320`: a reader looks for
writers only, so when another reader has been woken and is not yet counted, it
takes a second turn. (The loop at 356 hands out as many turns as readers wait,
which is the other use.)

### The system calls of lab1

The invariant has the spinlock's part (`LockHeld`: it is taken exactly while
one thread is inside), what the thread inside knows (`Knows`: the values it
loaded are still the present ones), the responses (`Answers`) and that
`Contents` is a sequence of stored values. Each action has one lemma with two
conclusions: the invariant holds after it, and it is a step of `ClipQueue` or
none at all. An enqueue takes effect at its `Count++`, a dequeue when the value
reaches the caller. Until then `Asked` holds the request, and the lemmas on it
(`Requested`, `AskedMoves`) say that only the thread's own step changes it. The
arithmetic of the ring is in `DataProofs`: storing
behind the last item and counting appends, clearing the first slot and moving
the index takes the head off, and an index that has gone round leads to the
same slots.

`CountStored` reads the comment at `os_kboard.c:12` off the invariant: when no
call is running, `Contents` has length `Count` and every item is a stored value.

### The test programs of lab1

The programs never call `kb_init`, so each of their steps is one of `QuietSpec`,
and the invariant above holds. What is added (`PInv`) is about numbers. `Copied`
is how many numbers have gone into the clipboard and `Pasted` how many have come
out: what the program has counted, and one more when its running call has
decided to succeed and has not returned. `InTransit` says that `Contents` are
the numbers from `Pasted` up to `Copied`. `NumbersInTransit`, which TLC checks,
says this only between two calls and is not inductive: it is lost within a call.
That a step changes `Contents` just when it decides the response is taken from
the refinement of `ClipQueue`. A value that is handed over is the head of
`Contents`, hence the expected one, also at `INT_MAX`, after which every copy is
refused.

### The handlers of lab2

`LockStep` shows that every step of `KboardModule1` is a step of `SyncSolution1`
or leaves it alone, so the invariant of solution 1 holds and its `Exclusion` is
used (`Alone`, `NoWriter`). `BodyInv` adds what the bodies do under it:

* `WriterKnows`, `ReaderKnows`: a thread is in its body only between Enter and
  Leave, and what it tested or loaded is still so.
* `RingShape`: the slots that are not empty are those from the index on, as many
  as the count, except within an enqueue or a dequeue, where it says by how much
  they are off. `CountNearSlots` and `ReaderSeesQueue` are read off it.
* `LocalsOK`: no slot holds a negative number but the initial value.

Again each action has one lemma with two conclusions, the invariant and the
step of the queue. Here an enqueue takes effect at its count (488), a dequeue
when it loads the item (427). `LockRefined` makes a theorem of `LockStep`, and
`RingStable` says as a property of steps what exclusion is for: the ring changes
only by a writer that is the only thread in its body. `OneReaderCounted` adds
that the value a reader loaded of `PerformReader` is still the present one;
`EndedInputStored` follows a text from `copy_from_user()` to the enqueue.

### The life of the module

The invariant says what exists at each point of `KboardModuleInit` and
`KboardModuleExit` (`Loading`, `Unloading`) and ties the users to it: an open
file is one that is there, or its thread is `lost` (`OpenFiles`). While
`remove_proc_subtree()` shuts the files this is not so, and `HasShut` takes its
place: the files that are not yet shut are those created before the last one
that was, and of that one only running handlers are left, for which the next
step waits. So at the end no file is open but by `lost` threads, which gives
`QuietExit`; and as a file is there only when everything is set up,
`InitBeforeUse` follows. Neither is inductive without `OpenFiles` and `HasShut`.
`TestUsesModule` is a refinement with the identity
mapping: `SyncTest` adds variables and restricts the users.

### Only model-checked

* Liveness (`ReaderEntry`, `WriterEntry`, `CallsReturn`,
  `UnloadEnds`, `TestEnds`, `AllNumbersPass`): the prover does not treat
  fairness.
* What the four violation runs show; that is a behaviour, not a theorem.

## Not modelled

* `lab1/kernel/syscalls.h`, `syscall_64.tbl`, `Makefile`: files of Linux with
  three, three and one lines added, declarations and tables without state.
* The handlers with solutions 2 and 3. They meet a solution only through Enter
  and Leave. Solution 2 implements the same `ReadersWriters` as solution 1, so
  the handlers get nothing else from it; solution 3 does not exclude, so a run
  of the handlers on it would only show that again.
* What `seq_file` does with the text of a handler, and the memory of an open
  file (opened with `single_open`, closed with `seq_release`).
* What a handler does in the memory of a module that was freed by a failed load:
  it may go on or stop the kernel, and no property is about it.
* Time: `mdelay`, `usleep`, and the overflow in the argument of the latter.
  Negative arguments of `SyncTest`.

## State of the project

Every component with state is modelled. Every invariant and every action
property that a passing run checks is proved for all values of the constants,
and so are the refinements of the abstract specifications. What the runs check
and no theorem states is liveness. A reader who changes the code should change
the action that models it, run TLC, and then repair the lemma of that action;
the proofs have one for each.
