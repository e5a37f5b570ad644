------------------------------ MODULE Semaphore ------------------------------
(***************************************************************************)
(* The counting semaphore of the Linux kernel, as lab2/KboardModule.c uses *)
(* it: a count and a list of sleeping threads.  down() takes a unit if one *)
(* is there and otherwise puts the caller at the END of the list, asleep;  *)
(* up() hands its unit to the thread at the HEAD of the list and only      *)
(* raises the count when nobody sleeps.  down() cannot be interrupted.     *)
(*                                                                         *)
(* Down and Up are functions from a semaphore to the next one.  A thread   *)
(* in the list has already moved its control point past the down() it is   *)
(* in, and takes no step until an Up removes it from the list.             *)
(***************************************************************************)
EXTENDS Naturals, Sequences

Semaphores(P) == [count : Nat, wait_list : Seq(P)]

InitializeSemaphore(value) == [count |-> value, wait_list |-> << >>]

(* The threads asleep in down(). *)
Sleepers(sema) == {sema.wait_list[i] : i \in DOMAIN sema.wait_list}

(* The list, with f of each thread in its place.                           *)
Waiting(sema, f) == [i \in DOMAIN sema.wait_list |-> f[sema.wait_list[i]]]

(* Nobody is in the list twice, and nobody sleeps while a unit is left.    *)
WellFormed(sema) ==
  /\ \A i, j \in DOMAIN sema.wait_list : sema.wait_list[i] = sema.wait_list[j] => i = j
  /\ sema.count > 0 => sema.wait_list = << >>

Down(sema, p) ==
  IF sema.count > 0
    THEN [sema EXCEPT !.count = @ - 1]
    ELSE [sema EXCEPT !.wait_list = Append(@, p)]

Up(sema) ==
  IF sema.wait_list = << >>
    THEN [sema EXCEPT !.count = @ + 1]
    ELSE [sema EXCEPT !.wait_list = Tail(@)]

=============================================================================
