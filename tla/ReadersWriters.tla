--------------------------- MODULE ReadersWriters ---------------------------
(***************************************************************************)
(* What the Enter and Leave functions of solutions 1 and 2 promise: a lock *)
(* that goes from party to party in the order they asked for it.  A writer *)
(* is a party of its own, the readers are one party together: they ask     *)
(* once for all of them, come and go while it is their turn, and pass the  *)
(* turn on only when none of them is inside.                               *)
(***************************************************************************)
EXTENDS Sequences

CONSTANTS Readers, Writers

VARIABLES turn,     \* the party whose turn it is, {} if nobody's
          line,     \* the parties waiting, in the order they asked
          inside    \* the threads in their critical section

Parties == {Readers} \cup {{w} : w \in Writers}

Init == turn = {} /\ line = << >> /\ inside = {}

(* A party that has not asked yet asks for the lock.                       *)
Ask(p) ==
  /\ p # turn
  /\ \A i \in DOMAIN line : line[i] # p
  /\ IF turn = {} THEN turn' = p /\ UNCHANGED line
                  ELSE line' = Append(line, p) /\ UNCHANGED turn
  /\ UNCHANGED inside

Start(t) ==
  /\ t \in turn \ inside
  /\ inside' = inside \cup {t}
  /\ UNCHANGED <<turn, line>>

(* A reader leaves the turn to the readers that are left or still come.    *)
LeaveReader(r) ==
  /\ r \in inside
  /\ inside' = inside \ {r}
  /\ UNCHANGED <<turn, line>>

Pass ==
  IF line = << >> THEN turn' = {} /\ UNCHANGED line
                  ELSE turn' = Head(line) /\ line' = Tail(line)

PassReaders ==
  /\ turn = Readers /\ inside = {}
  /\ Pass
  /\ UNCHANGED inside

LeaveWriter(w) ==
  /\ turn = {w} /\ inside = {w}
  /\ inside' = {}
  /\ Pass

Next ==
  \/ \E p \in Parties : Ask(p)
  \/ \E t \in Readers \cup Writers : Start(t)
  \/ \E r \in Readers : LeaveReader(r)
  \/ PassReaders
  \/ \E w \in Writers : LeaveWriter(w)

Spec == Init /\ [][Next]_<<turn, line, inside>>
=============================================================================
