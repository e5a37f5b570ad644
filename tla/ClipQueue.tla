------------------------------ MODULE ClipQueue ------------------------------
(***************************************************************************)
(* What the clipboard promises its callers, in both labs: a bounded FIFO   *)
(* queue whose operations take effect one at a time.  A thread asks for an *)
(* operation; the operation decides its response together with its effect  *)
(* on the queue; the thread returns with the response.                     *)
(***************************************************************************)
EXTENDS Naturals, Sequences

CONSTANTS Threads, Items,
          Capacity,            \* how many items the clipboard holds
          OK, FULL, EMPTY,     \* return codes
          REFUSED,             \* the codes of calls with unusable arguments
          FAULT                \* the code of a copy that did not reach the caller

VARIABLES queue,
          asked,      \* what a thread has asked for, << >> if nothing is undecided
          response    \* what it is going to be told, << >> if nothing is decided

Requests == {<<"enqueue", v>> : v \in Items} \cup {<<"dequeue">>, <<"reset">>}

Init ==
  /\ queue = << >>
  /\ asked = [t \in Threads |-> << >>]
  /\ response = [t \in Threads |-> << >>]

Idle(t) == asked[t] = << >> /\ response[t] = << >>

Ask(t, request) ==
  /\ Idle(t)
  /\ asked' = [asked EXCEPT ![t] = request]
  /\ UNCHANGED <<queue, response>>

(* A call with unusable arguments asks for nothing.                        *)
Refuse(t, code) ==
  /\ Idle(t)
  /\ response' = [response EXCEPT ![t] = <<code>>]
  /\ UNCHANGED <<queue, asked>>

Decide(t, request, r) ==
  /\ asked[t] = request
  /\ asked' = [asked EXCEPT ![t] = << >>]
  /\ response' = [response EXCEPT ![t] = r]

Enqueue(t, v) ==
  /\ Len(queue) < Capacity
  /\ queue' = Append(queue, v)
  /\ Decide(t, <<"enqueue", v>>, <<OK, v>>)

EnqueueFull(t, v) ==
  /\ Len(queue) = Capacity
  /\ Decide(t, <<"enqueue", v>>, <<FULL>>)
  /\ UNCHANGED queue

Dequeue(t) ==
  /\ queue # << >>
  /\ queue' = Tail(queue)
  /\ Decide(t, <<"dequeue">>, <<OK, Head(queue)>>)

DequeueEmpty(t) ==
  /\ queue = << >>
  /\ Decide(t, <<"dequeue">>, <<EMPTY>>)
  /\ UNCHANGED queue

DequeueFault(t) ==
  /\ queue # << >>
  /\ Decide(t, <<"dequeue">>, <<FAULT>>)
  /\ UNCHANGED queue

Reset(t) == queue' = << >> /\ Decide(t, <<"reset">>, <<OK>>)

Return(t) ==
  /\ response[t] # << >>
  /\ response' = [response EXCEPT ![t] = << >>]
  /\ UNCHANGED <<queue, asked>>

Next ==
  \E t \in Threads :
    \/ \E request \in Requests : Ask(t, request)
    \/ \E code \in REFUSED : Refuse(t, code)
    \/ \E v \in Items : Enqueue(t, v) \/ EnqueueFull(t, v)
    \/ Dequeue(t) \/ DequeueEmpty(t) \/ DequeueFault(t)
    \/ Reset(t)
    \/ Return(t)

Spec == Init /\ [][Next]_<<queue, asked, response>>
=============================================================================
