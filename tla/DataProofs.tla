----------------------------- MODULE DataProofs -----------------------------
(***************************************************************************)
(* Lemmas about the two data structures of the models: the semaphores and  *)
(* the ring buffer.                                                        *)
(*                                                                         *)
(* Semaphores: what Down and Up do to a well-formed one, said of its count *)
(* and of the set of its sleepers, and of the order of its list for the    *)
(* refinements of ReadersWriters.                                          *)
(*                                                                         *)
(* Ring: the sequence that a ring buffer stands for, and what the          *)
(* statements of enqueue and dequeue do to it.  Both labs keep their items *)
(* so: length of them from slot first on, modulo the size of the ring.     *)
(***************************************************************************)
EXTENDS Semaphore, Integers, SequenceTheorems, TLAPS

(* A fresh semaphore (InitializeSemaphore) is well-formed and nobody       *)
(* sleeps on it.                                                           *)
LEMMA InitializeFacts ==
  ASSUME NEW P, NEW n \in Nat
  PROVE  /\ InitializeSemaphore(n) \in Semaphores(P)
         /\ WellFormed(InitializeSemaphore(n))
         /\ Sleepers(InitializeSemaphore(n)) = {}
         /\ InitializeSemaphore(n).count = n
  BY DEF InitializeSemaphore, Semaphores, WellFormed, Sleepers

(* down(): the caller takes a unit and nobody sleeps, or there is none and *)
(* the caller sleeps.                                                      *)
LEMMA DownFacts ==
  ASSUME NEW P, NEW s \in Semaphores(P), NEW p \in P,
         WellFormed(s), p \notin Sleepers(s)
  PROVE  /\ Down(s, p) \in Semaphores(P)
         /\ WellFormed(Down(s, p))
         /\ \/ /\ s.count > 0 /\ Sleepers(s) = {}
               /\ Down(s, p).count = s.count - 1 /\ Sleepers(Down(s, p)) = {}
            \/ /\ s.count = 0
               /\ Down(s, p).count = 0 /\ Sleepers(Down(s, p)) = Sleepers(s) \cup {p}
<1>1. CASE s.count > 0
  BY <1>1 DEF Down, Semaphores, WellFormed, Sleepers
<1>2. CASE ~(s.count > 0)
  <2> DEFINE q == s.wait_list
             d == Append(q, p)
  <2>1. s.count = 0 /\ q \in Seq(P)
    BY <1>2 DEF Semaphores
  <2>2. Down(s, p) = [count |-> 0, wait_list |-> d]
    BY <2>1 DEF Down, Semaphores
  <2>3. /\ d \in Seq(P) /\ Len(d) = Len(q) + 1 /\ DOMAIN d = 1 .. Len(q) + 1
        /\ DOMAIN q = 1 .. Len(q) /\ Len(q) \in Nat
        /\ \A i \in 1 .. Len(q) : d[i] = q[i]
        /\ d[Len(q) + 1] = p
    BY <2>1
  <2>4. \A i \in DOMAIN q : q[i] # p
    BY DEF Sleepers
  <2>5. \A i, j \in DOMAIN d : d[i] = d[j] => i = j
    <3>1. \A i, j \in DOMAIN q : q[i] = q[j] => i = j
      BY DEF WellFormed
    <3> HIDE DEF d, q
    <3> QED  BY <2>3, <2>4, <3>1
  <2>6. {d[i] : i \in DOMAIN d} = {q[i] : i \in DOMAIN q} \cup {p}
    <3> HIDE DEF d, q
    <3> QED  BY <2>3
  <2>7. Down(s, p) \in Semaphores(P)
    BY <2>2, <2>3 DEF Semaphores
  <2>8. WellFormed(Down(s, p)) /\ Down(s, p).count = 0
    BY <2>2, <2>5 DEF WellFormed
  <2>9. Sleepers(Down(s, p)) = Sleepers(s) \cup {p}
    BY <2>2, <2>6 DEF Sleepers
  <2> QED  BY <2>1, <2>7, <2>8, <2>9
<1> QED  BY <1>1, <1>2

(* up() with a sleeper: the one at the head of the list gets the unit.     *)
LEMMA UpHead ==
  ASSUME NEW P, NEW s \in Semaphores(P), WellFormed(s), s.wait_list # << >>
  PROVE  /\ Up(s) \in Semaphores(P) /\ WellFormed(Up(s))
         /\ s.count = 0 /\ Up(s).count = 0
         /\ Up(s).wait_list = Tail(s.wait_list)
         /\ Head(s.wait_list) \in Sleepers(s)
         /\ Sleepers(Up(s)) = Sleepers(s) \ {Head(s.wait_list)}
<1> DEFINE q == s.wait_list
           d == Tail(q)
           h == Head(q)
<1>1. s.count = 0 /\ q \in Seq(P)
  BY DEF Semaphores, WellFormed
<1>2. Up(s) = [count |-> 0, wait_list |-> d]
  BY <1>1 DEF Up, Semaphores
<1>3. /\ d \in Seq(P) /\ Len(q) \in Nat /\ Len(q) > 0
      /\ DOMAIN q = 1 .. Len(q) /\ DOMAIN d = 1 .. Len(q) - 1
      /\ \A i \in 1 .. Len(q) - 1 : d[i] = q[i + 1]
      /\ h = q[1]
  BY <1>1
<1>4. \A i, j \in DOMAIN q : q[i] = q[j] => i = j
  BY DEF WellFormed
<1>5. \A i, j \in DOMAIN d : d[i] = d[j] => i = j
  <2> HIDE DEF d, q
  <2> QED  BY <1>3, <1>4
<1>6. {d[i] : i \in DOMAIN d} = {q[i] : i \in DOMAIN q} \ {h}
  <2>1. ASSUME NEW i \in DOMAIN d PROVE d[i] \in {q[j] : j \in DOMAIN q} \ {h}
    <3>1. i + 1 \in DOMAIN q /\ 1 \in DOMAIN q /\ i + 1 # 1 /\ d[i] = q[i + 1]
      <4> HIDE DEF d, q
      <4> QED  BY <1>3
    <3>2. q[i + 1] # q[1]
      BY <1>4, <3>1
    <3> QED  BY <3>1, <3>2
  <2>2. ASSUME NEW j \in DOMAIN q, q[j] # h PROVE q[j] \in {d[i] : i \in DOMAIN d}
    <3>1. j - 1 \in DOMAIN d /\ d[j - 1] = q[j]
      <4> HIDE DEF d, q
      <4> QED  BY <2>2, <1>3
    <3> HIDE DEF d, q
    <3> QED  BY <3>1
  <2> HIDE DEF d, q, h
  <2> QED  BY <2>1, <2>2
<1>7. Up(s) \in Semaphores(P)
  BY <1>2, <1>3 DEF Semaphores
<1>8. WellFormed(Up(s)) /\ Up(s).count = 0
  BY <1>2, <1>5 DEF WellFormed
<1>9. Sleepers(Up(s)) = Sleepers(s) \ {h}
  <2>1. Up(s).wait_list = d
    BY <1>2
  <2> QED  BY <1>6, <2>1 DEF Sleepers
<1>10. h \in Sleepers(s)
  BY <1>3 DEF Sleepers
<1>11. Up(s).wait_list = Tail(s.wait_list)
  BY <1>2
<1> QED  BY <1>1, <1>7, <1>8, <1>9, <1>10, <1>11

(* up(): a sleeper, if there is one, gets the unit; otherwise it is left   *)
(* for the next down().                                                    *)
LEMMA UpFacts ==
  ASSUME NEW P, NEW s \in Semaphores(P), WellFormed(s)
  PROVE  /\ Up(s) \in Semaphores(P)
         /\ WellFormed(Up(s))
         /\ \/ /\ Sleepers(s) = {}
               /\ Up(s).count = s.count + 1 /\ Sleepers(Up(s)) = {}
            \/ /\ s.count = 0 /\ Up(s).count = 0
               /\ \E h \in Sleepers(s) : Sleepers(Up(s)) = Sleepers(s) \ {h}
<1>1. CASE s.wait_list = << >>
  BY <1>1 DEF Up, Semaphores, WellFormed, Sleepers
<1>2. CASE s.wait_list # << >>
  BY <1>2, UpHead
<1> QED  BY <1>1, <1>2

(* down() puts a caller that sleeps at the end of the list, seen through   *)
(* f too.                                                                  *)
LEMMA WaitingDown ==
  ASSUME NEW P, NEW s \in Semaphores(P), NEW p \in P, NEW f
  PROVE  /\ s.count > 0 => Waiting(Down(s, p), f) = Waiting(s, f)
         /\ s.count = 0 => Waiting(Down(s, p), f) = Append(Waiting(s, f), f[p])
<1> DEFINE q == s.wait_list
           m == [i \in 1 .. Len(q) |-> f[q[i]]]
           U == {f[x] : x \in P}
<1>1. q \in Seq(P) /\ s.count \in Nat
  BY DEF Semaphores
<1>2. Waiting(s, f) = m
  BY <1>1 DEF Waiting
<1>3. ASSUME s.count > 0 PROVE Waiting(Down(s, p), f) = Waiting(s, f)
  BY <1>3 DEF Down, Waiting, Semaphores
<1>4. ASSUME s.count = 0 PROVE Waiting(Down(s, p), f) = Append(Waiting(s, f), f[p])
  <2>1. Down(s, p).wait_list = Append(q, p)
    BY <1>1, <1>4 DEF Down, Semaphores
  <2>2. DOMAIN Append(q, p) = 1 .. Len(q) + 1
    BY <1>1
  <2>3. Waiting(Down(s, p), f) = [i \in 1 .. Len(q) + 1 |-> f[Append(q, p)[i]]]
    BY <2>1, <2>2 DEF Waiting
  <2>4. m \in Seq(U) /\ Len(m) = Len(q)
    BY <1>1
  <2>5. [i \in 1 .. Len(q) + 1 |-> f[Append(q, p)[i]]] = Append(m, f[p])
    BY <1>1, <2>4
  <2> QED  BY <1>2, <2>3, <2>5
<1> QED  BY <1>3, <1>4

(* up() takes the head off the list, seen through f too.                   *)
LEMMA WaitingUp ==
  ASSUME NEW P, NEW s \in Semaphores(P), WellFormed(s), NEW f
  PROVE  /\ s.wait_list = << >> => Waiting(s, f) = << >> /\ Waiting(Up(s), f) = << >>
         /\ s.wait_list # << >> =>
              /\ Waiting(s, f) # << >>
              /\ Waiting(Up(s), f) = Tail(Waiting(s, f))
              /\ f[Head(s.wait_list)] = Head(Waiting(s, f))
<1> DEFINE q == s.wait_list
           m == [i \in 1 .. Len(q) |-> f[q[i]]]
           U == {f[x] : x \in P}
<1>1. q \in Seq(P)
  BY DEF Semaphores
<1>2. Waiting(s, f) = m
  BY <1>1 DEF Waiting
<1>3. ASSUME q = << >> PROVE Waiting(s, f) = << >> /\ Waiting(Up(s), f) = << >>
  <2>1. Up(s).wait_list = << >>
    BY <1>3 DEF Up, Semaphores
  <2> QED  BY <1>3, <2>1 DEF Waiting
<1>4. ASSUME q # << >>
      PROVE  /\ m # << >>
             /\ Waiting(Up(s), f) = Tail(m)
             /\ f[Head(q)] = Head(m)
  <2>1. Up(s).wait_list = Tail(q)
    BY <1>4, UpHead
  <2>2. Len(q) \in Nat \ {0} /\ DOMAIN Tail(q) = 1 .. Len(q) - 1
    BY <1>1, <1>4
  <2>3. Waiting(Up(s), f) = [i \in 1 .. Len(q) - 1 |-> f[Tail(q)[i]]]
    BY <2>1, <2>2 DEF Waiting
  <2>4. m \in Seq(U) /\ Len(m) = Len(q) /\ m # << >>
    <3>1. m \in Seq(U) /\ Len(m) = Len(q)
      BY <1>1
    <3> QED  BY <2>2, <3>1
  <2>5. [i \in 1 .. Len(q) - 1 |-> f[Tail(q)[i]]] = Tail(m) /\ f[Head(q)] = Head(m)
    BY <1>1, <1>4, <2>2, <2>4
  <2> QED  BY <2>3, <2>4, <2>5
<1> QED  BY <1>2, <1>3, <1>4

(* A semaphore used as a binary one, with at most one holder: one thread   *)
(* of H, or the threads of G together.                                     *)
Held(sema, H, G) ==
  /\ sema.count <= 1
  /\ \A h1, h2 \in H : h1 = h2
  /\ H = {} \/ G = {}
  /\ sema.count = 1 <=> H = {} /\ G = {}

(* down() of such a semaphore: the caller is its holder, for itself or for *)
(* its group, or it sleeps and the holder is the same.                     *)
LEMMA DownHeld ==
  ASSUME NEW P, NEW s \in Semaphores(P), NEW p \in P, WellFormed(s), p \notin Sleepers(s),
         NEW H, NEW G, Held(s, H, G)
  PROVE  /\ Down(s, p) \in Semaphores(P)
         /\ WellFormed(Down(s, p))
         /\ \/ /\ H = {} /\ G = {} /\ Sleepers(s) = {} /\ Sleepers(Down(s, p)) = {}
               /\ Held(Down(s, p), {p}, {}) /\ Held(Down(s, p), {}, {p})
            \/ /\ H # {} \/ G # {}
               /\ Sleepers(Down(s, p)) = Sleepers(s) \cup {p} /\ Held(Down(s, p), H, G)
<1> DEFINE d == Down(s, p)
<1>1. /\ d \in Semaphores(P) /\ WellFormed(d)
      /\ \/ s.count > 0 /\ Sleepers(s) = {} /\ d.count = s.count - 1 /\ Sleepers(d) = {}
         \/ s.count = 0 /\ d.count = 0 /\ Sleepers(d) = Sleepers(s) \cup {p}
  BY DownFacts
<1>2. s.count \in Nat
  BY DEF Semaphores
<1> HIDE DEF d
<1>3. CASE s.count > 0
  <2>1. s.count = 1 /\ H = {} /\ G = {} /\ d.count = 0 /\ Sleepers(s) = {} /\ Sleepers(d) = {}
    BY <1>1, <1>2, <1>3 DEF Held
  <2>2. Held(d, {p}, {}) /\ Held(d, {}, {p})
    BY <2>1 DEF Held
  <2> QED  BY <1>1, <2>1, <2>2 DEF d
<1>4. CASE s.count = 0
  <2>1. (H # {} \/ G # {}) /\ d.count = s.count /\ Sleepers(d) = Sleepers(s) \cup {p}
    BY <1>1, <1>4 DEF Held
  <2>2. Held(d, H, G)
    BY <2>1 DEF Held
  <2> QED  BY <1>1, <2>1, <2>2 DEF d
<1> QED  BY <1>2, <1>3, <1>4

(* up() of such a semaphore by its holder: the thread it wakes is the next *)
(* holder, for itself or for its group, or there is none.                  *)
LEMMA UpHeld ==
  ASSUME NEW P, NEW s \in Semaphores(P), WellFormed(s),
         NEW H, NEW G, Held(s, H, G), H # {} \/ G # {}
  PROVE  /\ Up(s) \in Semaphores(P)
         /\ WellFormed(Up(s))
         /\ \/ Sleepers(s) = {} /\ Sleepers(Up(s)) = {} /\ Held(Up(s), {}, {})
            \/ \E h \in Sleepers(s) : /\ Sleepers(Up(s)) = Sleepers(s) \ {h}
                                      /\ Held(Up(s), {h}, {}) /\ Held(Up(s), {}, {h})
<1> DEFINE u == Up(s)
<1>1. s.count = 0
  BY DEF Held, Semaphores
<1>2. /\ u \in Semaphores(P) /\ WellFormed(u)
      /\ \/ Sleepers(s) = {} /\ u.count = 1 /\ Sleepers(u) = {}
         \/ u.count = 0 /\ \E h \in Sleepers(s) : Sleepers(u) = Sleepers(s) \ {h}
  BY <1>1, UpFacts
<1> HIDE DEF u
<1>3. u.count = 1 => Held(u, {}, {})
  BY DEF Held
<1>4. u.count = 0 => \A h : Held(u, {h}, {}) /\ Held(u, {}, {h})
  BY DEF Held
<1> QED  BY <1>2, <1>3, <1>4 DEF u
-----------------------------------------------------------------------------
SlotAt(size, i) == i % size

RingContents(ring, size, first, length) ==
  [i \in 1 .. length |-> ring[SlotAt(size, first + i - 1)]]

(* The index arithmetic of the code goes round at most once.               *)
LEMMA SlotOnce ==
  ASSUME NEW n \in Nat \ {0}, NEW a \in 0 .. 2 * n - 1
  PROVE  /\ SlotAt(n, a) = IF a < n THEN a ELSE a - n
         /\ SlotAt(n, a) \in 0 .. n - 1
  BY DEF SlotAt

(* The contents are a sequence of length items, whatever the slots hold.   *)
LEMMA ContentsType ==
  ASSUME NEW n, NEW ring, NEW first, NEW length \in Nat, NEW S,
         \A i \in 1 .. length : ring[SlotAt(n, first + i - 1)] \in S
  PROVE  /\ RingContents(ring, n, first, length) \in Seq(S)
         /\ Len(RingContents(ring, n, first, length)) = length
         /\ \A i \in 1 .. length :
              RingContents(ring, n, first, length)[i] = ring[SlotAt(n, first + i - 1)]
  BY DEF RingContents

(* And back: what the sequence holds is what its slots hold.               *)
LEMMA ContentsSlots ==
  ASSUME NEW n, NEW ring, NEW first, NEW length \in Nat, NEW S,
         RingContents(ring, n, first, length) \in Seq(S)
  PROVE  /\ Len(RingContents(ring, n, first, length)) = length
         /\ \A i \in 1 .. length : ring[SlotAt(n, first + i - 1)] \in S
<1> DEFINE q == RingContents(ring, n, first, length)
<1>1. q = [i \in 1 .. length |-> ring[SlotAt(n, first + i - 1)]]
  BY DEF RingContents
<1> HIDE DEF q
<1>2. q \in Seq(S) /\ DOMAIN q = 1 .. length
  BY <1>1 DEF q
<1>3. Len(q) = length
  BY <1>2
<1>4. \A i \in 1 .. length : q[i] \in S
  BY <1>2, <1>3
<1> QED  BY <1>1, <1>3, <1>4 DEF q

(* A store into the slot behind the last item and a count that is one      *)
(* higher append the item (os_kboard.c:40-41, KboardModule.c:487-488).     *)
LEMMA ContentsAppend ==
  ASSUME NEW n \in Nat \ {0}, NEW ring, NEW S,
         NEW first \in 0 .. n - 1, NEW length \in 0 .. n - 1,
         \A i \in 1 .. length + 1 : ring[SlotAt(n, first + i - 1)] \in S
  PROVE  RingContents(ring, n, first, length + 1)
           = Append(RingContents(ring, n, first, length), ring[SlotAt(n, first + length)])
<1> DEFINE q == RingContents(ring, n, first, length)
           r == RingContents(ring, n, first, length + 1)
           v == ring[SlotAt(n, first + length)]
<1>1. /\ q \in Seq(S) /\ Len(q) = length /\ length \in Nat
      /\ \A i \in 1 .. length : q[i] = ring[SlotAt(n, first + i - 1)]
  BY DEF RingContents
<1>2. /\ r \in Seq(S) /\ Len(r) = length + 1
      /\ \A i \in 1 .. length + 1 : r[i] = ring[SlotAt(n, first + i - 1)]
  BY DEF RingContents
<1>3. first + (length + 1) - 1 = first + length
  OBVIOUS
<1>4. v \in S
  BY <1>3
<1> HIDE DEF q, r, v
<1>5. \A i \in 1 .. length + 1 : r[i] = IF i = length + 1 THEN v ELSE q[i]
  BY <1>1, <1>2, <1>3 DEF v
<1>6. /\ Append(q, v) \in Seq(S) /\ Len(Append(q, v)) = length + 1
      /\ \A i \in 1 .. length + 1 : Append(q, v)[i] = r[i]
  BY <1>1, <1>4, <1>5
<1>7. r = Append(q, v)
  BY <1>2, <1>6, SeqEqual
<1> QED  BY <1>7 DEF q, r, v

(* A store into the slot behind the last item does not change the items.   *)
LEMMA ContentsKept ==
  ASSUME NEW n \in Nat \ {0}, NEW ring, NEW changed,
         NEW first \in 0 .. n - 1, NEW length \in 0 .. n - 1,
         \A j \in 0 .. n - 1 : j # SlotAt(n, first + length) => changed[j] = ring[j]
  PROVE  RingContents(changed, n, first, length) = RingContents(ring, n, first, length)
<1>1. ASSUME NEW i \in 1 .. length
      PROVE  changed[SlotAt(n, first + i - 1)] = ring[SlotAt(n, first + i - 1)]
  <2>1. /\ SlotAt(n, first + i - 1) # SlotAt(n, first + length)
        /\ SlotAt(n, first + i - 1) \in 0 .. n - 1
    BY SlotOnce
  <2> QED  BY <2>1
<1> QED  BY <1>1 DEF RingContents

(* Without its first item the sequence starts one slot later.              *)
LEMMA ContentsTail ==
  ASSUME NEW n \in Nat \ {0}, NEW ring, NEW S,
         NEW first \in 0 .. n - 1, NEW length \in 1 .. n,
         \A i \in 1 .. length : ring[SlotAt(n, first + i - 1)] \in S
  PROVE  /\ RingContents(ring, n, first, length) # << >>
         /\ Head(RingContents(ring, n, first, length)) = ring[first]
         /\ Tail(RingContents(ring, n, first, length))
              = RingContents(ring, n, first + 1, length - 1)
<1> DEFINE q == RingContents(ring, n, first, length)
           r == RingContents(ring, n, first + 1, length - 1)
<1>1. q \in Seq(S) /\ Len(q) = length
      /\ \A i \in 1 .. length : q[i] = ring[SlotAt(n, first + i - 1)]
  <2>1. length \in Nat
    OBVIOUS
  <2> QED  BY <2>1 DEF RingContents
<1>2. r = [i \in 1 .. length - 1 |-> ring[SlotAt(n, (first + 1) + i - 1)]]
  BY DEF RingContents
<1>3. ASSUME NEW i \in 1 .. length - 1 PROVE r[i] = q[i + 1]
  <2>1. (first + 1) + i - 1 = first + (i + 1) - 1 /\ i + 1 \in 1 .. length
    OBVIOUS
  <2> HIDE DEF q, r
  <2> QED  BY <1>1, <1>2, <2>1
<1>4. SlotAt(n, first + 1 - 1) = first
  BY SlotOnce
<1> HIDE DEF q, r
<1>5. q # << >> /\ Head(q) = q[1] /\ q[1] = ring[first]
  BY <1>1, <1>4
<1>6. /\ Tail(q) \in Seq(S) /\ Len(Tail(q)) = length - 1
      /\ \A i \in 1 .. length - 1 : Tail(q)[i] = q[i + 1]
  BY <1>1, <1>5, HeadTailProperties
<1>7. r \in Seq(S) /\ Len(r) = length - 1
  <2>1. \A i \in 1 .. length - 1 : q[i + 1] \in S
    BY <1>1
  <2>2. r = [i \in 1 .. length - 1 |-> q[i + 1]]
    BY <1>2, <1>3
  <2> QED  BY <2>1, <2>2
<1>8. r = Tail(q)
  BY <1>3, <1>6, <1>7, SeqEqual
<1> QED  BY <1>5, <1>8 DEF q, r

(* The slot of the item that was taken out is free for any value           *)
(* (os_kboard.c:74, KboardModule.c:428).                                   *)
LEMMA ContentsCleared ==
  ASSUME NEW n \in Nat \ {0}, NEW ring, NEW changed,
         NEW first \in 0 .. n - 1, NEW length \in 1 .. n,
         \A j \in 0 .. n - 1 : j # first => changed[j] = ring[j]
  PROVE  RingContents(changed, n, first + 1, length - 1)
           = RingContents(ring, n, first + 1, length - 1)
<1>1. ASSUME NEW i \in 1 .. length - 1
      PROVE  changed[SlotAt(n, (first + 1) + i - 1)] = ring[SlotAt(n, (first + 1) + i - 1)]
  <2>1. SlotAt(n, (first + 1) + i - 1) # first /\ SlotAt(n, (first + 1) + i - 1) \in 0 .. n - 1
    BY SlotOnce
  <2> QED  BY <2>1
<1> QED  BY <1>1 DEF RingContents

(* An index that has gone round leads to the same slots.                   *)
LEMMA SlotWrapped ==
  ASSUME NEW n \in Nat \ {0}, NEW first \in 0 .. n - 1, NEW i \in 1 .. n - 1
  PROVE  SlotAt(n, SlotAt(n, first + 1) + i - 1) = SlotAt(n, (first + 1) + i - 1)
<1>1. SlotAt(n, first + 1) = IF first + 1 < n THEN first + 1 ELSE 0
  BY SlotOnce
<1>2. CASE first + 1 < n
  BY <1>1, <1>2
<1>3. CASE first + 1 = n
  <2>1. SlotAt(n, 0 + i - 1) = i - 1
    BY SlotOnce
  <2>2. SlotAt(n, (first + 1) + i - 1) = i - 1
    BY <1>3, SlotOnce
  <2> QED  BY <1>1, <1>3, <2>1, <2>2
<1> QED  BY <1>2, <1>3

(* Moving the index on, modulo the size, changes nothing (os_kboard.c:78,  *)
(* KboardModule.c:430).                                                    *)
LEMMA ContentsWrapped ==
  ASSUME NEW n \in Nat \ {0}, NEW ring, NEW first \in 0 .. n - 1, NEW length \in 0 .. n - 1
  PROVE  RingContents(ring, n, SlotAt(n, first + 1), length)
           = RingContents(ring, n, first + 1, length)
<1>1. \A i \in 1 .. length :
        SlotAt(n, SlotAt(n, first + 1) + i - 1) = SlotAt(n, (first + 1) + i - 1)
  BY SlotWrapped
<1> QED  BY <1>1 DEF RingContents
=============================================================================
