-------------------------------- MODULE Heap --------------------------------
(***************************************************************************)
(* The d-ary heaps of src/ev.c that keep timers and periodics by time:     *)
(* upheap, downheap, adjustheap and reheap, for the 4-heap (EV_USE_4HEAP)  *)
(* and the 2-heap.                                                         *)
(*                                                                         *)
(* A heap state is a record: s.heap is the sequence of ANHEs (watcher and  *)
(* cached time), s.active[w] the position w->active names, 0 when the      *)
(* watcher is inactive.  Position i is the array index i - 1 + HEAP0.      *)
(***************************************************************************)
EXTENDS Naturals, Sequences

CONSTANT DHEAP   \* the branching factor, 4 or 2

ASSUME HeapAssumption == DHEAP \in Nat \ {0, 1}

Parent(i) == (i - 2) \div DHEAP + 1

Children(h, i) ==
  {c \in DHEAP * (i - 1) + 2 .. DHEAP * i + 1 : c <= Len(h)}

\* the first of the smallest children
MinChild(h, i) ==
  CHOOSE c \in Children(h, i) : \A d \in Children(h, i) :
    h[c].at < h[d].at \/ (h[c].at = h[d].at /\ c <= d)

\* Move the element at the start of a path to its end and the others one
\* place towards the start; every move sets the active index of the watcher.
Shift(s, path) ==
  LET n == Len(path)
      Place(i) == CHOOSE j \in 1 .. n : path[j] = i
      OnPath(i) == \E j \in 1 .. n : path[j] = i
      heap == [i \in 1 .. Len(s.heap) |->
                 IF ~OnPath(i) THEN s.heap[i]
                 ELSE IF Place(i) = n THEN s.heap[path[1]]
                 ELSE s.heap[path[Place(i) + 1]]]
      Moved(w) == {j \in 1 .. n : heap[path[j]].w = w}
  IN  [heap   |-> heap,
       active |-> [w \in DOMAIN s.active |->
                     IF Moved(w) = {} THEN s.active[w]
                     ELSE path[CHOOSE j \in Moved(w) : TRUE]]]

\* The places from k on, each followed by next of it, up to one without a next
Route(next, k) ==
  LET route[i \in DOMAIN next] ==
        IF next[i] = 0 THEN <<i>> ELSE <<i>> \o route[next[i]]
  IN  route[k]

\* Where an element with time at goes on to from a place: to the smallest child
\* that is earlier, to a parent that is later
Down(h, at) ==
  [i \in 1 .. Len(h) |->
     IF Children(h, i) = {} \/ at <= h[MinChild(h, i)].at THEN 0 ELSE MinChild(h, i)]

Up(h, at) ==
  [i \in 1 .. Len(h) |-> IF i = 1 \/ h[Parent(i)].at <= at THEN 0 ELSE Parent(i)]

DownHeap(s, k) == Shift(s, Route(Down(s.heap, s.heap[k].at), k))

UpHeap(s, k) == Shift(s, Route(Up(s.heap, s.heap[k].at), k))

\* Bug: an element that takes the place of another only ever sinks.
AdjustHeapDownOnly(s, k) == DownHeap(s, k)

AdjustHeap(s, k) ==
  IF k > 1 /\ s.heap[k].at <= s.heap[Parent(k)].at
    THEN UpHeap(s, k)
    ELSE DownHeap(s, k)

ReHeap(s) ==
  LET up[n \in 0 .. Len(s.heap)] == IF n = 0 THEN s ELSE UpHeap(up[n - 1], n)
  IN  up[Len(s.heap)]

\* ev_timer_start, ev_periodic_start: a new last element moves up.
Insert(s, w, at) ==
  LET n == Len(s.heap) + 1
  IN  UpHeap([heap   |-> Append(s.heap, [w |-> w, at |-> at]),
              active |-> [s.active EXCEPT ![w] = n]], n)

\* ev_timer_stop, ev_periodic_stop: the last element replaces w's.
Delete(s, w) ==
  LET k == s.active[w]
      n == Len(s.heap) - 1
      rest == [s EXCEPT !.heap = SubSeq(@, 1, n)]
      t == IF k <= n
             THEN AdjustHeap([rest EXCEPT !.heap[k] = s.heap[n + 1]], k)
             ELSE rest
  IN  [t EXCEPT !.active[w] = 0]

\* ANHE_at_cache followed by adjustheap
SetAt(s, w, at) ==
  LET k == s.active[w]
  IN  AdjustHeap([s EXCEPT !.heap[k].at = at], k)

-----------------------------------------------------------------------------
\* What verify_heap asserts: the active index of the watcher in a place names
\* that place, and no element is earlier than its parent ...
Indexed(s) == \A i \in 1 .. Len(s.heap) : s.active[s.heap[i].w] = i

Ordered(s) == \A i \in 2 .. Len(s.heap) : s.heap[Parent(i)].at <= s.heap[i].at

\* ... and its converse: an active watcher is in the heap.
ActiveInHeap(s) ==
  \A w \in DOMAIN s.active : s.active[w] # 0 =>
    s.active[w] \in 1 .. Len(s.heap) /\ s.heap[s.active[w]].w = w

HeapOK(s) == Indexed(s) /\ Ordered(s) /\ ActiveInHeap(s)

=============================================================================
