------------------------------- MODULE MCHeap -------------------------------
(***************************************************************************)
(* One operation on every heap of at most MaxLen elements with times in    *)
(* 0 .. MaxAt.  The operations treat all watchers alike, so the watcher in *)
(* place i may be called i.                                                *)
(***************************************************************************)
EXTENDS Heap, FiniteSets

CONSTANTS MaxLen, MaxAt

Elements == 1 .. MaxLen + 1

VARIABLES before, after, op

vars == <<before, after, op>>

Bag(s) == {s.heap[i] : i \in 1 .. Len(s.heap)}

InitialHeap(ats) ==
  [heap   |-> [i \in 1 .. Len(ats) |-> [w |-> i, at |-> ats[i]]],
   active |-> [w \in Elements |-> IF w <= Len(ats) THEN w ELSE 0]]

Init ==
  /\ \E n \in 0 .. MaxLen : \E ats \in [1 .. n -> 0 .. MaxAt] :
       before = InitialHeap(ats)
  /\ after = before
  /\ op = "none"

Do(name, result) ==
  /\ op = "none"
  /\ op' = name
  /\ after' = result
  /\ UNCHANGED before

DoInsert ==
  /\ Ordered(before)
  /\ \E at \in 0 .. MaxAt :
       Do("insert", Insert(before, Len(before.heap) + 1, at))

DoRemove ==
  /\ Ordered(before)
  /\ \E w \in 1 .. Len(before.heap) : Do("remove", Delete(before, w))

DoSetAt ==
  /\ Ordered(before)
  /\ \E w \in 1 .. Len(before.heap), at \in 0 .. MaxAt :
       Do("set", SetAt(before, w, at))

DoReHeap == Do("reheap", ReHeap(before))

Next == DoInsert \/ DoRemove \/ DoSetAt \/ DoReHeap

Spec == Init /\ [][Next]_vars

(***************************************************************************)
(* Every operation of upheap, downheap, adjustheap and reheap leaves a     *)
(* heap with correct indices (verify_heap), whatever was replaced by what: *)
(* an element that fills a hole may have to go up or down.                 *)
(***************************************************************************)
ResultIsHeap == op # "none" => HeapOK(after)

(***************************************************************************)
(* No operation loses or duplicates a watcher or changes another's time.   *)
(***************************************************************************)
NothingLost ==
  /\ op = "reheap" => Bag(after) = Bag(before)
  /\ op = "insert" => Bag(before) \subseteq Bag(after)
  /\ op \in {"remove", "set"} => Cardinality(Bag(before) \ Bag(after)) <= 1
  /\ Cardinality(Bag(after)) = Len(after.heap)

=============================================================================
