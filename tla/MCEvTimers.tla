----------------------------- MODULE MCEvTimers -----------------------------
(***************************************************************************)
(* The binary heap of three timers of one priority, through every sequence *)
(* of operations; and every 4-heap of up to ten elements, through one.     *)
(* They have no state in common: part says which of them takes steps, the  *)
(* other one waits in an initial state.                                    *)
(***************************************************************************)
EXTENDS EvTimers

CONSTANTS t1, t2, t3, MaxLen, MaxAt

VARIABLES part, before, after, op

ThreeTimers == {t1, t2, t3}
TimerEvents == {"EV_TIMER", "EV_CUSTOM"}

OneStep == INSTANCE MCHeap WITH DHEAP <- 4

heap_vars == <<before, after, op>>
timer_vars == <<timers, at, repeat, mn_now, q, rfeeds, phase, due>>

TimersInit ==
  /\ part = "timers" /\ Init
  /\ before = OneStep!InitialHeap(<<>>) /\ after = before /\ op = "none"

HeapInit ==
  /\ part = "heap" /\ OneStep!Init
  /\ Init
  /\ at = [w \in Watchers |-> 0] /\ repeat = [w \in Watchers |-> 0]

MCInit == TimersInit \/ HeapInit

MCNext ==
  /\ \/ part = "timers" /\ Next /\ UNCHANGED heap_vars
     \/ part = "heap" /\ OneStep!Next /\ UNCHANGED timer_vars
     \/ part = "heap" /\ op # "none" /\ UNCHANGED <<heap_vars, timer_vars>>
  /\ UNCHANGED part

MCSpec == MCInit /\ [][MCNext]_<<part, heap_vars, timer_vars>>

(***************************************************************************)
(* Every operation on every heap leaves a heap with correct indices and no *)
(* other times or watchers (ResultIsHeap and NothingLost of MCHeap).       *)
(***************************************************************************)
HeapOperations == part = "heap" => OneStep!ResultIsHeap /\ OneStep!NothingLost

=============================================================================
