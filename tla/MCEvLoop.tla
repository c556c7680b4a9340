------------------------------ MODULE MCEvLoop ------------------------------
(* The watchers of a run are a subset of these; two priorities, pipe_w has  *)
(* the higher one.                                                          *)
EXTENDS EvLoop

CONSTANTS io1, prepare1, prepare2, check1, fork1, idle1, async1

NestedWatchers == {pipe_w, io1, prepare1, prepare2}
PhaseWatchers == {pipe_w, io1, check1, fork1, idle1, async1}
IoOnly == {pipe_w, io1}

AllKinds ==
  [w \in NestedWatchers \cup PhaseWatchers |->
     CASE w = pipe_w -> "pipe"
       [] w = io1 -> "io"
       [] w \in {prepare1, prepare2} -> "prepare"
       [] w = check1 -> "check"
       [] w = fork1 -> "fork"
       [] w = idle1 -> "idle"
       [] w = async1 -> "async"]

KindOfAll == [w \in Watchers |-> AllKinds[w]]

\* prepare2 is above the others
PriorityOfAll == [w \in Watchers |-> IF w \in {pipe_w, prepare2} THEN 1 ELSE 0]

LoopEvents ==
  {"EV_READ", "EV_PREPARE", "EV_CHECK", "EV_FORK", "EV_IDLE", "EV_ASYNC",
   "EV_CUSTOM"}

None == {}
JustIo == {io1}

=============================================================================
