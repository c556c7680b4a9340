----------------------------- MODULE MCEvEpoll -----------------------------
(* One fd number with a reader and a writer, and another with a writer of   *)
(* its own; the files behind them, of which epoll refuses C.                *)
EXTENDS EvEpoll

CONSTANTS reader, writer, other, fd1, fd2, A, B, C

FdNumber == [w \in Watchers |-> IF w = other THEN fd2 ELSE fd1]
ReaderWriter ==
  [w \in Watchers |-> IF w = reader THEN {"EV_READ"} ELSE {"EV_WRITE"}]

=============================================================================
