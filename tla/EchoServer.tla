----------------------------- MODULE EchoServer -----------------------------
(***************************************************************************)
(* examples/c/hsm-echo.c on the engine of examples/c/hsm.c: an echo server *)
(* whose connections are state machines.  One action is one callback of    *)
(* the loop (accept_cb, conn_cb, sig_cb), which runs to its end; between   *)
(* callbacks the peers write, read, shut down and break their connection.  *)
(*                                                                         *)
(* A connection is a record: the struct conn (current state, events armed  *)
(* on its ev_io, whether its fd is open, queue, list links) and its peer.  *)
(* Bytes are numbered by the peer as it writes them.                       *)
(***************************************************************************)
EXTENDS Naturals, Sequences

CONSTANTS
  Conns,
  QUEUE_CAP,
  BUF_SIZE,
  ROOM,        \* what the kernel holds of what the peer has not read
  MaxBytes     \* bound on what a peer writes

ASSUME EchoAssumption ==
  /\ {"NULL", "head"} \cap Conns = {}
  /\ {QUEUE_CAP, BUF_SIZE, ROOM, MaxBytes} \subseteq Nat

VARIABLES
  conn,        \* [Conns -> record]
  conn_head,   \* app->conn_head
  stopped      \* sig_cb has been called

echo_vars == <<conn, conn_head, stopped>>

Tree ==
  [TOP |-> "NULL", ESTABLISHED |-> "TOP", CONNECTED |-> "ESTABLISHED",
   RECEIVING |-> "CONNECTED", FLUSHING |-> "CONNECTED",
   CLOSING |-> "ESTABLISHED", FAILED |-> "ESTABLISHED"]

H == INSTANCE HsmOps WITH States <- DOMAIN Tree, parent <- Tree, NULL <- "NULL"

ConnTables ==
  [RECEIVING   |-> <<H!Trans("DATA", "NULL", "none", "echo", "internal")>>,
   FLUSHING    |-> <<H!Trans("WRITABLE", "NULL", "none", "try_drain", "internal")>>,
   CONNECTED   |-> <<H!Trans("EOF", "CLOSING", "queue_empty", "none", "external")>>,
   CLOSING     |-> <<H!Trans("WRITABLE", "NULL", "none", "try_drain", "internal"),
                     H!Trans("EOF", "NULL", "none", "try_drain", "internal")>>,
   ESTABLISHED |-> <<H!Trans("ERROR", "FAILED", "none", "none", "external")>>,
   TOP         |-> <<>>,
   FAILED      |-> <<>>]

NoConn ==
  [mem |-> "none", current |-> "NULL", armed |-> {}, fd |-> "closed", queue |-> <<>>,
   next |-> "NULL", pp_self |-> "NULL",
   wrote |-> 0, got |-> 0, sent |-> <<>>, read |-> 0, eof |-> FALSE, reset |-> FALSE]

-----------------------------------------------------------------------------
Arm(c, events) == [c EXCEPT !.armed = events]
StopAndClose(c) == [c EXCEPT !.armed = {}, !.fd = "closed"]

\* The entry and exit actions of the states
OnEntry(c, s) ==
  CASE s = "CONNECTED"             -> Arm(c, {"EV_READ"})
    [] s \in {"FLUSHING", "CLOSING"} -> Arm(c, {"EV_READ", "EV_WRITE"})
    [] s = "FAILED"                -> StopAndClose(c)
    [] OTHER                       -> c

OnExit(c, s) == IF s = "ESTABLISHED" THEN StopAndClose(c) ELSE c

\* The states a transition from s to t leaves, and one from t to s enters
Between ==
  [s \in DOMAIN Tree \cup {"NULL"} |-> [t \in DOMAIN Tree \cup {"NULL"} |->
     IF s = t THEN <<s>> ELSE H!Below(s, H!Lca(s, t))]]

\* hsm_perform_transition of hsm.c: exit actions innermost first, entry
\* actions outermost first; current is assigned last.
Perform(c, target) ==
  LET exits == Between[c.current][target]
      entries == Between[target][c.current]
      n == Len(entries)
      left[i \in 0 .. Len(exits)] == IF i = 0 THEN c ELSE OnExit(left[i - 1], exits[i])
      entered[i \in 0 .. n] ==
        IF i = 0 THEN left[Len(exits)] ELSE OnEntry(entered[i - 1], entries[n + 1 - i])
  IN  [entered[n] EXCEPT !.current = target]

Room(c) == ROOM - (Len(c.sent) - c.read)
Taken(c) == IF Room(c) < Len(c.queue) THEN Room(c) ELSE Len(c.queue)

\* try_flush: send until the kernel takes no more.  The peer may break the
\* connection before any of the sends; the one that fails then leaves the queue
\* as it is, with the n bytes the sends before it took.
Sent(c, n) == [c EXCEPT !.sent = @ \o SubSeq(c.queue, 1, n)]
Flushed(c) == [Sent(c, Taken(c)) EXCEPT !.queue = SubSeq(@, Taken(c) + 1, Len(@))]
Broken(c, n) == [Sent(c, n) EXCEPT !.reset = TRUE]

TryFlush(c) ==
  IF c.queue = <<>> THEN {c}
  ELSE IF c.reset THEN {Broken(c, 0)}
  ELSE {Flushed(c)} \cup {Broken(c, n) : n \in 0 .. Taken(c) \ {Len(c.queue)}}

\* It returned -1.
FlushFailed(f) == f.reset /\ f.queue # <<>>

\* act_echo: all of the read or nothing
EchoQueue(c, bytes) ==
  IF Len(bytes) > QUEUE_CAP - Len(c.queue) THEN c
  ELSE [c EXCEPT !.queue = @ \o bytes]

ConnHandler(c, event) ==
  H!Handler(ConnTables, c.current, event, IF c.queue = <<>> THEN {"queue_empty"} ELSE {})

\* hsm_dispatch of an event without an action
DispatchPlain(c, event) ==
  IF ConnHandler(c, event) = <<>> THEN c ELSE Perform(c, Head(ConnHandler(c, event)).target)

\* act_try_drain, which may dispatch EVT_ERROR to the machine it runs in
TryDrain(c) ==
  {IF FlushFailed(f) THEN DispatchPlain(f, "ERROR") ELSE f : f \in TryFlush(c)}

\* hsm_dispatch: what it may make of the connection; bytes is what was received
\* with EVT_DATA.
Dispatch(c, event, bytes) ==
  LET found == ConnHandler(c, event)
  IN  IF found = <<>> THEN {c}
      ELSE CASE Head(found).action = "echo"      -> {EchoQueue(c, bytes)}
             [] Head(found).action = "try_drain" -> TryDrain(c)
             [] OTHER                            -> {Perform(c, Head(found).target)}

-----------------------------------------------------------------------------
\* Bug: a connection in the middle of the list leaves its successor pointing
\* at it.
UnlinkForward(cs, c) ==
  IF cs[c].pp_self = "head" \/ cs[c].pp_self = "NULL" THEN cs
  ELSE [cs EXCEPT ![cs[c].pp_self].next = cs[c].next]

\* The list part of teardown: pp_self names the link that points at c, "head"
\* or the connection whose next it is.
Unlink(cs, c) ==
  LET prev == cs[c].pp_self
      succ == cs[c].next
      fixed == IF succ = "NULL" THEN cs ELSE [cs EXCEPT ![succ].pp_self = prev]
  IN  IF prev = "head" THEN fixed ELSE [fixed EXCEPT ![prev].next = succ]

\* teardown: what is in memory is gone; the peer's side of the record stays.
Freed(c) ==
  [StopAndClose(c) EXCEPT !.mem = "freed", !.next = "NULL", !.pp_self = "NULL"]

Teardown(cs, c) == [Unlink(cs, c) EXCEPT ![c] = Freed(cs[c])]
HeadAfter(c) == IF conn[c].pp_self = "head" THEN conn[c].next ELSE conn_head

\* Put back what conn_cb made of a connection that stays, or tear it down.
Keep(c, r) ==
  /\ conn' = [conn EXCEPT ![c] = r]
  /\ UNCHANGED <<conn_head, stopped>>

Finish(c, r) ==
  /\ conn' = Teardown([conn EXCEPT ![c] = r], c)
  /\ conn_head' = HeadAfter(c)
  /\ UNCHANGED stopped

\* Readable: bytes, the end of the stream or an error; writable: room.
Inbox(c) == c.wrote - c.got
Reported(c) ==
  {e \in c.armed : IF e = "EV_READ" THEN Inbox(c) > 0 \/ c.eof \/ c.reset
                   ELSE Room(c) > 0 \/ c.reset}

\* Closing and drained: the connection ends.
Done(r) == H!IsIn(r.current, "CLOSING") /\ r.queue = <<>>

\* What conn_cb does for EV_WRITE, which is the last thing it does
Writable(c, r) ==
  \E w \in Dispatch(r, "WRITABLE", <<>>) :
      IF Done(w) THEN Finish(c, w)
      ELSE Keep(c, IF H!IsIn(w.current, "CONNECTED") /\ w.queue = <<>>
                     THEN Perform(w, "RECEIVING") ELSE w)

AfterRead(c, r, revents) ==
  IF "EV_WRITE" \in revents THEN Writable(c, r) ELSE Keep(c, r)

\* The state is chosen by the queue.
Settled(f) ==
  IF H!IsIn(f.current, "CLOSING") THEN f
  ELSE Perform(f, IF f.queue # <<>> THEN "FLUSHING" ELSE "RECEIVING")

\* recv returned bytes: queue them, flush, and settle (the choice from one value
\* has TLC compute it once).
Received(c, bytes, revents) ==
  \E d \in Dispatch([conn[c] EXCEPT !.got = @ + Len(bytes)], "DATA", bytes) :
    \E f \in TryFlush(d) :
      IF FlushFailed(f) THEN Finish(c, DispatchPlain(f, "ERROR"))
      ELSE \E r \in {Settled(f)} : AfterRead(c, r, revents)

\* conn_cb, called with the events that are ready
ReadData(c, revents) ==
  /\ "EV_READ" \in revents /\ ~conn[c].reset /\ Inbox(conn[c]) > 0
  /\ \E n \in 1 .. BUF_SIZE :
       /\ n <= Inbox(conn[c])
       /\ Received(c, [i \in 1 .. n |-> conn[c].got + i], revents)

ReadEof(c, revents) ==
  /\ "EV_READ" \in revents /\ ~conn[c].reset /\ Inbox(conn[c]) = 0 /\ conn[c].eof
  /\ \E r \in Dispatch(conn[c], "EOF", <<>>) :
         IF Done(r) THEN Finish(c, r) ELSE AfterRead(c, r, revents)

ReadError(c, revents) ==
  /\ "EV_READ" \in revents /\ conn[c].reset
  /\ Finish(c, DispatchPlain(conn[c], "ERROR"))

WriteOnly(c, revents) ==
  /\ revents = {"EV_WRITE"}
  /\ Writable(c, conn[c])

conn_cb(c) ==
  /\ ~stopped /\ conn[c].mem = "live"
  /\ LET revents == Reported(conn[c])
     IN  \/ ReadData(c, revents)
         \/ ReadEof(c, revents)
         \/ ReadError(c, revents)
         \/ WriteOnly(c, revents)

\* accept_cb for one connection
Accept(c) ==
  /\ ~stopped /\ conn[c].mem = "none"
  /\ LET fresh == [NoConn EXCEPT !.mem = "live", !.fd = "open",
                                 !.next = conn_head, !.pp_self = "head"]
         old == IF conn_head = "NULL" THEN conn
                ELSE [conn EXCEPT ![conn_head].pp_self = c]
     IN  conn' = [old EXCEPT ![c] = Perform(fresh, "RECEIVING")]
  /\ conn_head' = c
  /\ UNCHANGED stopped

\* sig_cb, after which no other callback runs (EVBREAK_ALL), and a turn of its
\* loop: each turn tears down the head of the list.
sig_cb ==
  /\ ~stopped
  /\ stopped' = TRUE
  /\ UNCHANGED <<conn, conn_head>>

sig_cb_turn ==
  /\ stopped /\ conn_head # "NULL"
  /\ Finish(conn_head, conn[conn_head])

Peer(c) ==
  /\ conn[c].mem = "live" /\ conn[c].fd = "open" /\ ~conn[c].reset
  /\ \/ /\ ~conn[c].eof /\ conn[c].wrote < MaxBytes
        /\ conn' = [conn EXCEPT ![c].wrote = @ + 1]
     \/ /\ ~conn[c].eof
        /\ conn' = [conn EXCEPT ![c].eof = TRUE]
     \/ conn' = [conn EXCEPT ![c].reset = TRUE]
  /\ UNCHANGED <<conn_head, stopped>>

PeerReads(c) ==
  /\ conn[c].read < Len(conn[c].sent)
  /\ conn' = [conn EXCEPT ![c].read = @ + 1]
  /\ UNCHANGED <<conn_head, stopped>>

EchoInit ==
  /\ conn = [c \in Conns |-> NoConn]
  /\ conn_head = "NULL"
  /\ stopped = FALSE

EchoNext ==
  \/ \E c \in Conns : conn_cb(c) \/ Accept(c) \/ Peer(c) \/ PeerReads(c)
  \/ sig_cb \/ sig_cb_turn

EchoSpec == EchoInit /\ [][EchoNext]_echo_vars

EchoFairness == \A c \in Conns : WF_echo_vars(conn_cb(c)) /\ WF_echo_vars(PeerReads(c))

Live == {c \in Conns : conn[c].mem = "live"}

(***************************************************************************)
(* The links of the intrusive list (accept_cb, teardown) join exactly the  *)
(* connections that are allocated: each pp_self names the one link that    *)
(* points at its connection, so that sig_cb's loop ends and no teardown    *)
(* writes into a freed connection.                                         *)
(***************************************************************************)
ListIntact ==
  /\ (conn_head = "NULL") = (Live = {})
  /\ \A c \in Live :
       /\ conn[c].next # "NULL" =>
            conn[c].next \in Live /\ conn[conn[c].next].pp_self = c
       /\ IF conn[c].pp_self = "head" THEN conn_head = c
          ELSE conn[c].pp_self \in Live /\ conn[conn[c].pp_self].next = c

(***************************************************************************)
(* Between callbacks the state of a connection says what conn_cb has to    *)
(* wait for: in RECEIVING the queue is empty, in FLUSHING it is not and    *)
(* EV_WRITE is armed.  In FAILED, where a failed try_drain leaves it, it   *)
(* is closed and waits for nothing but sig_cb.  None is ever found in      *)
(* CLOSING: the end of the stream enters it with an empty queue only, and  *)
(* the same callback tears the connection down.                            *)
(***************************************************************************)
StateFitsQueue ==
  \A c \in Live :
    /\ conn[c].current \in {"RECEIVING", "FLUSHING", "FAILED"}
    /\ conn[c].current = "RECEIVING" => conn[c].queue = <<>>
    /\ conn[c].current = "FLUSHING" => conn[c].queue # <<>> /\ "EV_WRITE" \in conn[c].armed
    /\ conn[c].current = "FAILED" =>
         conn[c].reset /\ conn[c].armed = {} /\ conn[c].fd = "closed"

(***************************************************************************)
(* What the peer is sent is what it wrote, in that order and each byte at  *)
(* most once: try_flush's partial sends and act_echo's dropped reads leave *)
(* gaps at most.  What is queued goes on where the peer was left, until    *)
(* try_flush fails: the queue then also has what its last sends took, and  *)
(* no more of it is sent.                                                  *)
(***************************************************************************)
EchoedInOrder ==
  \A c \in Conns :
    LET out == IF conn[c].current = "FAILED" THEN conn[c].sent
               ELSE conn[c].sent \o conn[c].queue
    IN  /\ \A i \in 1 .. Len(out) : out[i] <= conn[c].got
        /\ \A i \in 2 .. Len(out) : out[i - 1] < out[i]

(***************************************************************************)
(* The connections between callbacks: their list, their states and their   *)
(* bytes (ListIntact, StateFitsQueue and EchoedInOrder).                   *)
(***************************************************************************)
ConnectionsConsistent == ListIntact /\ StateFitsQueue /\ EchoedInOrder

(***************************************************************************)
(* A connection that ends for another reason than an error or the signal   *)
(* has sent everything it queued: conn_cb finishes only when the queue is  *)
(* drained, whatever the peer's end of stream overtakes.                   *)
(***************************************************************************)
EndsDrained ==
  [][\A c \in Conns :
       /\ conn[c].mem = "live" /\ conn'[c].mem = "freed"
       /\ ~conn'[c].reset /\ ~stopped
       => conn'[c].queue = <<>>]_echo_vars

(***************************************************************************)
(* Once the peer has ended its stream, its connection is torn down, if the *)
(* peer keeps reading.                                                     *)
(***************************************************************************)
EofEnds ==
  \A c \in Conns :
    conn[c].eof /\ conn[c].mem = "live" ~>
      conn[c].mem = "freed" \/ conn[c].reset \/ stopped

(***************************************************************************)
(* The comment of act_echo (hsm-echo.c:179) says that a read is dropped    *)
(* only when the peer outruns the server by more than QUEUE_CAP between    *)
(* flush attempts: what is lost did not fit.                               *)
(***************************************************************************)
LossOnlyWhenFull ==
  [][\A c \in Conns :
       LET taken == conn'[c].got - conn[c].got
           queued == Len(conn'[c].sent \o conn'[c].queue)
                       - Len(conn[c].sent \o conn[c].queue)
       IN  taken > 0 /\ ~conn'[c].reset /\ queued < taken
             => Len(conn[c].queue) + taken > QUEUE_CAP]_echo_vars

=============================================================================
