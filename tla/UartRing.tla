------------------------------ MODULE UartRing ------------------------------
(***************************************************************************)
(* examples/c/uart-hsm/uart-ring-hsm.c: a thread in the role of the UART   *)
(* interrupt pushes frames in chunks into the ring and pokes the loop with *)
(* ev_async_send; the loop drains the ring into the parser, in the async   *)
(* watcher's callback and in that of a timer.  That a sent async event is  *)
(* seen by the loop is EvPipe's subject; here it is a flag.                *)
(***************************************************************************)
EXTENDS Spsc, SequencesExt

CONSTANTS
  Byte, DataMax, HEADER, TAIL,   \* see HsmParser
  Tests,      \* tests: the <<cmd_class, cmd>> of the frames that are sent
  POKE,       \* ISR_POKE_COUNT, the bytes of a chunk
  POP         \* the size of drain_ring's buf

VARIABLES
  isr,        \* the thread: frame i of Tests, what is left of it to send; its step
  running,    \* app->running
  wake,       \* app->wake is pending
  cb,         \* the loop thread: where the callback is that it is in
  buf,        \* drain_ring's buf: what the parser has yet to get of it
  dropped,    \* app->dropped
  parser,     \* app->parser
  frames      \* what frame_cb was called with

app_vars == <<isr, running, wake, cb, buf, dropped, parser, frames>>
ring_vars == <<isr, running, wake, cb, buf, dropped, parser, frames, spsc_vars>>

P == INSTANCE HsmParser WITH line <- <<>>

Wire(i) == P!BuildFrame(Tests[i][1], Tests[i][2], <<>>)
Start(i) == [i |-> i, left |-> IF i <= Len(Tests) THEN Wire(i) ELSE <<>>, step |-> "push"]
Chunk == SubSeq(isr.left, 1, spsc_queue_min(POKE, Len(isr.left)))

Init ==
  /\ SpscCreate
  /\ isr = Start(1)
  /\ running = TRUE
  /\ wake = FALSE
  /\ cb = "none"
  /\ buf = <<>>
  /\ dropped = 0
  /\ parser = P!InitParser
  /\ frames = <<>>

-----------------------------------------------------------------------------
\* isr_thread: one interrupt pushes a chunk, or counts what finds no room ...
IsrPushes ==
  /\ isr.step = "push" /\ isr.i <= Len(Tests)
  /\ PushStarts(Chunk)
  /\ isr' = [isr EXCEPT !.step = "copy"]
  /\ UNCHANGED <<running, wake, cb, buf, dropped, parser, frames>>

IsrDrops ==
  /\ isr.step = "push" /\ isr.i <= Len(Tests)
  /\ PushFails(Chunk)
  /\ dropped' = dropped + Len(Chunk)
  /\ isr' = [isr EXCEPT !.step = "send"]
  /\ UNCHANGED <<running, wake, cb, buf, parser, frames>>

IsrCopies ==
  /\ isr.step = "copy"
  /\ \/ PushCopies /\ UNCHANGED isr
     \/ PushStores /\ UNCHANGED isr
     \/ PushReturns /\ isr' = [isr EXCEPT !.step = "send"]
  /\ UNCHANGED <<running, wake, cb, buf, dropped, parser, frames>>

\* ... and wakes the loop.
IsrSends ==
  /\ isr.step = "send"
  /\ wake' = TRUE
  /\ LET left == SubSeq(isr.left, Len(Chunk) + 1, Len(isr.left))
     IN  isr' = IF left # <<>>
                  THEN [isr EXCEPT !.left = left, !.step = "push"]
                  ELSE Start(isr.i + 1)
  /\ UNCHANGED <<running, cb, buf, dropped, parser, frames, spsc_vars>>

\* The last frame is out: running is cleared before the last send.
IsrEnds ==
  /\ isr.step = "push" /\ isr.i > Len(Tests)
  /\ running' = FALSE
  /\ isr' = [isr EXCEPT !.step = "last"]
  /\ UNCHANGED <<wake, cb, buf, dropped, parser, frames, spsc_vars>>

IsrLastSend ==
  /\ isr.step = "last"
  /\ wake' = TRUE
  /\ isr' = [isr EXCEPT !.step = "exit"]
  /\ UNCHANGED <<running, cb, buf, dropped, parser, frames, spsc_vars>>

-----------------------------------------------------------------------------
\* The loop calls wake_cb, or drain_cb when the timer expires.
LoopCalls ==
  /\ cb = "none"
  /\ \/ wake /\ wake' = FALSE
     \/ UNCHANGED wake
  /\ cb' = "drain"
  /\ UNCHANGED <<isr, running, buf, dropped, parser, frames, spsc_vars>>

\* drain_ring: pop until the ring is empty, and feed the parser.
DrainPops ==
  /\ cb = "drain" /\ ~pop.on
  /\ PopStarts(POP)
  /\ UNCHANGED app_vars

DrainCopies ==
  /\ cb = "drain"
  /\ PopCopies \/ PopStores
  /\ UNCHANGED app_vars

DrainGot ==
  /\ cb = "drain"
  /\ PopReturns
  /\ buf' = pop.data
  /\ cb' = "feed"
  /\ UNCHANGED <<isr, running, wake, dropped, parser, frames>>

\* hsm_parser_put_data, one byte; a whole frame is handed to frame_cb.
DrainFeeds ==
  /\ cb = "feed"
  /\ LET p == P!PutByte(parser, Head(buf))
     IN  /\ parser' = p
         /\ frames' = IF p.out = "frame" THEN Append(frames, p.frame) ELSE frames
  /\ buf' = Tail(buf)
  /\ cb' = IF Len(buf) = 1 THEN "drain" ELSE "feed"
  /\ UNCHANGED <<isr, running, wake, dropped, spsc_vars>>

DrainEnds ==
  /\ cb = "drain" /\ ~pop.on /\ Used(tail, head) = 0
  /\ cb' = "check"
  /\ UNCHANGED <<isr, running, wake, buf, dropped, parser, frames, spsc_vars>>

\* Nothing more will come and nothing is left.
MayBreak == ~running /\ Used(tail, head) = 0

CheckBreak ==
  /\ cb = "check"
  /\ cb' = IF MayBreak THEN "broken" ELSE "none"
  /\ UNCHANGED <<isr, running, wake, buf, dropped, parser, frames, spsc_vars>>

\* main has joined the thread and ends.
Ended ==
  /\ cb = "broken" /\ isr.step = "exit"
  /\ UNCHANGED ring_vars

Isr == IsrPushes \/ IsrDrops \/ IsrCopies \/ IsrSends \/ IsrEnds \/ IsrLastSend
Loop == LoopCalls \/ DrainPops \/ DrainCopies \/ DrainGot \/ DrainFeeds \/ DrainEnds \/ CheckBreak

Next == Isr \/ Loop \/ Ended

-----------------------------------------------------------------------------
(***************************************************************************)
(* When the loop has left ev_run nothing is lost between the interrupt and *)
(* the parser: the ring is empty, and if no chunk was dropped every frame  *)
(* was delivered, in order.                                                *)
(***************************************************************************)
AllDelivered ==
  cb = "broken" =>
    /\ popped = Len(pushed)
    /\ dropped = 0 => frames = [i \in 1 .. Len(Tests) |->
                                  P!Frame(Tests[i][1], Tests[i][2], <<>>)]

(***************************************************************************)
(* The program ends: the loop breaks and the thread returns.  The thread   *)
(* and the loop run, and the timer expires again and again.                *)
(***************************************************************************)
ProgramEnds == <>(cb = "broken" /\ isr.step = "exit")

=============================================================================
