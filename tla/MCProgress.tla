----------------------------- MODULE MCProgress -----------------------------
(***************************************************************************)
(* What must go on: nested ev_runs, the delivery of signals and children,  *)
(* an embedded loop, and the example programs with their state machines.   *)
(* They have no state in common, and this run looks at one after the       *)
(* other: part says which instance takes steps, the variables of the       *)
(* others stay as they are initially.  The instances are small, as what    *)
(* they do in the end depends on fairness.                                 *)
(***************************************************************************)
EXTENDS MCEvLoop, EvEmbed, Hsm, FileWriter

CONSTANTS
  l1, v1, child0, childev, USR, CHLD,    \* signals
  top, conn, rx, tx, fail,                     \* the states of a machine
  c1                                           \* a connection

VARIABLES
  part,
  signals, sig_pending, sigfd_set, handled, blocked, arrived, childs, sig_q, news, rstatus, owed,
  count,
  parser, line,
  isr, running, wake, cb, buf, dropped, ring_parser, received,
  head, tail, buffer, push, pop, pushed, popped,
  connections, conn_head, stopped

loop_vars ==
  <<q, active, arrays, activecnt, sent, async_pending, pipe_write_skipped, pipe, postfork,
    loop_done, runs, blocking, ready, gathered, refs, unforked, broken>>
signal_vars ==
  <<signals, sig_pending, sigfd_set, handled, blocked, arrived, childs, sig_q, news, rstatus,
    owed, count>>
parser_vars == <<parser, line>>
ring_vars ==
  <<isr, running, wake, cb, buf, dropped, ring_parser, received,
    head, tail, buffer, push, pop, pushed, popped>>
echo_vars == <<connections, conn_head, stopped>>

-----------------------------------------------------------------------------
\* A watcher of a signal, and one of any of two children
Sig == INSTANCE EvSignal WITH
  Loops <- {l1}, DefaultLoop <- l1, SIGNALFD <- {}, SIGCHLD <- CHLD,
  signum <- (v1 :> USR @@ childev :> CHLD), pid <- (child0 :> 0), TRACE <- {child0},
  Pids <- {1, 2}, EV_PID_HASHSIZE <- 1, MaxSignals <- 2,
  Watchers <- {v1, child0, childev}, NUMPRI <- 2, Flags <- {"EV_SIGNAL", "EV_CHILD"},
  q <- sig_q

\* rx and tx in conn, conn and fail in top; with a guard, an internal transition,
\* one of a state to itself, one an outer state handles and one to an outer state
MachineParent == top :> NULL @@ conn :> top @@ rx :> conn @@ tx :> conn @@ fail :> top
MachineTables ==
  LET Tr(event, target, guard, type) == Trans(event, target, guard, "act", type) IN
  rx :> <<Tr("a", tx, "g", "external"), Tr("b", NULL, "none", "internal")>>
  @@ tx :> <<Tr("a", tx, "none", "external")>>
  @@ conn :> <<Tr("b", fail, "none", "external")>>
  @@ fail :> <<Tr("a", rx, "none", "external")>>
  @@ top :> <<Tr("b", conn, "none", "external")>>

Parser == INSTANCE HsmParser WITH Byte <- 4, DataMax <- 4, HEADER <- 2, TAIL <- 1

\* Two frames through a ring that holds less than one of them, with the barrier
\* and as spsc_queue.h defines it
Ring == INSTANCE UartRing WITH
  Byte <- 4, DataMax <- 4, HEADER <- 2, TAIL <- 1, Tests <- <<<<1, 2>>, <<2, 3>>>>, POKE <- 3,
  POP <- 3, Size <- 4, Mod <- 8, BARRIER <- TRUE,
  parser <- ring_parser, frames <- received

Unordered == INSTANCE UartRing WITH
  Byte <- 4, DataMax <- 4, HEADER <- 2, TAIL <- 1, Tests <- <<<<1, 2>>>>, POKE <- 3,
  POP <- 3, Size <- 4, Mod <- 8, BARRIER <- FALSE,
  parser <- ring_parser, frames <- received

Echo == INSTANCE EchoServer WITH
  Conns <- {c1}, QUEUE_CAP <- 2, BUF_SIZE <- 2, ROOM <- 1, MaxBytes <- 2, conn <- connections

-----------------------------------------------------------------------------
MCInit ==
  /\ part \in {"loop", "signal", "embed", "hsm", "parser", "ring", "unordered",
             "echo", "files"}
  /\ Init
  /\ Sig!SignalInit
  /\ EmbedInit
  /\ HsmZero
  /\ Parser!Init
  /\ IF part = "unordered" THEN Unordered!Init ELSE Ring!Init
  /\ Echo!EchoInit
  /\ FwInit

NotLoop == UNCHANGED <<part, signal_vars, embed_vars, hsm_vars, parser_vars, ring_vars, echo_vars,
                       fw_vars>>
NotSignal == UNCHANGED <<part, loop_vars, embed_vars, hsm_vars, parser_vars, ring_vars, echo_vars,
                         fw_vars>>
NotEmbed == UNCHANGED <<part, loop_vars, signal_vars, hsm_vars, parser_vars, ring_vars, echo_vars,
                        fw_vars>>
NotHsm == UNCHANGED <<part, loop_vars, signal_vars, embed_vars, parser_vars, ring_vars, echo_vars,
                      fw_vars>>
NotParser == UNCHANGED <<part, loop_vars, signal_vars, embed_vars, hsm_vars, ring_vars, echo_vars,
                         fw_vars>>
NotRing == UNCHANGED <<part, loop_vars, signal_vars, embed_vars, hsm_vars, parser_vars, echo_vars,
                       fw_vars>>
NotEcho == UNCHANGED <<part, loop_vars, signal_vars, embed_vars, hsm_vars, parser_vars, ring_vars,
                       fw_vars>>
NotFiles == UNCHANGED <<part, loop_vars, signal_vars, embed_vars, hsm_vars, parser_vars,
                        ring_vars, echo_vars>>

\* These two programs may stop: the server once sig_cb has torn down all of its
\* connections, the file writer when main returns.
Finished ==
  /\ \/ part = "echo" /\ stopped /\ conn_head = "NULL"
     \/ part = "files" /\ main = "end"
  /\ NotLoop /\ UNCHANGED loop_vars

MCNext ==
  \/ part = "loop" /\ Next /\ NotLoop
  \/ part = "signal" /\ Sig!SignalNext /\ NotSignal
  \/ part = "embed" /\ EmbedNext /\ NotEmbed
  \/ part = "hsm" /\ HsmNext /\ NotHsm
  \/ part = "parser" /\ Parser!Next /\ NotParser
  \/ part = "ring" /\ Ring!Next /\ NotRing
  \/ part = "unordered" /\ Unordered!Next /\ NotRing
  \/ part = "echo" /\ Echo!EchoNext /\ NotEcho
  \/ part = "files" /\ FwNext /\ NotFiles
  \/ Finished

mc_vars ==
  <<part, loop_vars, signal_vars, embed_vars, hsm_vars, parser_vars, ring_vars, echo_vars, fw_vars>>

\* The fairness of FairSpec, SignalFairness, EmbedFairness, EchoFairness and
\* FwFairness; of both rings, the thread and the loop run.
MCFairness ==
  /\ WF_loop_vars(part = "loop" /\ LoopStep)
  /\ WF_signal_vars(part = "signal" /\ Sig!LoopStep(l1))
  /\ WF_embed_vars(part = "embed" /\ BothLoops)
  /\ WF_ring_vars(part = "ring" /\ Ring!Isr)
  /\ WF_ring_vars(part = "ring" /\ Ring!Loop)
  /\ WF_ring_vars(part = "unordered" /\ Unordered!Isr)
  /\ WF_ring_vars(part = "unordered" /\ Unordered!Loop)
  /\ WF_echo_vars(part = "echo" /\ Echo!conn_cb(c1))
  /\ WF_echo_vars(part = "echo" /\ Echo!PeerReads(c1))
  /\ WF_fw_vars(part = "files" /\ Worker)
  /\ WF_fw_vars(part = "files" /\ Main)

MCSpec == MCInit /\ [][MCNext]_mc_vars /\ MCFairness

-----------------------------------------------------------------------------
(***************************************************************************)
(* Signals that arrive are delivered, children that change are waited for, *)
(* and what is ready in an embedded loop is handled (SignalSeen and        *)
(* AllReaped of EvSignal, SweepReaches of EvEmbed).                        *)
(***************************************************************************)
AllDelivered == Sig!SignalSeen /\ Sig!AllReaped /\ SweepReaches

(***************************************************************************)
(* From the interrupt to the callback: no byte is lost, repeated or read   *)
(* before it is written, if the build orders the copy and the index; with  *)
(* the header's empty barrier, the indices still count what was stored and *)
(* released (NoRace, InOrder and CountedRight of Spsc, AllDelivered of     *)
(* UartRing).  The parser delivers every whole frame and nothing else,     *)
(* until a frame announces and sends more than frame.data holds, which is  *)
(* stored behind it (FramesGetThrough, OnlyWholeFrames and                 *)
(* OverrunsIfTooLong of HsmParser).  From a peer and back, through partial *)
(* writes, bytes stay in their order (ConnectionsConsistent of             *)
(* EchoServer).                                                            *)
(***************************************************************************)
BytesDelivered ==
  /\ part = "ring" => Ring!NoRace /\ Ring!InOrder /\ Ring!CountedRight /\ Ring!AllDelivered
  /\ part = "unordered" => Unordered!CountedRight
  /\ part = "parser" =>
       Parser!FramesGetThrough /\ Parser!OnlyWholeFrames /\ Parser!OverrunsIfTooLong
  /\ part = "echo" => Echo!ConnectionsConsistent

(***************************************************************************)
(* The example programs come to their end, but for the file writer when    *)
(* its kick for the fsync is lost, and no connection ends without what it  *)
(* was to send (ProgramEnds of UartRing, EofEnds and EndsDrained of        *)
(* EchoServer, EndsUnlessKickLost of FileWriter).                          *)
(***************************************************************************)
ProgramsEnd ==
  /\ part = "ring" => Ring!ProgramEnds
  /\ part = "unordered" => Unordered!ProgramEnds
  /\ Echo!EofEnds /\ Echo!EndsDrained
  /\ EndsUnlessKickLost

=============================================================================
