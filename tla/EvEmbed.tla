------------------------------ MODULE EvEmbed -------------------------------
(***************************************************************************)
(* ev_embed watchers (src/ev.c): an inner loop whose backend_fd is an fd   *)
(* of an outer loop.  The embed watcher is three watchers of the outer     *)
(* loop: an io watcher that sweeps the inner loop, a prepare watcher that  *)
(* brings its kernel state up to date before the outer one blocks, and a   *)
(* fork watcher.  Of the two loops the model has what ties them together:  *)
(* which fds the inner loop's watchers want, what its kernel state is told *)
(* and which open file of it the outer kernel state watches.               *)
(***************************************************************************)
EXTENDS Naturals

CONSTANTS
  InnerFds,
  EMBED_RECREATES,  \* the inner kernel state may be replaced while it is watched: epoll
                    \* asks for it, or it is embedded before it is run after a fork
  MaxBackends       \* bound: open files the inner backend_fd may stand for

VARIABLES
  wanted,      \* fds with active watchers in the inner loop
  changes,     \* the inner fdchanges
  told,        \* what its kernel state is told
  backend,     \* the open file behind its backend_fd
  inner_postfork, outer_postfork,
  inner_ready,   \* the fds that are ready
  inner_pending, \* the inner loop's pending watchers, by fd
  embedded,    \* whether the embed watcher is active
  io_changed,  \* its io watcher's fd is in the outer fdchanges
  io_told,     \* the open file the outer kernel state watches, 0 if none
  io_pending,
  pc, from     \* what runs, and what has called ev_run for the inner loop

embed_vars ==
  <<wanted, changes, told, backend, inner_postfork, outer_postfork, inner_ready, inner_pending,
    embedded, io_changed, io_told, io_pending, pc, from>>

inner == <<wanted, changes, told, backend, inner_postfork, inner_pending>>
io == <<io_changed, io_told, io_pending>>

EmbedInit ==
  /\ wanted = {} /\ changes = {} /\ told = {} /\ backend = 1 /\ inner_postfork = FALSE
  /\ outer_postfork = FALSE /\ inner_ready = {} /\ inner_pending = {} /\ embedded = FALSE
  /\ io_changed = FALSE /\ io_told = 0 /\ io_pending = FALSE
  /\ pc = "user" /\ from = "none"

-----------------------------------------------------------------------------
\* The program, also in callbacks of either loop

UserCode == pc \in {"user", "prepare", "callbacks"}

InnerIoStart(f) ==
  /\ UserCode /\ f \notin wanted
  /\ wanted' = wanted \cup {f} /\ changes' = changes \cup {f}
  /\ UNCHANGED <<told, backend, inner_postfork, outer_postfork, inner_ready, inner_pending,
                 embedded, io, pc, from>>

InnerIoStop(f) ==
  /\ UserCode /\ f \in wanted
  /\ wanted' = wanted \ {f} /\ changes' = changes \cup {f} /\ inner_pending' = inner_pending \ {f}
  /\ UNCHANGED <<told, backend, inner_postfork, outer_postfork, inner_ready, embedded, io,
                 pc, from>>

EvEmbedStart ==
  /\ pc = "user" /\ ~embedded /\ embedded' = TRUE /\ io_changed' = TRUE
  /\ inner_postfork => EMBED_RECREATES
  /\ UNCHANGED <<inner, outer_postfork, inner_ready, io_told, io_pending, pc, from>>

EvEmbedStop ==
  /\ pc = "user" /\ embedded /\ embedded' = FALSE /\ io_changed' = TRUE /\ io_pending' = FALSE
  /\ UNCHANGED <<inner, outer_postfork, inner_ready, io_told, pc, from>>

\* The process forks and calls ev_loop_fork for the outer loop; for the inner
\* one as well if it is not embedded.
Fork ==
  /\ pc = "user" /\ backend < MaxBackends /\ ~outer_postfork
  /\ outer_postfork' = TRUE /\ inner_postfork' = (inner_postfork \/ ~embedded)
  /\ UNCHANGED <<wanted, changes, told, backend, inner_ready, inner_pending, embedded, io,
                 pc, from>>

BecomesReady(f) ==
  /\ f \notin inner_ready /\ inner_ready' = inner_ready \cup {f}
  /\ UNCHANGED <<inner, outer_postfork, embedded, io, pc, from>>

-----------------------------------------------------------------------------
\* ev_run (inner, EVRUN_NOWAIT)

Sweep(caller) == pc' = "sweep" /\ from' = caller

\* loop_fork, fd_reify and the poll
InnerIterate ==
  /\ pc = "sweep"
  /\ backend' = IF inner_postfork THEN backend + 1 ELSE backend
  /\ told' = wanted /\ changes' = {} /\ inner_pending' = wanted \cap inner_ready
  /\ \/ inner_postfork' = FALSE
     \/ EMBED_RECREATES /\ backend + 1 < MaxBackends /\ inner_postfork' = TRUE
  /\ pc' = "callbacks"
  /\ UNCHANGED <<wanted, outer_postfork, inner_ready, embedded, io, from>>

\* A callback handles what its fd is ready for.
InnerCallback(f) ==
  /\ pc = "callbacks" /\ f \in inner_pending
  /\ inner_pending' = inner_pending \ {f} /\ inner_ready' = inner_ready \ {f}
  /\ UNCHANGED <<wanted, changes, told, backend, inner_postfork, outer_postfork, embedded,
                 io, pc, from>>

\* Bug: embed_prepare_cb looks for changes only once.
LooksOnce == "reify"
LooksAgain == "embed"

\* ... and embed_fork_cb starts the embed watcher again.
SweepEnds ==
  /\ pc = "callbacks" /\ inner_pending = {}
  /\ pc' = CASE from = "fork" -> "prepare" [] from = "embed" -> LooksAgain [] from = "io" -> "user"
  /\ from' = "none"
  /\ IF from = "fork" THEN embedded' = TRUE /\ io_changed' = TRUE ELSE UNCHANGED <<embedded,
                                                                                   io_changed>>
  /\ UNCHANGED <<inner, outer_postfork, inner_ready, io_told, io_pending>>

-----------------------------------------------------------------------------
\* ev_run of the outer loop

OuterIterate ==
  /\ pc = "user" /\ pc' = "fork"
  /\ ~io_pending
  /\ UNCHANGED <<inner, outer_postfork, inner_ready, embedded, io, from>>

\* embed_fork_cb
EmbedFork ==
  /\ pc = "fork"
  /\ IF outer_postfork /\ embedded
       THEN /\ embedded' = FALSE /\ io_changed' = TRUE /\ io_pending' = FALSE
            /\ inner_postfork' = TRUE /\ Sweep("fork")
       ELSE pc' = "prepare" /\ UNCHANGED <<embedded, io_changed, io_pending, inner_postfork,
                                           from>>
  /\ UNCHANGED <<wanted, changes, told, backend, inner_pending, outer_postfork, inner_ready,
                 io_told>>

\* The program's prepare callbacks are over.
Prepared ==
  /\ pc = "prepare" /\ pc' = "embed"
  /\ UNCHANGED <<inner, outer_postfork, inner_ready, embedded, io, from>>

\* embed_prepare_cb
EmbedPrepare ==
  /\ pc = "embed"
  /\ IF embedded /\ changes # {}
       THEN told' = wanted /\ changes' = {} /\ Sweep("embed")
       ELSE pc' = "reify" /\ UNCHANGED <<told, changes, from>>
  /\ UNCHANGED <<wanted, backend, inner_postfork, inner_pending, outer_postfork, inner_ready,
                 embedded, io>>

\* loop_fork and fd_reify of the outer loop
OuterReify ==
  /\ pc = "reify" /\ pc' = "block"
  /\ io_told' = IF ~embedded THEN 0 ELSE IF io_changed \/ outer_postfork THEN backend ELSE io_told
  /\ io_changed' = FALSE /\ outer_postfork' = FALSE
  /\ UNCHANGED <<inner, inner_ready, embedded, io_pending, from>>

\* backend_poll: the inner backend_fd is ready if one of its fds is.
Readable == embedded /\ io_told = backend /\ told \cap inner_ready # {}
OuterPoll ==
  /\ pc = "block" /\ pc' = "user"
  /\ io_pending' = Readable
  /\ UNCHANGED <<inner, outer_postfork, inner_ready, embedded, io_changed, io_told, from>>

\* embed_io_cb; a callback of the watcher, if it has one, calls ev_embed_sweep.
EmbedIo ==
  /\ pc = "user" /\ io_pending /\ io_pending' = FALSE
  /\ Sweep("io")
  /\ UNCHANGED <<inner, outer_postfork, inner_ready, embedded, io_changed, io_told>>

BothLoops ==
  \/ InnerIterate \/ (\E f \in InnerFds : InnerCallback(f)) \/ SweepEnds
  \/ OuterIterate \/ EmbedFork \/ Prepared \/ EmbedPrepare \/ OuterReify \/ OuterPoll \/ EmbedIo

EmbedNext ==
  \/ \E f \in InnerFds : InnerIoStart(f) \/ InnerIoStop(f) \/ BecomesReady(f) \/ InnerCallback(f)
  \/ EvEmbedStart \/ EvEmbedStop \/ Fork
  \/ InnerIterate \/ SweepEnds
  \/ OuterIterate \/ EmbedFork \/ Prepared \/ EmbedPrepare \/ OuterReify \/ OuterPoll \/ EmbedIo

EmbedSpec == EmbedInit /\ [][EmbedNext]_embed_vars

\* Both loops go on, and so do their callbacks.
EmbedFairness == WF_embed_vars(BothLoops)

-----------------------------------------------------------------------------
(***************************************************************************)
(* When the outer loop blocks with an active embed watcher, the inner      *)
(* kernel state is up to date with the watchers -- whatever the callbacks  *)
(* that embed_prepare_cb has called did -- and the outer one watches it,   *)
(* although a fork has replaced it.                                        *)
(***************************************************************************)
EmbeddedWatched ==
  pc = "block" /\ embedded => /\ told = wanted /\ changes = {}
                              /\ ~inner_postfork => io_told = backend

(***************************************************************************)
(* What is ready in the embedded loop is handled ("as long as the watcher  *)
(* is active, the callback will be invoked every time there might be       *)
(* events pending in the embedded loop", ev.pod:3282).                     *)
(***************************************************************************)
SweepReaches ==
  \A f \in InnerFds :
    f \in inner_ready \cap wanted /\ embedded ~> ~(f \in inner_ready \cap wanted /\ embedded)
=============================================================================
