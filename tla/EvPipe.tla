------------------------------- MODULE EvPipe -------------------------------
(***************************************************************************)
(* The wake-up protocol of src/ev.c at the grain of memory accesses:       *)
(* ev_async_send and ev_feed_signal run in other threads, or in a signal   *)
(* handler of the loop's own thread, and store into the watcher, call      *)
(* evpipe_write and go; the loop's thread raises pipe_write_wanted before  *)
(* it polls, and pipecb collects the flags.                                *)
(*                                                                         *)
(* No locks: three kinds of flags (the target's own mark, sig_pending or   *)
(* async_pending, pipe_write_skipped) and fences.  ECB_MEMORY_FENCE drains *)
(* the store buffer of its thread; ECB_MEMORY_FENCE_RELEASE and _ACQUIRE   *)
(* are compiler barriers on x86.  With StoreBuffers = FALSE every store is *)
(* visible at once.                                                        *)
(***************************************************************************)
EXTENDS Naturals, Sequences, FiniteSetsExt

CONSTANTS
  Signals,          \* signals a loop watches, with signals[i].pending
  Asyncs,           \* active async watchers, with w->sent
  Threads,          \* other threads that send
  Handlers,         \* signal handlers of the loop's thread that send
  EVENTFD,          \* evpipe is an eventfd, not a pipe
  PIPE_SIZE,        \* what a pipe holds; a write to a full one does nothing
  DUMMY_SIZE,       \* what pipecb reads of a pipe at once (4 in the code)
  StoreBuffers,     \* stores go through a FIFO store buffer (x86)
  LockingCallbacks  \* user callbacks take a lock first, as ev.pod shows

ASSUME PipeAssumption ==
  /\ {PIPE_SIZE, DUMMY_SIZE} \subseteq Nat \ {0}
  /\ {EVENTFD, StoreBuffers, LockingCallbacks} \subseteq BOOLEAN
  /\ Signals \cap Asyncs = {}
  /\ Threads \cap Handlers = {}
  /\ "loop" \notin Threads

Targets == Signals \cup Asyncs
Senders == Threads \cup Handlers
Cpus == Threads \cup {"loop"}

Flag(t) == IF t \in Signals THEN "sig_pending" ELSE "async_pending"
TargetsOf(f) == IF f = "sig_pending" THEN Signals ELSE Asyncs

\* the shared variables; a target stands for its signals[].pending or sent
Globals == {"wanted", "skipped", "sig_pending", "async_pending"}
Addr == Globals \cup Targets

ASSUME TargetAssumption == Targets \cap Globals = {}

VARIABLES
  mem,      \* the shared variables, all of them booleans
  buf,      \* the store buffers
  pipe,     \* bytes in the pipe, or 1 if the eventfd's counter is not 0
  spc,      \* where each sender is in evpipe_write, "idle" outside
  target,   \* what each sender sends to
  lpc,      \* where the loop is
  blocking, \* the poll's waittime is not 0
  revents,  \* the events pending on pipe_w
  flag,     \* the flag pipecb looks at
  todo,     \* the targets of flag that pipecb has not looked at yet
  queued,   \* the targets fed into the loop and not called yet
  unseen    \* ghost: sent to, and no callback has started since

svars == <<spc, target>>
lvars == <<lpc, blocking, revents, flag, todo, queued>>
vars == <<mem, buf, pipe, spc, target, lpc, blocking, revents, flag, todo,
          queued, unseen>>

Store == [addr : Addr, val : BOOLEAN]

TypeOK ==
  /\ mem \in [Addr -> BOOLEAN]
  /\ buf \in [Cpus -> Seq(Store)]
  /\ pipe \in 0 .. PIPE_SIZE
  /\ spc \in [Senders -> {"idle", "test_flag", "set_flag", "set_skipped",
                          "test_wanted", "clear_skipped", "write"}]
  /\ target \in [Senders -> Targets]
  /\ lpc \in {"want", "test", "poll", "unwant", "skipped", "pipecb", "unskip",
              "test_flag", "clear_flag", "scan", "callbacks"}
  /\ blocking \in BOOLEAN
  /\ revents \subseteq {"EV_READ", "EV_CUSTOM"}
  /\ flag \in {"sig_pending", "async_pending"}
  /\ todo \subseteq Targets
  /\ queued \subseteq Targets
  /\ unseen \subseteq Targets

Init ==
  /\ mem = [a \in Addr |-> FALSE]
  /\ buf = [t \in Cpus |-> <<>>]
  /\ pipe = 0
  /\ spc = [s \in Senders |-> "idle"]
  /\ target \in [Senders -> Targets]
  /\ lpc = "want"
  /\ blocking = FALSE
  /\ revents = {}
  /\ flag = "sig_pending"
  /\ todo = {} /\ queued = {} /\ unseen = {}

-----------------------------------------------------------------------------
\* Memory.  A handler shares the store buffer of the loop's thread.

CpuOf(s) == IF s \in Handlers THEN "loop" ELSE s

Read(cpu, a) ==
  LET own == {i \in 1 .. Len(buf[cpu]) : buf[cpu][i].addr = a}
  IN  IF own = {} THEN mem[a] ELSE buf[cpu][Max(own)].val

Fenced(cpu) == buf[cpu] = <<>>

\* what a store does once the others can see it
Commit(a, v) ==
  /\ mem' = [mem EXCEPT ![a] = v]
  /\ unseen' = IF v THEN unseen \cup ({a} \cap Targets) ELSE unseen

Write(cpu, a, v) ==
  IF StoreBuffers
    THEN /\ buf' = [buf EXCEPT ![cpu] = Append(@, [addr |-> a, val |-> v])]
         /\ UNCHANGED <<mem, unseen>>
    ELSE Commit(a, v) /\ buf' = buf

Drain(cpu) ==
  /\ ~Fenced(cpu)
  /\ Commit(Head(buf[cpu]).addr, Head(buf[cpu]).val)
  /\ buf' = [buf EXCEPT ![cpu] = Tail(@)]
  /\ UNCHANGED <<pipe, svars, lvars>>

-----------------------------------------------------------------------------
\* The senders: ev_async_send, ev_feed_signal, evpipe_write.

\* a handler that has started runs before its thread goes on
Interrupted == \E h \in Handlers : spc[h] # "idle"

Goto(s, pc) == spc' = [spc EXCEPT ![s] = pc]

Send(s, t) ==
  /\ spc[s] = "idle"
  /\ s \in Handlers => ~Interrupted
  /\ Write(CpuOf(s), t, TRUE)
  /\ Goto(s, "test_flag")
  /\ target' = [target EXCEPT ![s] = t]
  /\ UNCHANGED <<pipe, lvars>>

EvAsyncSend(s) == \E w \in Asyncs : Send(s, w)

EvFeedSignal(s) == \E signum \in Signals : Send(s, signum)

\* FENCE; if (*flag) return;
SenderTestFlag(s) ==
  /\ spc[s] = "test_flag"
  /\ Fenced(CpuOf(s))
  /\ Goto(s, IF Read(CpuOf(s), Flag(target[s])) THEN "idle" ELSE "set_flag")
  /\ UNCHANGED <<mem, buf, pipe, target, lvars, unseen>>

\* *flag = 1; RELEASE
SenderSetFlag(s) ==
  /\ spc[s] = "set_flag"
  /\ Write(CpuOf(s), Flag(target[s]), TRUE)
  /\ Goto(s, "set_skipped")
  /\ UNCHANGED <<pipe, target, lvars>>

\* pipe_write_skipped = 1; FENCE
SenderSetSkipped(s) ==
  /\ spc[s] = "set_skipped"
  /\ Write(CpuOf(s), "skipped", TRUE)
  /\ Goto(s, "test_wanted")
  /\ UNCHANGED <<pipe, target, lvars>>

\* if (pipe_write_wanted)
SenderTestWanted(s) ==
  /\ spc[s] = "test_wanted"
  /\ Fenced(CpuOf(s))
  /\ Goto(s, IF Read(CpuOf(s), "wanted") THEN "clear_skipped" ELSE "idle")
  /\ UNCHANGED <<mem, buf, pipe, target, lvars, unseen>>

\* pipe_write_skipped = 0; RELEASE
SenderClearSkipped(s) ==
  /\ spc[s] = "clear_skipped"
  /\ Write(CpuOf(s), "skipped", FALSE)
  /\ Goto(s, "write")
  /\ UNCHANGED <<pipe, target, lvars>>

\* write (evpipe [1], ...); the kernel's own locking drains the buffer
SenderWrite(s) ==
  /\ spc[s] = "write"
  /\ Fenced(CpuOf(s))
  /\ pipe' = IF EVENTFD THEN 1
             ELSE IF pipe < PIPE_SIZE THEN pipe + 1 ELSE pipe
  /\ Goto(s, "idle")
  /\ UNCHANGED <<mem, buf, target, lvars, unseen>>

EvPipeWrite(s) ==
  \/ SenderTestFlag(s) \/ SenderSetFlag(s) \/ SenderSetSkipped(s)
  \/ SenderTestWanted(s) \/ SenderClearSkipped(s) \/ SenderWrite(s)

-----------------------------------------------------------------------------
\* The loop: ev_run around backend_poll.

LoopAt(pc) == lpc = pc /\ ~Interrupted

\* pipe_write_wanted = 1; FENCE
LoopWant ==
  /\ LoopAt("want")
  /\ Write("loop", "wanted", TRUE)
  /\ lpc' = "test"
  /\ UNCHANGED <<pipe, svars, blocking, revents, flag, todo, queued>>

\* Bug: the skipped write is not looked at before blocking.
LoopTestNothing ==
  /\ LoopAt("test")
  /\ Fenced("loop")
  /\ blocking' = TRUE
  /\ lpc' = "poll"
  /\ UNCHANGED <<mem, buf, pipe, svars, revents, flag, todo, queued, unseen>>

\* Bug: no fence between pipe_write_wanted = 1 and this test.
LoopTestUnfenced ==
  /\ LoopAt("test")
  /\ blocking' \in {FALSE, ~Read("loop", "skipped")}
  /\ lpc' = "poll"
  /\ UNCHANGED <<mem, buf, pipe, svars, revents, flag, todo, queued, unseen>>

\* waittime stays 0 if a write was skipped (or for EVRUN_NOWAIT, idleall, ...)
LoopTest ==
  /\ LoopAt("test")
  /\ Fenced("loop")
  /\ blocking' \in {FALSE, ~Read("loop", "skipped")}
  /\ lpc' = "poll"
  /\ UNCHANGED <<mem, buf, pipe, svars, revents, flag, todo, queued, unseen>>

PollEnds ==
  /\ LoopAt("poll")
  /\ revents' = IF pipe > 0 THEN {"EV_READ"} ELSE {}
  /\ lpc' = "unwant"
  /\ UNCHANGED <<mem, buf, pipe, svars, blocking, flag, todo, queued, unseen>>

\* epoll_wait returns at once: waittime 0, or evpipe is readable
PollReturns == (~blocking \/ pipe > 0) /\ PollEnds

\* ... or returns for another reason: a timer, another fd, EINTR
PollOther == blocking /\ pipe = 0 /\ PollEnds

\* pipe_write_wanted = 0; ACQUIRE
LoopUnwant ==
  /\ LoopAt("unwant")
  /\ Write("loop", "wanted", FALSE)
  /\ lpc' = "skipped"
  /\ UNCHANGED <<pipe, svars, blocking, revents, flag, todo, queued>>

\* if (pipe_write_skipped) ev_feed_event (&pipe_w, EV_CUSTOM)
LoopSkipped ==
  /\ LoopAt("skipped")
  /\ revents' = IF Read("loop", "skipped") THEN revents \cup {"EV_CUSTOM"}
                                           ELSE revents
  /\ lpc' = IF revents' = {} THEN "callbacks" ELSE "pipecb"
  /\ UNCHANGED <<mem, buf, pipe, svars, blocking, flag, todo, queued, unseen>>

-----------------------------------------------------------------------------
\* pipecb

\* Bug: the pipe is not read.
PipecbReadNothing ==
  /\ LoopAt("pipecb")
  /\ revents' = {}
  /\ lpc' = "unskip"
  /\ UNCHANGED <<mem, buf, pipe, svars, blocking, flag, todo, queued, unseen>>

\* the eventfd's counter, or up to sizeof (dummy) bytes of the pipe
PipecbRead ==
  /\ LoopAt("pipecb")
  /\ pipe' = IF "EV_READ" \notin revents THEN pipe
             ELSE IF EVENTFD \/ pipe < DUMMY_SIZE THEN 0
             ELSE pipe - DUMMY_SIZE
  /\ revents' = {}
  /\ lpc' = "unskip"
  /\ UNCHANGED <<mem, buf, svars, blocking, flag, todo, queued, unseen>>

\* pipe_write_skipped = 0; FENCE
PipecbUnskip ==
  /\ LoopAt("unskip")
  /\ Write("loop", "skipped", FALSE)
  /\ lpc' = "test_flag"
  /\ flag' = "sig_pending"
  /\ UNCHANGED <<pipe, svars, blocking, revents, todo, queued>>

\* signals first, then the asyncs
AfterFlag ==
  IF flag = "sig_pending"
    THEN flag' = "async_pending" /\ lpc' = "test_flag"
    ELSE lpc' = "callbacks" /\ UNCHANGED flag

\* if (sig_pending), if (async_pending)
PipecbTestFlag ==
  /\ LoopAt("test_flag")
  /\ flag = "sig_pending" => Fenced("loop")
  /\ IF Read("loop", flag) THEN lpc' = "clear_flag" /\ UNCHANGED flag
                           ELSE AfterFlag
  /\ UNCHANGED <<mem, buf, pipe, svars, blocking, revents, todo, queued, unseen>>

\* Bug: the flag stays set.
PipecbKeepFlag ==
  /\ LoopAt("clear_flag")
  /\ todo' = TargetsOf(flag)
  /\ lpc' = "scan"
  /\ UNCHANGED <<mem, buf, unseen, pipe, svars, blocking, revents, flag, queued>>

\* sig_pending = 0; FENCE, async_pending = 0; FENCE
PipecbClearFlag ==
  /\ LoopAt("clear_flag")
  /\ Write("loop", flag, FALSE)
  /\ todo' = TargetsOf(flag)
  /\ lpc' = "scan"
  /\ UNCHANGED <<pipe, svars, blocking, revents, flag, queued>>

\* One round of the loops over signals[] (with ev_feed_signal_event) and
\* asyncs[], which go through the arrays downwards; any order is allowed here.
\* Whether another thread sets a set mark again between the test and the
\* reset makes no difference, so they are one step; the reset is followed by
\* a RELEASE only.
PipecbScan ==
  /\ LoopAt("scan")
  /\ todo = TargetsOf(flag) => Fenced("loop")
  /\ \E t \in todo :
       /\ todo' = todo \ {t}
       /\ IF Read("loop", t)
            THEN Write("loop", t, FALSE) /\ queued' = queued \cup {t}
            ELSE UNCHANGED <<mem, buf, unseen, queued>>
  /\ UNCHANGED <<pipe, svars, lpc, blocking, revents, flag>>

PipecbScanned ==
  /\ LoopAt("scan")
  /\ todo = {}
  /\ AfterFlag
  /\ UNCHANGED <<mem, buf, pipe, svars, blocking, revents, todo, queued, unseen>>

\* ev_invoke_pending calls the user; what was sent before is visible to it
Callback ==
  /\ LoopAt("callbacks")
  /\ LockingCallbacks => Fenced("loop")
  /\ \E t \in queued : /\ queued' = queued \ {t}
                       /\ unseen' = unseen \ {t}
  /\ UNCHANGED <<mem, buf, pipe, svars, lpc, blocking, revents, flag, todo>>

\* ... and the next iteration starts
LoopIterate ==
  /\ LoopAt("callbacks")
  /\ queued = {}
  /\ lpc' = "want"
  /\ UNCHANGED <<mem, buf, pipe, svars, blocking, revents, flag, todo, queued,
                 unseen>>

LoopStep ==
  \/ LoopWant \/ LoopTest \/ PollReturns \/ LoopUnwant \/ LoopSkipped
  \/ PipecbRead \/ PipecbUnskip \/ PipecbTestFlag \/ PipecbClearFlag
  \/ PipecbScan \/ PipecbScanned \/ Callback \/ LoopIterate

Next ==
  \/ \E s \in Senders : EvAsyncSend(s) \/ EvFeedSignal(s) \/ EvPipeWrite(s)
  \/ \E cpu \in Cpus : Drain(cpu)
  \/ LoopStep
  \/ PollOther

Spec == Init /\ [][Next]_vars

\* The loop's thread runs (strongly fair, as signals may interrupt it again
\* and again but let it go on in between), a call that has started goes on,
\* and a store reaches memory.  Nobody has to send, and nothing but the pipe
\* has to end a blocking poll.
FairSpec ==
  /\ Spec
  /\ SF_vars(LoopStep)
  /\ \A s \in Senders : WF_vars(EvPipeWrite(s))
  /\ \A cpu \in Cpus : WF_vars(Drain(cpu))

-----------------------------------------------------------------------------
(***************************************************************************)
(* When the loop is blocked on an empty pipe and no sender is in the       *)
(* middle of a call, the callback of everything that was sent has started  *)
(* since: no interleaving of evpipe_write with the loop's wanted/skipped   *)
(* handshake loses a wake-up.                                              *)
(***************************************************************************)
Asleep == lpc = "poll" /\ blocking

NothingForgotten ==
  Asleep /\ pipe = 0 /\ (\A s \in Senders : spc[s] = "idle")
         /\ (\A cpu \in Cpus : Fenced(cpu))
    => unseen = {}

(***************************************************************************)
(* Why: who remembers a send, from the mark to the wake-up.  A marked      *)
(* target's flag is set, a set flag makes pipecb run, and a skipped write  *)
(* that a blocked loop did not see is made up for by its sender.           *)
(***************************************************************************)
SenderIn(pcs) == \E s \in Senders : spc[s] \in pcs

\* the pipecb that is running or about to has not looked at f yet
PipecbComing(f) ==
  \/ lpc \in {"pipecb", "unskip"}
  \/ lpc \in {"test_flag", "clear_flag"} /\ flag \in {f, "sig_pending"}
  \/ lpc = "scan" /\ flag = "sig_pending" /\ f = "async_pending"

UnseenIsMarked == \A t \in unseen : mem[t] \/ t \in queued

MarkIsFlagged ==
  \A t \in Targets : mem[t] =>
    \/ mem[Flag(t)]
    \/ lpc = "scan" /\ flag = Flag(t) /\ t \in todo
    \/ \E s \in Senders : target[s] = t /\ spc[s] \in {"test_flag", "set_flag"}

FlagIsNoticed ==
  \A f \in {"sig_pending", "async_pending"} : mem[f] =>
    \/ mem["skipped"]
    \/ pipe > 0
    \/ PipecbComing(f)
    \/ SenderIn({"set_skipped", "write"})

SkipIsMadeUpFor ==
  Asleep /\ mem["skipped"] => SenderIn({"test_wanted", "clear_skipped"})

WakeupChain ==
  /\ UnseenIsMarked /\ MarkIsFlagged /\ FlagIsNoticed /\ SkipIsMadeUpFor
  /\ lpc \in {"test", "poll"} => mem["wanted"]
  /\ queued # {} => lpc \in {"test_flag", "clear_flag", "scan", "callbacks"}

(***************************************************************************)
(* A call of ev_async_send or ev_feed_signal is followed by a callback     *)
(* that starts after it, although several sends share one wake-up.         *)
(***************************************************************************)
EverySendSeen == \A t \in Targets : t \in unseen ~> t \notin unseen

(***************************************************************************)
(* The loop does not spin: unless somebody keeps sending, it comes back    *)
(* again and again to a poll with nothing to read and nothing skipped.     *)
(***************************************************************************)
QuietsDown ==
  \/ []<>(\E s \in Senders : spc[s] # "idle")
  \/ []<>(lpc = "poll" /\ pipe = 0 /\ ~mem["skipped"])

=============================================================================
