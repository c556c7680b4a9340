------------------------------- MODULE EvLoop -------------------------------
(***************************************************************************)
(* ev_run (src/ev.c): its phases, nested calls of it from callbacks,       *)
(* ev_break, the reference count, the prepare, check, idle, fork and async *)
(* watchers with their arrays, and pipe_w, the watcher behind the asyncs.  *)
(*                                                                         *)
(* A frame of runs is one ev_run on the C stack: pc is the phase it is in, *)
(* cb the watcher whose callback it is running, pending_w if none.  User   *)
(* code runs outside of every ev_run or in the callback of the innermost   *)
(* one.  Callbacks are picked as EvPending shows ev_invoke_pending picks   *)
(* them; a call of ev_async_send is one step here, see EvPipe for its      *)
(* parts.  The fds behind the io watchers, which may become ready any      *)
(* time, are not modelled here.                                            *)
(***************************************************************************)
EXTENDS PendingOps, Integers, SequencesExt

CONSTANTS
  pipe_w,     \* the loop's own io watcher
  Kind,       \* the type of every watcher
  Priority,   \* ABSPRI of every watcher, which does not change here
  RunFlags,   \* the flags ev_run is called with
  NDEBUG,     \* compiled without assertions
  RELEASE,    \* another thread uses the loop between release and acquire
  RECREATES,  \* the backend may ask for new kernel state, as epoll does
  MaxDepth,   \* bound: nested calls of ev_run
  Fed,        \* bound: the watchers the user feeds events to
  MaxQueue,   \* bound: ... and no event to a queue of this length
  MaxRefs     \* bound: calls of ev_ref or ev_unref not made up for

ASSUME LoopAssumption ==
  /\ IsFiniteSet(Watchers)
  /\ {"EV_READ", "EV_PREPARE", "EV_CHECK", "EV_FORK", "EV_IDLE", "EV_ASYNC",
      "EV_CUSTOM"} \subseteq Flags
  /\ pipe_w \in Watchers
  /\ Kind \in [Watchers -> {"pipe", "io", "prepare", "check", "fork", "idle",
                            "async"}]
  /\ \A w \in Watchers : Kind[w] = "pipe" <=> w = pipe_w
  /\ Priority \in [Watchers -> Pri] /\ Priority[pipe_w] = NUMPRI - 1
  /\ RunFlags \subseteq {"0", "EVRUN_ONCE", "EVRUN_NOWAIT"}
  /\ {NDEBUG, RELEASE, RECREATES} \subseteq BOOLEAN
  /\ Fed \subseteq Watchers \ {pipe_w}
  /\ {MaxDepth, MaxQueue, MaxRefs} \subseteq Nat

VARIABLES
  q,           \* the queues, see PendingOps
  active,      \* w->active
  arrays,      \* prepares, checks, forks, asyncs and, per priority, idles
  activecnt,   \* the loop's reference count
  sent,        \* the watchers with w->sent
  async_pending, pipe_write_skipped,
  pipe,        \* a byte is in evpipe
  postfork,    \* 1 after ev_loop_fork, 2 if the backend asked for it
  loop_done,
  runs,        \* the calls of ev_run, outermost first
  blocking,    \* backend_poll's waittime is not 0
  ready,       \* watchers backend_poll reports and has not fed yet
  gathered,    \* ghost: all the watchers the last poll reported
  refs,        \* ghost: the user's ev_refs less their ev_unrefs
  unforked,    \* ghost: fork watchers that do not know of the fork yet
  broken       \* ghost: the frames ev_break told to return

wvars == <<active, arrays, activecnt>>
avars == <<sent, async_pending, pipe_write_skipped, pipe>>
pvars == <<blocking, ready, gathered>>
vars == <<q, wvars, avars, postfork, loop_done, runs, pvars, refs, unforked,
          broken>>

\* the array a watcher is kept in; io watchers are in lists, see ev_io_start
ArrayOf(w) == IF Kind[w] = "idle" THEN <<"idle", Priority[w]>> ELSE <<Kind[w], 0>>

Arrays == {ArrayOf(w) : w \in Watchers}

Array(kind, p) == IF <<kind, p>> \in Arrays THEN arrays[<<kind, p>>] ELSE <<>>

IsActive(w) == active[w] # 0

InArray(w) == Kind[w] \notin {"io", "pipe"}

User == Watchers \ {pipe_w}

Hows == {"EVBREAK_CANCEL", "EVBREAK_ONE", "EVBREAK_ALL"}

Invoking == {"first", "fork", "prepare", "iterate"}

Frame == [flags : RunFlags, cb : Watchers \cup {pending_w},
          pc : Invoking \cup {"top", "poll", "gather", "finish"}]

TypeOK ==
  /\ q \in QueueState
  /\ active \in [Watchers -> Nat]
  /\ arrays \in [Arrays -> Seq(User)]
  /\ activecnt \in Int
  /\ sent \subseteq User
  /\ {async_pending, pipe_write_skipped, pipe, blocking} \subseteq BOOLEAN
  /\ postfork \in 0 .. 2
  /\ loop_done \in Hows \cup {"EVBREAK_RECURSE"}
  /\ runs \in Seq(Frame)
  /\ ready \subseteq Watchers /\ gathered \subseteq Watchers
  /\ refs \in -MaxRefs .. MaxRefs
  /\ unforked \subseteq User
  /\ broken \subseteq 1 .. MaxDepth

Init ==
  /\ q = InitQueue(Priority)
  /\ active = [w \in Watchers |-> 0]
  /\ arrays = [a \in Arrays |-> <<>>]
  /\ activecnt = 0
  /\ sent = {}
  /\ async_pending = FALSE /\ pipe_write_skipped = FALSE /\ pipe = FALSE
  /\ postfork = 0
  /\ loop_done = "EVBREAK_CANCEL"
  /\ runs = <<>>
  /\ blocking = FALSE /\ ready = {} /\ gathered = {}
  /\ refs = 0 /\ unforked = {} /\ broken = {}

Depth == Len(runs)
Top == runs[Depth]

InUserCode == runs # <<>> => Top.cb # pending_w

\* the innermost ev_run is in phase pc and in no callback
At(pc) == runs # <<>> /\ Top.cb = pending_w /\ Top.pc = pc

Goto(pc) == runs' = [runs EXCEPT ![Depth].pc = pc]

-----------------------------------------------------------------------------
\* Starting and stopping watchers.

\* Bug: ev_start does not count the watcher of a kind without an array.
StartUncounted(w) ==
  /\ InUserCode /\ w \in User /\ ~IsActive(w)
  /\ active' = [active EXCEPT
       ![w] = IF InArray(w) THEN Len(arrays[ArrayOf(w)]) + 1 ELSE 1,
       ![pipe_w] = IF Kind[w] = "async" THEN 1 ELSE @]
  /\ arrays' = IF InArray(w) THEN [arrays EXCEPT ![ArrayOf(w)] = Append(@, w)]
                             ELSE arrays
  /\ activecnt' = IF InArray(w) THEN activecnt + 1 ELSE activecnt
  /\ sent' = sent \ {w}
  /\ UNCHANGED <<q, async_pending, pipe_write_skipped, pipe, postfork, loop_done,
                 runs, pvars, refs, unforked, broken>>

\* ev_*_start; ev_async_start also resets w->sent and starts pipe_w, which
\* does not count (evpipe_init)
Start(w) ==
  /\ InUserCode /\ w \in User /\ ~IsActive(w)
  /\ active' = [active EXCEPT
       ![w] = IF InArray(w) THEN Len(arrays[ArrayOf(w)]) + 1 ELSE 1,
       ![pipe_w] = IF Kind[w] = "async" THEN 1 ELSE @]
  /\ arrays' = IF InArray(w) THEN [arrays EXCEPT ![ArrayOf(w)] = Append(@, w)]
                             ELSE arrays
  /\ activecnt' = activecnt + 1
  /\ sent' = sent \ {w}
  /\ UNCHANGED <<q, async_pending, pipe_write_skipped, pipe, postfork, loop_done,
                 runs, pvars, refs, unforked, broken>>

\* the last watcher of the array takes the place of the stopped one
TakeOut(w) ==
  LET a == arrays[ArrayOf(w)]
      n == Len(a)
      i == active[w]
  IN  /\ arrays' = [arrays EXCEPT ![ArrayOf(w)] =
                      [j \in 1 .. n - 1 |-> IF j = i THEN a[n] ELSE a[j]]]
      /\ active' = [active EXCEPT ![a[n]] = i, ![w] = 0]

\* ev_*_stop
Stop(w) ==
  /\ InUserCode /\ w \in User
  /\ q' = ClearPending(q, w)
  /\ IF ~IsActive(w)
       THEN UNCHANGED wvars
       ELSE /\ activecnt' = activecnt - 1
            /\ IF InArray(w) THEN TakeOut(w)
               ELSE active' = [active EXCEPT ![w] = 0] /\ UNCHANGED arrays
  /\ unforked' = unforked \ {w}
  /\ UNCHANGED <<avars, postfork, loop_done, runs, pvars, refs, broken>>

-----------------------------------------------------------------------------
\* What else user code may call.

EvFeedEvent(w) ==
  /\ InUserCode /\ w \in Fed
  /\ Len(q.pendings[Priority[w]]) < MaxQueue
  /\ q' = FeedEvent(q, w, {"EV_CUSTOM"})
  /\ UNCHANGED <<wvars, avars, postfork, loop_done, runs, pvars, refs,
                 unforked, broken>>

EvRefUnref(n) ==
  /\ InUserCode /\ refs + n \in -MaxRefs .. MaxRefs
  /\ activecnt' = activecnt + n
  /\ refs' = refs + n
  /\ UNCHANGED <<q, active, arrays, avars, postfork, loop_done, runs, pvars,
                 unforked, broken>>

\* the frames that have to return; the last call counts
Break(how) ==
  /\ loop_done' = how
  /\ broken' = CASE how = "EVBREAK_CANCEL" -> {}
                 [] how = "EVBREAK_ONE" -> {Depth} \ {0}
                 [] how = "EVBREAK_ALL" -> 1 .. Depth

EvBreak(how) ==
  /\ InUserCode
  /\ Break(how)
  /\ UNCHANGED <<q, wvars, avars, postfork, runs, pvars, refs, unforked>>

\* Not from prepare callbacks (ev.pod); nor, here, from what else is called
\* in the phases in which ev_run looks at postfork twice.
EvLoopFork ==
  /\ InUserCode
  /\ \A i \in 1 .. Depth : runs[i].pc \notin {"fork", "prepare"}
  /\ postfork' = 1
  /\ unforked' = {w \in User : Kind[w] = "fork" /\ IsActive(w)}
  /\ UNCHANGED <<q, wvars, avars, loop_done, runs, pvars, refs, broken>>

\* ev_run's start; not from prepare and check callbacks (ev.pod)
EvRun(flags) ==
  /\ InUserCode /\ Depth < MaxDepth
  /\ runs # <<>> => Kind[Top.cb] \notin {"prepare", "check"}
  /\ loop_done' = "EVBREAK_CANCEL"
  /\ runs' = Append(runs, [flags |-> flags, cb |-> pending_w, pc |-> "first"])
  /\ broken' = {}
  /\ UNCHANGED <<q, wvars, avars, postfork, pvars, refs, unforked>>

CallbackReturns ==
  /\ runs # <<>> /\ Top.cb # pending_w
  /\ runs' = [runs EXCEPT ![Depth].cb = pending_w]
  /\ UNCHANGED <<q, wvars, avars, postfork, loop_done, pvars, refs, unforked,
                 broken>>

\* pipe_write_wanted, while the innermost ev_run polls
Wanted == At("poll") \/ At("gather")

\* any thread, any time while the watcher is active
EvAsyncSend(w) ==
  /\ w \in User /\ Kind[w] = "async" /\ IsActive(w)
  /\ sent' = sent \cup {w}
  /\ async_pending' = TRUE
  /\ pipe_write_skipped' = IF async_pending THEN pipe_write_skipped ELSE ~Wanted
  /\ pipe' = (pipe \/ (~async_pending /\ Wanted))
  /\ UNCHANGED <<q, wvars, postfork, loop_done, runs, pvars, refs, unforked,
                 broken>>

\* another thread that owns the loop between release and acquire
RemoteBreak(how) ==
  /\ RELEASE /\ At("poll")
  /\ Break(how)
  /\ UNCHANGED <<q, wvars, avars, postfork, runs, pvars, refs, unforked>>

-----------------------------------------------------------------------------
\* ev_invoke_pending, in four phases of ev_run.

MayInvoke == runs # <<>> /\ Top.cb = pending_w /\ Top.pc \in Invoking

NextEntry == TopEntry(q, NextPri(q))

InvokeDummy ==
  /\ MayInvoke /\ HasPending(q) /\ NextEntry.w = pending_w
  /\ q' = PopEntry(q, NextPri(q))
  /\ UNCHANGED <<wvars, avars, postfork, loop_done, runs, pvars, refs, unforked,
                 broken>>

InvokeUser ==
  /\ MayInvoke /\ HasPending(q) /\ NextEntry.w \in User
  /\ q' = PopEntry(q, NextPri(q))
  /\ runs' = [runs EXCEPT ![Depth].cb = NextEntry.w]
  /\ unforked' = IF "EV_FORK" \in NextEntry.events THEN unforked \ {NextEntry.w}
                                                   ELSE unforked
  /\ UNCHANGED <<wvars, avars, postfork, loop_done, pvars, refs, broken>>

\* pipecb feeds the asyncs that were sent, from the end of their array.
FeedAsyncs(s) ==
  LET asyncs == Reverse(Array("async", 0))
      feed[n \in 0 .. Len(asyncs)] ==
        IF n = 0 THEN s
        ELSE IF asyncs[n] \in sent THEN FeedEvent(feed[n - 1], asyncs[n], {"EV_ASYNC"})
        ELSE feed[n - 1]
  IN  feed[Len(asyncs)]

InvokePipecb ==
  /\ MayInvoke /\ HasPending(q) /\ NextEntry.w = pipe_w
  /\ LET popped == PopEntry(q, NextPri(q))
     IN  IF async_pending
           THEN q' = FeedAsyncs(popped) /\ sent' = sent \ ToSet(Array("async", 0))
           ELSE q' = popped /\ UNCHANGED sent
  /\ async_pending' = FALSE
  /\ pipe_write_skipped' = FALSE
  /\ pipe' = (pipe /\ "EV_READ" \notin NextEntry.events)
  /\ UNCHANGED <<wvars, postfork, loop_done, runs, pvars, refs, unforked, broken>>

Invoked(pc) == At(pc) /\ ~HasPending(q)

-----------------------------------------------------------------------------
\* The phases of ev_run.

FirstInvoked ==
  /\ Invoked("first")
  /\ Goto("top")
  /\ UNCHANGED <<q, wvars, avars, postfork, loop_done, pvars, refs, unforked,
                 broken>>

QueueForks ==
  /\ At("top")
  /\ q' = IF postfork # 0 THEN QueueEvents(q, Array("fork", 0), {"EV_FORK"}) ELSE q
  /\ Goto("fork")
  /\ UNCHANGED <<wvars, avars, postfork, loop_done, pvars, refs, unforked, broken>>

QueuePrepares ==
  /\ Invoked("fork")
  /\ q' = QueueEvents(q, Array("prepare", 0), {"EV_PREPARE"})
  /\ Goto("prepare")
  /\ UNCHANGED <<wvars, avars, postfork, loop_done, pvars, refs, unforked, broken>>

BreakBeforePoll ==
  /\ Invoked("prepare") /\ loop_done # "EVBREAK_CANCEL"
  /\ Goto("finish")
  /\ UNCHANGED <<q, wvars, avars, postfork, loop_done, pvars, refs, unforked,
                 broken>>

\* Bug: the check watchers are queued before the poll.
LoopForkQueuesChecks ==
  /\ postfork' = 0
  /\ q' = QueueEvents(q, Array("check", 0), {"EV_CHECK"})
  /\ UNCHANGED pipe

\* Bug: the bytes of the old pipe are not made up for.
LoopForkForgets ==
  /\ postfork' = 0
  /\ IF postfork = 1 /\ IsActive(pipe_w)
       THEN q' = ClearPending(q, pipe_w) /\ pipe' = FALSE
       ELSE UNCHANGED <<q, pipe>>

\* loop_fork: a new backend_fd, and a new evpipe unless only the backend
\* asked; pipe_w keeps its state otherwise
LoopFork ==
  /\ postfork' = 0
  /\ IF postfork = 1 /\ IsActive(pipe_w)
       THEN /\ q' = FeedEvent(ClearPending(q, pipe_w), pipe_w, {"EV_CUSTOM"})
            /\ pipe' = FALSE
       ELSE UNCHANGED <<q, pipe>>

Idleall == \E p \in Pri : Array("idle", p) # <<>>

MayBlock ==
  Top.flags # "EVRUN_NOWAIT" /\ ~Idleall /\ activecnt # 0 /\ ~pipe_write_skipped

\* from loop_fork to the call of backend_poll; the assertion sets loop_done
BeforePoll ==
  /\ Invoked("prepare") /\ loop_done = "EVBREAK_CANCEL"
  /\ LoopFork
  /\ blocking' = MayBlock
  /\ loop_done' = IF NDEBUG THEN loop_done ELSE "EVBREAK_RECURSE"
  /\ gathered' = {}
  /\ Goto("poll")
  /\ UNCHANGED <<wvars, sent, async_pending, pipe_write_skipped, ready, refs,
                 unforked, broken>>

\* the kernel has decided which fds it reports
PollReturns ==
  /\ At("poll")
  /\ \E io \in SUBSET {w \in User : Kind[w] = "io" /\ IsActive(w)} :
       ready' = IF pipe THEN io \cup {pipe_w} ELSE io
  /\ gathered' = ready'
  /\ postfork' \in IF RECREATES THEN {postfork, 2} ELSE {postfork}
  /\ loop_done' = IF NDEBUG THEN loop_done ELSE "EVBREAK_CANCEL"
  /\ Goto("gather")
  /\ UNCHANGED <<q, wvars, avars, blocking, refs, unforked, broken>>

GatherIo(w) ==
  /\ At("gather") /\ w \in ready
  /\ q' = FeedEvent(q, w, {"EV_READ"})
  /\ ready' = ready \ {w}
  /\ UNCHANGED <<wvars, avars, postfork, loop_done, runs, blocking, gathered,
                 refs, unforked, broken>>

\* idle_reify: the idle watchers of the highest priority that has some, if
\* nothing is pending there or above
IdleReify(s) ==
  LET idle == {p \in Pri : Array("idle", p) # <<>>}
  IN  IF /\ idle # {}
         /\ \A p \in Max(idle) .. NUMPRI - 1 : s.pendings[p] = <<>>
        THEN QueueEvents(s, Array("idle", Max(idle)), {"EV_IDLE"})
        ELSE s

\* a skipped write is made up for, then idle and check watchers are queued
Gathered ==
  LET noticed == IF pipe_write_skipped THEN FeedEvent(q, pipe_w, {"EV_CUSTOM"})
                                       ELSE q
  IN  QueueEvents(IdleReify(noticed), Array("check", 0), {"EV_CHECK"})

Gather ==
  /\ At("gather") /\ ready = {}
  /\ q' = Gathered
  /\ Goto("iterate")
  /\ UNCHANGED <<wvars, avars, postfork, loop_done, pvars, refs, unforked, broken>>

\* the condition of ev_run's do-while loop
Again ==
  activecnt # 0 /\ loop_done = "EVBREAK_CANCEL" /\ Top.flags = "0"

Iterate ==
  /\ Invoked("iterate")
  /\ Goto(IF Again THEN "top" ELSE "finish")
  /\ UNCHANGED <<q, wvars, avars, postfork, loop_done, pvars, refs, unforked,
                 broken>>

\* Bug: EVBREAK_ALL ends only the innermost ev_run.
FinishCancelsAll ==
  /\ At("finish")
  /\ loop_done' = "EVBREAK_CANCEL"
  /\ runs' = Front(runs)
  /\ broken' = broken \ {Depth}
  /\ UNCHANGED <<q, wvars, avars, postfork, pvars, refs, unforked>>

Finish ==
  /\ At("finish")
  /\ loop_done' = IF loop_done = "EVBREAK_ONE" THEN "EVBREAK_CANCEL" ELSE loop_done
  /\ runs' = Front(runs)
  /\ broken' = broken \ {Depth}
  /\ UNCHANGED <<q, wvars, avars, postfork, pvars, refs, unforked>>

LoopStep ==
  \/ InvokeDummy \/ InvokeUser \/ InvokePipecb \/ CallbackReturns
  \/ FirstInvoked \/ QueueForks \/ QueuePrepares \/ BreakBeforePoll \/ BeforePoll
  \/ PollReturns \/ (\E w \in Watchers : GatherIo(w)) \/ Gather
  \/ Iterate \/ Finish

UserStep ==
  \/ \E w \in Watchers : Start(w) \/ Stop(w) \/ EvFeedEvent(w)
  \/ \E n \in {-1, 1} : EvRefUnref(n)
  \/ \E how \in Hows : EvBreak(how)
  \/ EvLoopFork
  \/ \E flags \in RunFlags : EvRun(flags)

OtherThread ==
  \/ \E w \in Watchers : EvAsyncSend(w)
  \/ \E how \in Hows : RemoteBreak(how)

Next == LoopStep \/ UserStep \/ OtherThread

Spec == Init /\ [][Next]_vars

\* callbacks return and the loop goes on, whatever else they do
FairSpec == Spec /\ WF_vars(LoopStep)

-----------------------------------------------------------------------------
(***************************************************************************)
(* The reference count that keeps ev_run going is the number of active     *)
(* watchers, without pipe_w, and the ev_refs of the user, whatever is      *)
(* started and stopped twice, in a callback, nested or not.                *)
(***************************************************************************)
RefsCounted == activecnt = Cardinality({w \in User : IsActive(w)}) + refs

(***************************************************************************)
(* w->active is the place of w in its array, although every stop moves     *)
(* another watcher (array_verify: "active index mismatch"), and an active  *)
(* watcher is in its array.                                                *)
(***************************************************************************)
ArraysConsistent ==
  /\ \A a \in Arrays : \A i \in 1 .. Len(arrays[a]) : active[arrays[a][i]] = i
  /\ \A w \in User : InArray(w) /\ IsActive(w) =>
       /\ active[w] <= Len(arrays[ArrayOf(w)])
       /\ arrays[ArrayOf(w)][active[w]] = w

(***************************************************************************)
(* Both, whatever nested callbacks start and stop: the loop goes on as     *)
(* long as it should, and finds the watchers it is to stop.                *)
(***************************************************************************)
LoopConsistent == TypeOK /\ RefsCounted /\ ArraysConsistent

(***************************************************************************)
(* An ev_run that ev_break told to return does not poll again: not the     *)
(* innermost one after EVBREAK_ONE, and none of the nested ones after      *)
(* EVBREAK_ALL, unless a later ev_run cleared the break state (ev.pod on   *)
(* ev_break).                                                              *)
(***************************************************************************)
BreakObeyed == [][~At("poll") /\ At("poll")' => Depth \notin broken]_vars

(***************************************************************************)
(* ... and it does return, or is told otherwise.                           *)
(***************************************************************************)
BreakReturns == \A d \in 1 .. MaxDepth : d \in broken ~> d \notin broken

Blocked == At("poll") /\ blocking /\ ~pipe

AllFed == \A w \in sent : ~IsActive(w)

(***************************************************************************)
(* When the loop blocks with nothing in evpipe, every async that was sent  *)
(* was fed, or pipe_w is pending: over ev_async_start and _stop, skipped   *)
(* writes, and loop_fork's new evpipe in which the bytes of the old one    *)
(* are missing ("in case we missed something before").  The poll may still *)
(* block while pipe_w is pending: what ev_run decides by whether to block  *)
(* does not include the queues.                                            *)
(***************************************************************************)
AsyncNotLost == Blocked => AllFed \/ IsPending(q, pipe_w)

EventsOf(w) == IF IsPending(q, w) THEN q.pendings[Priority[w]][q.pending[w]].events
                                  ELSE {}

CheckWaits(w) ==
  \E c \in User : Priority[c] >= Priority[w] /\ "EV_CHECK" \in EventsOf(c)

(***************************************************************************)
(* When the callback of an event the poll reported starts, no check        *)
(* watcher of the same or a higher priority still waits for its EV_CHECK.  *)
(***************************************************************************)
CheckBeforeGathered ==
  [][InvokeUser /\ "EV_READ" \in NextEntry.events => ~CheckWaits(NextEntry.w)]_vars

(***************************************************************************)
(* The callback of an idle watcher is called only in an iteration whose    *)
(* poll reported nothing of the same or a higher priority, not even for    *)
(* asyncs, which are queued after the idle watchers are.                   *)
(***************************************************************************)
IdleOnlyWhenIdle ==
  [][InvokeUser /\ "EV_IDLE" \in NextEntry.events
       => \A w \in gathered : Priority[w] < Priority[NextEntry.w]]_vars

(***************************************************************************)
(* The fork watchers that were active at the ev_loop_fork have been called *)
(* or stopped when loop_fork makes the new kernel state.                   *)
(***************************************************************************)
ForkWatchersCalled == [][postfork = 1 /\ postfork' = 0 => unforked = {}]_vars

(***************************************************************************)
(* The phases of ev_run in the order their watchers rely on: fork before   *)
(* the kernel state is made anew, check before what was polled, idle only  *)
(* when nothing of its priority was.                                       *)
(***************************************************************************)
PhasesInOrder == ForkWatchersCalled /\ CheckBeforeGathered /\ IdleOnlyWhenIdle

=============================================================================
