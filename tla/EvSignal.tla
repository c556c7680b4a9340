------------------------------ MODULE EvSignal ------------------------------
(***************************************************************************)
(* The signal and child watchers of src/ev.c: the table signals[], shared  *)
(* by all loops, with delivery through a handler or a signalfd, and in the *)
(* default loop childev with the reaping of children (childcb), whose      *)
(* order relies on the pending queue being a stack (PendingOps).  That     *)
(* evpipe_write's wake-ups are not lost is EvPipe's subject: here          *)
(* sig_pending[l] says that the pipe of loop l has been written.           *)
(***************************************************************************)
EXTENDS PendingOps, Integers, FiniteSets, SequencesExt

CONSTANTS
  Loops, DefaultLoop,
  SIGNALFD,       \* the loops made with EVFLAG_SIGNALFD
  SIGCHLD,
  signum,         \* ev_signal -> w->signum, childev included
  childev,
  pid,            \* ev_child -> w->pid, 0 for any child
  TRACE,          \* the ev_childs that want to hear of stopped children
  Pids,           \* the children of the process
  EV_PID_HASHSIZE,
  NULL,
  MaxSignals      \* bound: how many signals arrive, SIGCHLD included

SigWatchers == DOMAIN signum
ChildWatchers == DOMAIN pid
Signals == {signum[w] : w \in SigWatchers}

\* childev watches SIGCHLD; pids are positive, 0 stands for any.
ASSUME SignalAssumption ==
  /\ DefaultLoop \in Loops /\ NULL \notin Loops /\ SIGNALFD \subseteq Loops
  /\ SigWatchers \cup ChildWatchers \subseteq Watchers /\ SigWatchers \cap ChildWatchers = {}
  /\ childev \in SigWatchers /\ signum[childev] = SIGCHLD /\ IsFiniteSet(Signals)
  /\ pid \in [ChildWatchers -> Nat] /\ Pids \subseteq Nat \ {0} /\ TRACE \subseteq ChildWatchers
  /\ EV_PID_HASHSIZE \in Nat \ {0}
  /\ {"EV_SIGNAL", "EV_CHILD"} \subseteq Flags

VARIABLES
  signals,       \* Signals -> [loop, pending, head]
  sig_pending,   \* Loops -> BOOLEAN
  sigfd_set,     \* Loops -> what is read through the loop's signalfd
  handled,       \* the signals with ev_sighandler installed
  blocked, arrived,  \* the signal mask, and the blocked signals that arrived
  childs,        \* the hash chains of ev_childs
  q,             \* Loops -> pending queue
  news,          \* Pids -> the change waitpid will report, or NULL
  rstatus,       \* ev_child -> w->rpid and w->rstatus
  owed,          \* ghost: the watchers that were active when their signal came
  count          \* how many signals arrived

signal_vars ==
  <<signals, sig_pending, sigfd_set, handled, blocked, arrived, childs, q, news,
    rstatus, owed, count>>
kernel == <<sigfd_set, handled, blocked, arrived>>

MAXPRI == NUMPRI - 1   \* EV_MAXPRI, counted from 0
In(seq, w) == \E i \in DOMAIN seq : seq[i] = w
WlistAdd(head, w) == <<w>> \o head
WlistDel(head, w) == RemoveFirst(head, w)

IsActive(w) ==
  IF w \in SigWatchers THEN In(signals[signum[w]].head, w)
  ELSE \E c \in DOMAIN childs : In(childs[c], w)

\* ev_default_loop has started childev.
SignalInit ==
  /\ signals = [s \in Signals |->
       IF s = SIGCHLD THEN [loop |-> DefaultLoop, pending |-> FALSE, head |-> <<childev>>]
       ELSE [loop |-> NULL, pending |-> FALSE, head |-> <<>>]]
  /\ sig_pending = [l \in Loops |-> FALSE]
  /\ sigfd_set = [l \in Loops |-> IF l \in SIGNALFD /\ l = DefaultLoop THEN {SIGCHLD} ELSE {}]
  /\ handled = IF DefaultLoop \in SIGNALFD THEN {} ELSE {SIGCHLD}
  /\ blocked = IF DefaultLoop \in SIGNALFD THEN {SIGCHLD} ELSE {}
  /\ arrived = {}
  /\ childs = [c \in 0 .. EV_PID_HASHSIZE - 1 |-> <<>>]
  /\ q = [l \in Loops |-> InitQueue([w \in Watchers |-> IF w = childev THEN MAXPRI ELSE 0])]
  /\ news = [p \in Pids |-> NULL]
  /\ rstatus = [c \in ChildWatchers |-> NULL]
  /\ owed = {} /\ count = 0

-----------------------------------------------------------------------------
\* Bug: the loop is not woken up.
FeedSignalSilently(s) ==
  /\ signals' = [signals EXCEPT ![s].pending = TRUE]
  /\ UNCHANGED <<sig_pending, arrived>>

\* ev_sighandler: mark the signal and wake up the loop it is attached to.
FeedSignal(s) ==
  /\ signals' = [signals EXCEPT ![s].pending = TRUE]
  /\ sig_pending' = [sig_pending EXCEPT ![signals[s].loop] = TRUE]
  /\ UNCHANGED arrived

\* A signal arrives: it waits if it is blocked, or the handler runs, or the
\* default action is taken (for the signals here: none).
Deliver(s) ==
  /\ count < MaxSignals /\ count' = count + 1
  /\ owed' = owed \cup ToSet(signals[s].head)
  /\ CASE s \in blocked -> arrived' = arrived \cup {s} /\ UNCHANGED <<signals, sig_pending>>
       [] s \in handled \ blocked -> FeedSignal(s)
       [] OTHER -> UNCHANGED <<signals, sig_pending, arrived>>
  /\ UNCHANGED <<sigfd_set, handled, blocked, childs, q, rstatus>>

Kill(s) == Deliver(s) /\ UNCHANGED news

\* A child stops, continues or exits; waitpid reports the latest change.
ChildChanges(p, status) ==
  /\ news[p] # "exited"
  /\ news' = [news EXCEPT ![p] = status]
  /\ Deliver(SIGCHLD)

-----------------------------------------------------------------------------
\* User code of a loop, in callbacks or outside of ev_run

SignalStart(w, l) ==
  LET s == signum[w] IN
  /\ ~IsActive(w) /\ signals[s].loop \in {NULL, l}
  /\ signals' = [signals EXCEPT ![s].loop = l, ![s].head = WlistAdd(@, w)]
  /\ IF l \in SIGNALFD
       THEN /\ sigfd_set' = [sigfd_set EXCEPT ![l] = @ \cup {s}]
            /\ blocked' = blocked \cup sigfd_set'[l]
            /\ UNCHANGED handled
       ELSE /\ handled' = handled \cup {s}
            /\ UNCHANGED <<sigfd_set, blocked>>
  /\ UNCHANGED <<sig_pending, arrived, childs, q, news, rstatus, owed, count>>

\* ev_signal_stop; the last watcher gives the signal back its default action.
SignalStop(w) ==
  LET s == signum[w]
      l == signals[s].loop
      rest == WlistDel(signals[s].head, w)
  IN
  /\ w # childev /\ IsActive(w)
  /\ q' = [q EXCEPT ![l] = ClearPending(@, w)]
  /\ signals' = [signals EXCEPT ![s].head = rest, ![s].loop = IF rest = <<>> THEN NULL ELSE l]
  /\ IF rest # <<>> THEN UNCHANGED kernel
     ELSE IF l \in SIGNALFD
       THEN /\ sigfd_set' = [sigfd_set EXCEPT ![l] = @ \ {s}]
            /\ blocked' = blocked \ {s} /\ arrived' = arrived \ {s}
            /\ UNCHANGED handled
       ELSE handled' = handled \ {s} /\ UNCHANGED <<sigfd_set, blocked, arrived>>
  /\ owed' = owed \ {w}
  /\ UNCHANGED <<sig_pending, childs, news, rstatus, count>>

Chain(p) == p % EV_PID_HASHSIZE

ChildStart(w) ==
  /\ ~IsActive(w)
  /\ childs' = [childs EXCEPT ![Chain(pid[w])] = WlistAdd(@, w)]
  /\ UNCHANGED <<signals, sig_pending, kernel, q, news, rstatus, owed, count>>

ChildStop(w) ==
  /\ IsActive(w)
  /\ q' = [q EXCEPT ![DefaultLoop] = ClearPending(@, w)]
  /\ childs' = [childs EXCEPT ![Chain(pid[w])] = WlistDel(@, w)]
  /\ UNCHANGED <<signals, sig_pending, kernel, news, rstatus, owed, count>>

-----------------------------------------------------------------------------
\* Bug: a signal is fed to the loop that happens to look at the table.
FeedAnyLoop(l, t, s) ==
  [signals |-> [t.signals EXCEPT ![s].pending = FALSE],
   q |-> QueueEvents(t.q, t.signals[s].head, {"EV_SIGNAL"})]

\* ev_feed_signal_event: only the loop the signal is attached to takes it.
FeedSignalEvent(l, t, s) ==
  IF t.signals[s].loop # l THEN t
  ELSE [signals |-> [t.signals EXCEPT ![s].pending = FALSE],
        q |-> QueueEvents(t.q, t.signals[s].head, {"EV_SIGNAL"})]

\* ... for every signal of a set
FeedAll(l, found) ==
  LET order == SetToSeq(found)
      after[n \in 0 .. Len(order)] ==
        IF n = 0 THEN [signals |-> signals, q |-> q[l]]
        ELSE FeedSignalEvent(l, after[n - 1], order[n])
  IN  after[Len(order)]

\* pipecb: every loop scans the table of all loops.
Pipecb(l) ==
  /\ sig_pending[l]
  /\ sig_pending' = [sig_pending EXCEPT ![l] = FALSE]
  /\ \E t \in {FeedAll(l, {s \in Signals : signals[s].pending})} :
       signals' = t.signals /\ q' = [q EXCEPT ![l] = t.q]
  /\ UNCHANGED <<kernel, childs, news, rstatus, owed, count>>

Sigfdcb(l) ==
  /\ arrived \cap sigfd_set[l] # {}
  /\ arrived' = arrived \ sigfd_set[l]
  /\ \E t \in {FeedAll(l, arrived \cap sigfd_set[l])} :
       signals' = t.signals /\ q' = [q EXCEPT ![l] = t.q]
  /\ UNCHANGED <<sig_pending, sigfd_set, handled, blocked, childs, news, rstatus, owed, count>>

\* child_reap tells a watcher of its child; of one that stopped only if it traces.
Tells(w, p, status) == pid[w] \in {0, p} /\ (status = "exited" \/ w \in TRACE)

\* Bug: the child watchers keep the priority they have, below childev's.
ReapKeepsPriority(d, ws, p, status) ==
  LET told[n \in 0 .. Len(ws)] ==
        IF n = 0 THEN d
        ELSE IF ~Tells(ws[n], p, status) THEN told[n - 1]
        ELSE FeedEvent(told[n - 1], ws[n], {"EV_CHILD"})
  IN  told[Len(ws)]

\* child_reap for the chain ws: the watchers told get EV_MAXPRI, childcb's own
\* priority, before they are fed.
Raised(d, w) == [d EXCEPT !.priority[w] = MAXPRI]

Reap(d, ws, p, status) ==
  LET told[n \in 0 .. Len(ws)] ==
        IF n = 0 THEN d
        ELSE IF ~Tells(ws[n], p, status) THEN told[n - 1]
        ELSE FeedEvent(Raised(told[n - 1], ws[n]), ws[n], {"EV_CHILD"})
  IN  told[Len(ws)]

Top(l) == TopEntry(q[l], NextPri(q[l]))
Popped(l) == PopEntry(q[l], NextPri(q[l]))

Requeue(d) == FeedEvent(d, childev, {"EV_SIGNAL"})

\* childcb when waitpid has something: childev is fed again, below the child
\* watchers, so that the stack calls it after them.
Childcb(p) ==
  /\ HasPending(q[DefaultLoop]) /\ Top(DefaultLoop).w = childev /\ news[p] # NULL
  /\ news' = [news EXCEPT ![p] = NULL]
  /\ LET mine == Reap(Requeue(Popped(DefaultLoop)), childs[Chain(p)], p, news[p])
     IN  q' = [q EXCEPT ![DefaultLoop] = Reap(mine, childs[0], p, news[p])]
  /\ rstatus' = [w \in ChildWatchers |->
       IF IsActive(w) /\ Tells(w, p, news[p]) THEN <<p, news[p]>> ELSE rstatus[w]]
  /\ owed' = owed \ {childev}
  /\ UNCHANGED <<signals, sig_pending, kernel, childs, count>>

\* Any other entry: a user's callback, pendingcb, or childcb with nothing left
Invoke(l) ==
  /\ HasPending(q[l])
  /\ Top(l).w = childev => \A p \in Pids : news[p] = NULL
  /\ q' = [q EXCEPT ![l] = Popped(l)]
  /\ owed' = IF Top(l).w \in SigWatchers THEN owed \ {Top(l).w} ELSE owed
  /\ UNCHANGED <<signals, sig_pending, kernel, childs, news, rstatus, count>>

LoopStep(l) ==
  \/ Pipecb(l) \/ Sigfdcb(l) \/ Invoke(l)
  \/ l = DefaultLoop /\ \E p \in Pids : Childcb(p)

SignalNext ==
  \/ \E s \in Signals \ {SIGCHLD} : Kill(s)
  \/ \E p \in Pids, status \in {"stopped", "exited"} : ChildChanges(p, status)
  \/ \E w \in SigWatchers : SignalStop(w) \/ \E l \in Loops : SignalStart(w, l)
  \/ \E w \in ChildWatchers : ChildStart(w) \/ ChildStop(w)
  \/ \E l \in Loops : LoopStep(l)

SignalSpec == SignalInit /\ [][SignalNext]_signal_vars

\* Every loop runs.
SignalFairness == \A l \in Loops : WF_signal_vars(LoopStep(l))

-----------------------------------------------------------------------------
(***************************************************************************)
(* A signal belongs to the loop of its active watchers and to no loop when *)
(* it has none (ev_signal_start asserts it), and then has its default      *)
(* action; one that is watched is always handled or read from a signalfd.  *)
(***************************************************************************)
Attached ==
  \A s \in Signals :
    /\ (signals[s].head = <<>>) = (signals[s].loop = NULL)
    /\ signals[s].head # <<>> <=>
         s \in handled \/ \E l \in Loops : s \in sigfd_set[l] /\ s \in blocked

(***************************************************************************)
(* All loops share the table and each pipecb goes through all of it, but a *)
(* watcher is queued only by the loop it was started in.                   *)
(***************************************************************************)
OwnLoop ==
  \A l \in Loops, w \in SigWatchers :
    IsPending(q[l], w) => IsActive(w) /\ signals[signum[w]].loop = l

\* Both: what is shared by all loops, and what is each loop's own, agree.
SignalsAttached == Attached /\ OwnLoop

(***************************************************************************)
(* childcb does not overwrite the status of a watcher that still waits to  *)
(* be called with an earlier one (the comment in childcb: "so that the     *)
(* callback gets called before we continue").                              *)
(***************************************************************************)
StatusKept ==
  [][\A w \in ChildWatchers :
       rstatus'[w] # rstatus[w] => ~IsPending(q[DefaultLoop], w)]_signal_vars

(***************************************************************************)
(* One SIGCHLD may stand for several children, yet all are waited for.     *)
(***************************************************************************)
AllReaped == \A p \in Pids : news[p] # NULL ~> news[p] = NULL

(***************************************************************************)
(* A watcher that was active when its signal arrived is called, unless it  *)
(* is stopped.                                                             *)
(***************************************************************************)
SignalSeen == \A w \in SigWatchers : w \in owed ~> w \notin owed

=============================================================================
