----------------------------- MODULE EvBackends -----------------------------
(***************************************************************************)
(* The backends select, poll, kqueue and port (src/unix/ev_select.c,       *)
(* ev_poll.c, ev_kqueue.c, ev_port.c) on top of the fd layer FdOps.        *)
(* select and poll hand all they want to the kernel on every call; kqueue  *)
(* and port keep it in the kernel, which forgets it when the fd is closed, *)
(* port also when it has been reported once.                               *)
(*                                                                         *)
(* The program may close an fd that still has watchers, which the backends *)
(* find out in different ways and answer with fd_kill; kevent may also     *)
(* refuse an open fd.  Asserts are compiled out.                           *)
(***************************************************************************)
EXTENDS FdOps, Integers

CONSTANTS
  Backends,     \* those of {"select", "poll", "kqueue", "port"} to look at
  MaxOpens      \* bound: how often fds are opened

VARIABLES
  backend,
  L,        \* the fd layer
  B,        \* the backend's own state
  open,     \* the fds that are open
  inkernel, \* kqueue, port: [fd, events] the kernel has
  postfork, phase,
  bad,      \* ghost: the closed fds the last call of the kernel met
  stale,    \* ghost: fds whose changes were queued when kqueue_fork ran
  refused,  \* ghost: open fds that kevent has refused and not been told of since
  opens

backend_vars ==
  <<backend, L, B, open, inkernel, postfork, phase, bad, stale, refused, opens>>

\* poll_init, select_init, kqueue_init, port_init
InitB == CASE backend = "select" -> [ri |-> {}, wi |-> {}]
           [] backend = "poll" -> [polls |-> <<>>, pollidxs |-> [fd \in Numbers |-> 0]]
           [] backend = "kqueue" -> [changes |-> <<>>]
           [] OTHER -> [none |-> {}]

BackendsInit ==
  /\ backend \in Backends
  /\ L = InitL /\ B = InitB
  /\ open = {} /\ inkernel = {} /\ postfork = FALSE /\ phase = "user"
  /\ bad = {} /\ stale = {} /\ refused = {} /\ opens = 0

-----------------------------------------------------------------------------
\* backend_modify

SelectModify(S, fd, oev, nev) ==
  IF oev = nev THEN S
  ELSE [S EXCEPT !.B.ri = IF "EV_READ" \in nev THEN @ \cup {fd} ELSE @ \ {fd},
                 !.B.wi = IF "EV_WRITE" \in nev THEN @ \cup {fd} ELSE @ \ {fd}]

\* Bug: the index of the entry that is moved is not updated.
RemoveEntryOnly(b, idx, fd) ==
  LET last == Len(b.polls) IN
  [b EXCEPT !.pollidxs[fd] = 0, !.polls = [i \in 1 .. last - 1 |-> IF i = idx THEN b.polls[last] ELSE b.polls[i]]]

\* poll_modify's removal: the last entry takes the place.
RemoveEntry(b, idx, fd) ==
  LET last == Len(b.polls)
      cut == [i \in 1 .. last - 1 |-> IF i = idx THEN b.polls[last] ELSE b.polls[i]]
      unused == [b.pollidxs EXCEPT ![fd] = 0]
  IN  [polls |-> cut,
       pollidxs |-> IF idx < last THEN [unused EXCEPT ![cut[idx].fd] = idx] ELSE unused]

\* poll_modify; indices count from 1, 0 is none
PollModify(S, fd, oev, nev) ==
  IF oev = nev THEN S
  ELSE LET old == S.B.pollidxs[fd]
           idx == IF old = 0 THEN Len(S.B.polls) + 1 ELSE old
           b == [polls |-> IF old = 0 THEN Append(S.B.polls, [fd |-> fd, events |-> {}])
                           ELSE S.B.polls,
                 pollidxs |-> [S.B.pollidxs EXCEPT ![fd] = idx]]
       IN  [S EXCEPT !.B = IF nev # {} THEN [b EXCEPT !.polls[idx].events = nev]
                           ELSE RemoveEntry(b, idx, fd)]

\* EV_READ before EV_WRITE, as kqueue_modify queues them
Filters(events) == SelectSeq(<<"EV_READ", "EV_WRITE">>, LAMBDA e : e \in events)
Queue(fd, op, events) ==
  [i \in DOMAIN Filters(events) |-> [fd |-> fd, op |-> op, filter |-> Filters(events)[i]]]

KqueueModify(S, fd, oev, nev) ==
  [S EXCEPT !.B.changes = @ \o (IF oev # nev THEN Queue(fd, "EV_DELETE", oev) ELSE <<>>)
                            \o Queue(fd, "EV_ADD", nev)]

\* port_modify with port_associate_and_check; the kernel's side is S.K
PortModify(S, fd, oev, nev) ==
  LET others == {r \in S.K : r.fd # fd} IN
  IF nev = {} THEN IF oev = {} THEN S ELSE [S EXCEPT !.K = others]
  ELSE IF fd \in open THEN [S EXCEPT !.K = others \cup {[fd |-> fd, events |-> nev]}]
  ELSE [S EXCEPT !.L = FdKill(@, fd)]

Modify(S, fd, oev, nev) ==
  CASE backend = "select" -> SelectModify(S, fd, oev, nev)
    [] backend = "poll" -> PollModify(S, fd, oev, nev)
    [] backend = "kqueue" -> KqueueModify(S, fd, oev, nev)
    [] OTHER -> PortModify(S, fd, oev, nev)

-----------------------------------------------------------------------------
\* The program, between polls

EvIoStart(w) ==
  /\ phase = "user" /\ w \notin L.active /\ fdOf[w] \in open
  /\ L' = IoStart(L, w) /\ bad' = bad \ {fdOf[w]}
  /\ UNCHANGED <<backend, B, open, inkernel, postfork, phase, stale, refused, opens>>

EvIoStop(w) ==
  /\ phase = "user" /\ (w \in L.active \/ L.pend[w] # {})
  /\ L' = IoStop(L, w)
  /\ UNCHANGED <<backend, B, open, inkernel, postfork, phase, bad, stale, refused, opens>>

Invoke(w) ==
  /\ phase = "user" /\ L.pend[w] # {}
  /\ L' = [L EXCEPT !.pend[w] = {}]
  /\ UNCHANGED <<backend, B, open, inkernel, postfork, phase, bad, stale, refused, opens>>

\* A new file; watchers of the number are set again before they are started.
OpenFd(fd) ==
  /\ phase = "user" /\ fd \notin open /\ HeadOf(L, fd) = {}
  /\ opens < MaxOpens /\ opens' = opens + 1
  /\ open' = open \cup {fd}
  /\ L' = [L EXCEPT !.fdset = @ \cup {w \in IoWatchers : fdOf[w] = fd}]
  /\ UNCHANGED <<backend, B, inkernel, postfork, phase, bad, stale, refused>>

CloseFd(fd) ==
  /\ phase = "user" /\ fd \in open
  /\ open' = open \ {fd}
  /\ inkernel' = {r \in inkernel : r.fd # fd}
  /\ refused' = refused \ {fd}
  /\ UNCHANGED <<backend, L, B, postfork, phase, bad, stale, opens>>

EvLoopFork ==
  /\ phase = "user" /\ ~postfork /\ postfork' = TRUE
  /\ UNCHANGED <<backend, L, B, open, inkernel, phase, bad, stale, refused, opens>>

\* loop_fork (kqueue_fork and port_fork make a new descriptor) and fd_reify
LoopForkAndReify ==
  /\ phase = "user" /\ \A w \in IoWatchers : L.pend[w] = {}
  /\ LET anew == postfork /\ backend \in {"kqueue", "port"}
         l == IF anew THEN FdRearmAll(L) ELSE L
         T == FdReify([L |-> l, B |-> B, K |-> IF anew THEN {} ELSE inkernel], Modify)
     IN  /\ L' = T.L /\ B' = T.B /\ inkernel' = T.K
         /\ refused' = {fd \in refused : fd \in ToSet(l.changes) => ~MustTell(l, fd)}
         /\ stale' = stale \cup IF anew /\ backend = "kqueue"
                                  THEN {B.changes[i].fd : i \in DOMAIN B.changes} ELSE {}
  /\ postfork' = FALSE /\ phase' = "poll"
  /\ UNCHANGED <<backend, open, bad, opens>>

-----------------------------------------------------------------------------
\* backend_poll

FdEvents(l, seq) == FoldLeft(LAMBDA M, e : FdEvent(M, e.fd, e.events), l, seq)
Returns(l) ==
  /\ L' = l /\ phase' = "user"
  /\ UNCHANGED <<backend, open, postfork, stale, opens>>

\* What may be ready of [fd, events]: some of it, or both for an error.
Ready(S) ==
  {SetToSeq({[fd |-> r.fd, events |-> got[r]] : r \in {x \in S : got[x] # {}}}) :
     got \in [S -> SUBSET RW]}
Possible(S, seq) == \A i \in DOMAIN seq :
  \E r \in S : r.fd = seq[i].fd /\ (seq[i].events \subseteq r.events \/ seq[i].events = RW)

SelectSet == {[fd |-> fd, events |-> {e \in RW : fd \in IF e = "EV_READ" THEN B.ri ELSE B.wi}] :
                fd \in B.ri \cup B.wi}

Ebadf(l, closed) == FdEbadf(l, closed)

SelectPoll ==
  /\ backend = "select" /\ phase = "poll"
  /\ bad' = (B.ri \cup B.wi) \ open
  /\ IF bad' # {} THEN Returns(Ebadf(L, Numbers \ open))
     ELSE \/ \E seq \in Ready(SelectSet) :
               /\ \A i \in DOMAIN seq : \E r \in SelectSet :
                    r.fd = seq[i].fd /\ seq[i].events \subseteq r.events
               /\ Returns(FdEvents(L, seq))
          \/ Returns(FdEnomem(L))          \* ENOMEM
  /\ UNCHANGED <<B, inkernel, refused>>

\* POLLNVAL for the closed fds
PollPoll ==
  /\ backend = "poll" /\ phase = "poll"
  /\ LET entries == ToSet(B.polls)
         valid == {r \in entries : r.fd \in open}
     IN  \/ /\ bad' = {r.fd : r \in entries \ valid}
            /\ \E seq \in Ready(valid) :
                 /\ Possible(valid, seq)
                 /\ Returns(FoldLeft(FdKill, FdEvents(L, seq), SetToSortSeq(bad', <)))
         \/ bad' = {} /\ Returns(FdEnomem(L))          \* ENOMEM
  /\ UNCHANGED <<B, inkernel, refused>>

\* One change of the list: what the kernel has after it, and its error.  The
\* kernel may not add acc.no, filters that the file does not have or for which
\* it has no memory.
Apply(acc, c) ==
  LET r == [fd |-> c.fd, events |-> {c.filter}]
      failed(e) == [acc EXCEPT !.errors = Append(@, [fd |-> c.fd, err |-> e])]
  IN  IF c.fd \notin open THEN failed("EBADF")
      ELSE IF c.op = "EV_ADD"
             THEN IF r \in acc.no THEN failed("EINVAL") ELSE [acc EXCEPT !.K = @ \cup {r}]
      ELSE IF r \in acc.K THEN [acc EXCEPT !.K = @ \ {r}] ELSE failed("ENOENT")

ApplyAll(no) == FoldLeft(Apply, [K |-> inkernel, errors |-> <<>>, no |-> no], B.changes)

\* Bug: ENOENT is taken for an error like the others.
HandleErrorKills(S, e) ==
  IF S.L.events[e.fd] = {} THEN S ELSE [S EXCEPT !.L = FdKill(@, e.fd)]

\* An error matters if the fd is of interest: on ENOENT, and on EBADF if it is
\* open after all, its filters are added again; else its watchers are stopped.
HandleError(S, e) ==
  IF S.L.events[e.fd] = {} THEN S
  ELSE IF e.err = "ENOENT" \/ (e.err = "EBADF" /\ e.fd \in open)
         THEN KqueueModify(S, e.fd, {}, S.L.events[e.fd])
  ELSE [S EXCEPT !.L = FdKill(@, e.fd)]

Added == {[fd |-> c.fd, events |-> {c.filter}] :
            c \in {c \in ToSet(B.changes) : c.op = "EV_ADD" /\ c.fd \in open}}

KqueuePoll ==
  /\ backend = "kqueue" /\ phase = "poll"
  /\ \E no \in SUBSET Added :
       LET done == ApplyAll(no)
           after == FoldLeft(HandleError, [L |-> L, B |-> [changes |-> <<>>]], done.errors)
       IN  /\ inkernel' = done.K /\ B' = after.B
           /\ bad' = {done.errors[i].fd : i \in DOMAIN done.errors} \ open
           /\ refused' = refused \cup {r.fd : r \in no}
           /\ \E seq \in Ready(done.K) :
                /\ \A i \in DOMAIN seq : [fd |-> seq[i].fd, events |-> seq[i].events] \in done.K
                /\ Returns(FdEvents(after.L, seq))

PortReported(l, fd, events) == FdChange(FdEvent(l, fd, events), fd, IOFDSET)

PortPoll ==
  /\ backend = "port" /\ phase = "poll"
  /\ \E seq \in Ready(inkernel) :
       /\ Possible(inkernel, seq)
       /\ inkernel' = {r \in inkernel : \A i \in DOMAIN seq : seq[i].fd # r.fd}
       /\ Returns(FoldLeft(LAMBDA l, e : PortReported(l, e.fd, e.events), L, seq))
  /\ bad' = {} /\ UNCHANGED <<B, refused>>

BackendsNext ==
  \/ \E w \in IoWatchers : EvIoStart(w) \/ EvIoStop(w) \/ Invoke(w)
  \/ \E fd \in Numbers : OpenFd(fd) \/ CloseFd(fd)
  \/ EvLoopFork \/ LoopForkAndReify
  \/ SelectPoll \/ PollPoll \/ KqueuePoll \/ PortPoll

BackendsSpec == BackendsInit /\ [][BackendsNext]_backend_vars

-----------------------------------------------------------------------------
\* What the kernel will report of fd in the call that comes.
Interest(fd) ==
  CASE backend = "select" -> {e \in RW : fd \in IF e = "EV_READ" THEN B.ri ELSE B.wi}
    [] backend = "poll" -> UNION {r.events : r \in {x \in ToSet(B.polls) : x.fd = fd}}
    [] backend = "kqueue" ->
         UNION {r.events : r \in {x \in ApplyAll({}).K : x.fd = fd}}
    [] OTHER -> UNION {r.events : r \in {x \in inkernel : x.fd = fd}}

(***************************************************************************)
(* When the kernel is asked, it is asked for what the watchers of every    *)
(* open fd want, whatever was closed, opened and reported before: no event *)
(* is lost.  Only a kqueue that has refused the fd may not be asked again: *)
(* the error path leaves anfd->events as it was, and a watcher started     *)
(* with the same events before fd_reify runs changes nothing.              *)
(***************************************************************************)
AllAsked ==
  phase = "poll" => \A fd \in open \ refused : Wanted(L, fd) \subseteq Interest(fd)

(***************************************************************************)
(* ... and for nothing else, which it would go on reporting; but for the   *)
(* changes that kqueue_fork leaves queued.                                 *)
(***************************************************************************)
NothingElseAsked ==
  phase = "poll" => \A fd \in open \ stale : Interest(fd) \subseteq Wanted(L, fd)

(***************************************************************************)
(* poll's two arrays index one another.                                    *)
(***************************************************************************)
PollIndexed ==
  backend = "poll" =>
    /\ \A fd \in Numbers : B.pollidxs[fd] # 0 =>
         B.pollidxs[fd] \in DOMAIN B.polls /\ B.polls[B.pollidxs[fd]].fd = fd
    /\ \A i \in DOMAIN B.polls : B.pollidxs[B.polls[i].fd] = i

(***************************************************************************)
(* A closed fd is met once: its watchers have been stopped with an error,  *)
(* and the next call does not fail because of it.                          *)
(***************************************************************************)
BadOnce == \A fd \in bad \ open : HeadOf(L, fd) = {} /\ (phase = "poll" => Interest(fd) = {})

(***************************************************************************)
(* kqueue and port stop a watcher with an error only if its fd is closed,  *)
(* or open and refused by kevent: an fd that was closed and opened again,  *)
(* for which the kernel also has errors, is not taken for a bad one.       *)
(***************************************************************************)
OnlyClosedFail ==
  [][\A w \in IoWatchers :
       backend \in {"kqueue", "port"} /\ "EV_ERROR" \in L'.pend[w] \ L.pend[w]
         => fdOf[w] \notin open \/ fdOf[w] \in refused']_backend_vars
=============================================================================
