----------------------------- MODULE EvIouring ------------------------------
(***************************************************************************)
(* The backend of src/unix/ev_iouring.c on the fd layer FdOps: every fd is *)
(* polled by a one-shot POLL_ADD, written to a submission queue that holds *)
(* SQ entries and is handed to the kernel when it is full or when the loop *)
(* polls; completions go to a queue of twice that size, and when that one  *)
(* overflows the rings are made anew and larger, until the kernel has no   *)
(* larger ones and epoll takes over.  The loop has no timeout when it      *)
(* enters the kernel: a timerfd, watched by tfd_w, wakes it up.            *)
(***************************************************************************)
EXTENDS FdOps, Integers, FiniteSets

CONSTANTS
  tfd_w,               \* iouring_tfd_w
  INIT_ENTRIES,        \* IOURING_INIT_ENTRIES
  KERNEL_ENTRIES,      \* the largest ring the kernel makes
  NODROP,              \* IORING_FEAT_NODROP: completions that do not fit wait
  MAX_BLOCKTIME,       \* the longest timeout of backend_poll
  MaxOpens, MaxForks, MaxGen, MaxTime   \* bounds

TFD == fdOf[tfd_w]
Users == IoWatchers \ {tfd_w}
EV_TSTAMP_HUGE == MaxTime + MAX_BLOCKTIME + 1

VARIABLES
  L,          \* the fd layer
  U,          \* the rings and the timerfd, see Rings
  backend,    \* "iouring" or "epoll"
  epregs,     \* of epoll
  activecnt,
  todo,       \* fd_reify: the changes to go
  ops,        \* iouring_modify: the sqes to write
  file,       \* fd -> the file it was opened for, 0 if closed
  now, due,   \* the time, and when backend_poll is to return
  phase, wrong, opens, forks

uring_vars == <<L, U, backend, epregs, activecnt, todo, ops, file, now, due, phase, wrong, opens,
                forks>>

\* What iouring_internal_init makes: to_submit of the sqes in sq are still to
\* be submitted as far as the program knows; polls are the requests in the
\* kernel, a sequence as there may be equal ones; tfd is when the timerfd
\* becomes readable, tfd_to what the program believes of it.
Rings(entries, max_entries) ==
  [entries |-> entries, max_entries |-> max_entries, sq |-> <<>>, to_submit |-> 0,
   cq |-> <<>>, overflow |-> FALSE, backlog |-> <<>>, polls |-> <<>>,
   tfd |-> EV_TSTAMP_HUGE, tfd_to |-> EV_TSTAMP_HUGE]

\* EINVAL from io_uring_setup is taken for the limit.
InternalInit(u) ==
  IF u.entries <= KERNEL_ENTRIES THEN Rings(u.entries, u.max_entries)
  ELSE Rings(u.entries \div 2, u.entries \div 2)

UringInit ==
  /\ L = IoStart(InitL, tfd_w)
  /\ U = InternalInit(Rings(INIT_ENTRIES, 0))
  /\ backend = "iouring" /\ epregs = {} /\ activecnt = 0
  /\ todo = <<>> /\ ops = <<>>
  /\ file = [fd \in Numbers |-> IF fd = TFD THEN 1 ELSE 0]
  /\ now = 0 /\ due = 0 /\ phase = "user" /\ wrong = {} /\ opens = 1 /\ forks = 0

-----------------------------------------------------------------------------
\* iouring_internal_destroy stops tfd_w (and refers to it again), as does
\* iouring_fork, which starts it for the new timerfd and does not unrefer.
WithoutTfd(l) == IoStop(l, tfd_w)

\* iouring_fork, on S = [L, U, activecnt, ...]
IouringFork(S) ==
  [S EXCEPT !.L = IoStart([FdRearmAll(WithoutTfd(@)) EXCEPT !.fdset = @ \cup {tfd_w}], tfd_w),
            !.U = InternalInit(@),
            !.activecnt = @ + 1]

IouringOverflow(S) ==
  LET T == [S EXCEPT !.L = FdRearmAll(@)] IN
  IF S.U.max_entries = 0 THEN IouringFork([T EXCEPT !.U.entries = @ * 2])
  ELSE [T EXCEPT !.L = WithoutTfd(@), !.U = Rings(T.U.entries, T.U.max_entries),
                 !.backend = "epoll"]

\* iouring_process_cqe, one completion e.  A removal has no fd.
IsCurrent(l, e) == e.fd # -1 /\ e.gen = l.egen[e.fd]

ProcessedOnce(l, e) ==                \* Bug: the fd is not armed again.
  IF IsCurrent(l, e) THEN FdChange(FdEvent(l, e.fd, e.events), e.fd, REIFY) ELSE l
ProcessCqe(l, e) ==
  IF IsCurrent(l, e)
    THEN FdChange([FdEvent(l, e.fd, e.events) EXCEPT !.events[e.fd] = {}], e.fd, REIFY)
    ELSE l

\* iouring_handle_cq
HandleCq(S) ==
  IF S.U.cq = <<>> THEN S
  ELSE IF S.U.overflow THEN IouringOverflow(S)
  ELSE [S EXCEPT !.L = FoldLeft(ProcessCqe, @, S.U.cq), !.U.cq = <<>>]

\* iouring_tfd_update
TfdUpdate(u, tfd_to) ==
  IF tfd_to < u.tfd_to THEN [u EXCEPT !.tfd_to = tfd_to, !.tfd = tfd_to] ELSE u

-----------------------------------------------------------------------------
\* The kernel

Post(u, cqe) ==
  IF Len(u.cq) < 2 * u.entries THEN [u EXCEPT !.cq = Append(@, cqe)]
  ELSE IF NODROP THEN [u EXCEPT !.backlog = Append(@, cqe)]
  ELSE [u EXCEPT !.overflow = TRUE]

Removed == [fd |-> -1, gen |-> 0, file |-> 0, events |-> {}]

\* POLL_ADD, and POLL_REMOVE of a request with this fd and generation.
Consume(u, sqe) ==
  IF sqe.op = "add"
    THEN [u EXCEPT !.polls = Append(@, [fd |-> sqe.fd, gen |-> sqe.gen, file |-> file[sqe.fd],
                                        events |-> sqe.events])]
    ELSE LET mine == {i \in DOMAIN u.polls : u.polls[i].fd = sqe.fd /\ u.polls[i].gen = sqe.gen}
             i == CHOOSE j \in mine : TRUE
         IN  IF mine = {} THEN Post(u, Removed)
             ELSE Post(Post([u EXCEPT !.polls = RemoveAt(@, i)], [u.polls[i] EXCEPT !.events = {}]),
                       Removed)

\* What fits of the completions that wait goes to the queue.
Flushed(u) ==
  LET n == 2 * u.entries - Len(u.cq)
      k == IF n < Len(u.backlog) THEN n ELSE Len(u.backlog)
  IN  [u EXCEPT !.cq = @ \o SubSeq(u.backlog, 1, k), !.backlog = SubSeq(@, k + 1, Len(@))]

\* iouring_enter: EBUSY as long as completions wait.
Busy(u) == Flushed(u).backlog # <<>>
Enter(u) ==
  LET f == Flushed(u) IN
  IF Busy(u) THEN [f EXCEPT !.to_submit = 0]
  ELSE [FoldLeft(Consume, f, SubSeq(f.sq, 1, f.to_submit))
          EXCEPT !.sq = SubSeq(@, f.to_submit + 1, Len(@)), !.to_submit = 0]

\* A request is completed with some of what it asks for (or an error).
Complete(i) ==
  /\ backend = "iouring"
  /\ U.polls[i].fd = TFD => U.tfd <= now
  /\ \E got \in (SUBSET U.polls[i].events \ {{}}) \cup {RW} :
       U' = Post([U EXCEPT !.polls = RemoveAt(@, i)], [U.polls[i] EXCEPT !.events = got])
  /\ UNCHANGED <<L, backend, epregs, activecnt, todo, ops, file, now, due, phase, wrong, opens, forks>>

Tick ==
  /\ now < MaxTime /\ now' = now + 1
  /\ UNCHANGED <<L, U, backend, epregs, activecnt, todo, ops, file, due, phase, wrong, opens, forks>>

-----------------------------------------------------------------------------
\* The program, between polls

User == phase = "user"

EvIoStart(w) ==
  /\ User /\ w \notin L.active /\ file[fdOf[w]] # 0
  /\ L' = IoStart(L, w) /\ activecnt' = activecnt + 1
  /\ UNCHANGED <<U, backend, epregs, todo, ops, file, now, due, phase, wrong, opens, forks>>

EvIoStop(w) ==
  /\ User /\ w \in L.active
  /\ L' = IoStop(L, w) /\ activecnt' = activecnt - 1
  /\ UNCHANGED <<U, backend, epregs, todo, ops, file, now, due, phase, wrong, opens, forks>>

\* An fd is closed after its watchers have been stopped.
OpenFd(fd) ==
  /\ User /\ file[fd] = 0
  /\ opens < MaxOpens /\ opens' = opens + 1
  /\ file' = [file EXCEPT ![fd] = opens']
  /\ L' = [L EXCEPT !.fdset = @ \cup {w \in Users : fdOf[w] = fd}]
  /\ UNCHANGED <<U, backend, epregs, activecnt, todo, ops, now, due, phase, wrong, forks>>

CloseFd(fd) ==
  /\ User /\ file[fd] # 0 /\ fd # TFD /\ HeadOf(L, fd) = {}
  /\ file' = [file EXCEPT ![fd] = 0]
  /\ epregs' = {r \in epregs : r.fd # fd}
  /\ UNCHANGED <<L, U, backend, activecnt, todo, ops, now, due, phase, wrong, opens, forks>>

\* Callbacks; iouring_tfd_cb notes that the timerfd has expired.
Invoke(w) ==
  /\ User /\ L.pend[w] # {}
  /\ L' = [L EXCEPT !.pend[w] = {}]
  /\ U' = IF w = tfd_w THEN [U EXCEPT !.tfd_to = EV_TSTAMP_HUGE] ELSE U
  /\ UNCHANGED <<backend, epregs, activecnt, todo, ops, file, now, due, phase, wrong, opens, forks>>

\* loop_fork
LoopFork ==
  /\ User /\ forks < MaxForks /\ forks' = forks + 1
  /\ LET S == [L |-> L, U |-> U, activecnt |-> activecnt]
         T == IF backend = "iouring" THEN IouringFork(S) ELSE [S EXCEPT !.L = FdRearmAll(L)]
     IN  L' = T.L /\ U' = T.U /\ activecnt' = T.activecnt
  /\ epregs' = {}
  /\ UNCHANGED <<backend, todo, ops, file, now, due, phase, wrong, opens>>

-----------------------------------------------------------------------------
\* fd_reify, one sqe at a time as the submission queue may be full.

Iterate ==
  /\ User /\ \A w \in IoWatchers : L.pend[w] = {}
  /\ \A fd \in Numbers : L.egen[fd] < MaxGen
  /\ todo' = L.changes /\ L' = [L EXCEPT !.changes = <<>>]
  /\ \E t \in 0 .. MAX_BLOCKTIME : due' = now + t
  /\ phase' = "reify"
  /\ UNCHANGED <<U, backend, epregs, activecnt, ops, file, now, wrong, opens, forks>>

\* iouring_modify, or epoll_modify
IouringModify(S, fd, oev, nev) ==
  [S EXCEPT !.ops = (IF oev = {} THEN <<>> ELSE <<[op |-> "remove", fd |-> fd, events |-> {}]>>)
                 \o (IF nev = {} THEN <<>> ELSE <<[op |-> "add", fd |-> fd, events |-> nev]>>)]
Modify(S, fd, oev, nev) ==
  IF backend = "iouring" THEN IouringModify(S, fd, oev, nev) ELSE EpollModify(S, fd, oev, nev)

ReifyNext ==
  /\ phase = "reify" /\ ops = <<>>
  /\ IF todo = <<>>
       THEN phase' = "poll" /\ UNCHANGED <<L, epregs, ops, todo>>
       ELSE LET T == ReifyOne([L |-> L, ops |-> <<>>, epregs |-> epregs], Head(todo), Modify) IN
            /\ L' = T.L /\ ops' = T.ops /\ epregs' = T.epregs
            /\ todo' = Tail(todo) /\ UNCHANGED phase
  /\ UNCHANGED <<U, backend, activecnt, file, now, due, wrong, opens, forks>>

RoomForSqe == Len(U.sq) < U.entries

Generation(sqe) == IF sqe.op = "remove" THEN 1 ELSE 0

\* iouring_sqe_submit
SqeSubmit ==
  /\ ops # <<>> /\ RoomForSqe
  /\ LET o == Head(ops) IN
     /\ U' = [U EXCEPT !.sq = Append(@, [op |-> o.op, fd |-> o.fd, gen |-> L.egen[o.fd],
                                         events |-> o.events]),
                       !.to_submit = @ + 1]
     /\ L' = [L EXCEPT !.egen[o.fd] = @ + Generation(o)]
  /\ ops' = Tail(ops)
  /\ UNCHANGED <<backend, epregs, activecnt, todo, file, now, due, phase, wrong, opens, forks>>

\* iouring_sqe_get with a full queue: the kernel is asked nicely; if it is busy
\* iouring_poll handles the completions, and has nothing more to submit.
SqeGetFull ==
  /\ ops # <<>> /\ ~RoomForSqe
  /\ LET S == [L |-> L, U |-> Enter(U), activecnt |-> activecnt, backend |-> backend]
         T == IF Busy(U) THEN HandleCq(S) ELSE S
     IN  L' = T.L /\ U' = T.U /\ activecnt' = T.activecnt /\ backend' = T.backend
  /\ UNCHANGED <<epregs, todo, ops, file, now, due, phase, wrong, opens, forks>>

-----------------------------------------------------------------------------
\* iouring_poll

\* fds whose watchers would get an event of another file
Mistaken(l, cq) ==
  {fd \in Numbers : /\ HeadOf(l, fd) # {} /\ l.reify[fd] = {}
                /\ \E i \in DOMAIN cq : /\ cq[i].fd = fd /\ IsCurrent(l, cq[i])
                                        /\ cq[i].file # file[fd]}

\* The queue is handled; then what there is to submit is submitted, and the
\* kernel waits if nothing has happened.
IouringPoll ==
  /\ phase = "poll" /\ backend = "iouring"
  /\ LET S == HandleCq([L |-> L, U |-> U, activecnt |-> activecnt, backend |-> backend])
         idle == U.cq = <<>> /\ L.changes = <<>>
         u == IF idle THEN TfdUpdate(S.U, due) ELSE S.U
         waits == idle /\ due > now
         enters == waits \/ u.to_submit > 0
     IN  /\ L' = S.L /\ activecnt' = S.activecnt /\ backend' = S.backend
         /\ U' = IF enters THEN Enter(u) ELSE u
         /\ phase' = IF ~enters \/ Busy(u) THEN "user" ELSE IF waits THEN "wait" ELSE "handle"
  /\ wrong' = wrong \cup Mistaken(L, U.cq)
  /\ UNCHANGED <<epregs, todo, ops, file, now, due, opens, forks>>

\* The kernel returns when there is a completion.
HandleAfterEnter ==
  /\ phase = "handle" \/ (phase = "wait" /\ U.cq # <<>>)
  /\ LET S == HandleCq([L |-> L, U |-> U, activecnt |-> activecnt, backend |-> backend]) IN
       L' = S.L /\ U' = S.U /\ activecnt' = S.activecnt /\ backend' = S.backend
  /\ wrong' = wrong \cup Mistaken(L, U.cq)
  /\ phase' = "user"
  /\ UNCHANGED <<epregs, todo, ops, file, now, due, opens, forks>>

EpollPoll ==
  /\ phase = "poll" /\ backend = "epoll"
  /\ \E seq \in ReadyIn(epregs) : L' = EpollEvents(L, seq)
  /\ phase' = "user"
  /\ UNCHANGED <<U, backend, epregs, activecnt, todo, ops, file, now, due, wrong, opens, forks>>

UringNext ==
  \/ \E i \in DOMAIN U.polls : Complete(i)
  \/ \E w \in Users : EvIoStart(w) \/ EvIoStop(w)
  \/ \E w \in IoWatchers : Invoke(w)
  \/ \E fd \in Numbers : OpenFd(fd) \/ CloseFd(fd)
  \/ Tick \/ LoopFork \/ Iterate \/ ReifyNext \/ SqeSubmit \/ SqeGetFull
  \/ IouringPoll \/ HandleAfterEnter \/ EpollPoll

UringSpec == UringInit /\ [][UringNext]_uring_vars

\* fd_reify does not wait.
UringFairness == WF_uring_vars(ReifyNext \/ SqeSubmit \/ SqeGetFull)

-----------------------------------------------------------------------------
(***************************************************************************)
(* While the loop waits, every fd with watchers has a request in the       *)
(* kernel, for its current file, generation and events, or a completion    *)
(* that will wake the loop up -- be it another one, if the queue has       *)
(* overflowed; after the switch, epoll watches it.                         *)
(***************************************************************************)
AllArmed ==
  /\ phase = "wait" =>
       \/ U.overflow /\ U.cq # <<>>
       \/ \A fd \in Numbers : Wanted(L, fd) # {} =>
            \E r \in Range(U.polls) \cup Range(U.cq) :
              /\ r.fd = fd /\ r.gen = L.egen[fd] /\ r.file = file[fd]
              /\ r \in Range(U.cq) \/ r.events = Wanted(L, fd)
  /\ phase = "poll" /\ backend = "epoll" =>
       \A fd \in Numbers : Wanted(L, fd) # {} =>
         \E r \in epregs : r.fd = fd /\ r.gen = L.egen[fd] /\ r.events = Wanted(L, fd)

(***************************************************************************)
(* No watcher gets an event of a file that its fd was opened for earlier:  *)
(* the requests in the rings live on, but are of an old generation.        *)
(***************************************************************************)
NoStaleEvents == wrong = {}

(***************************************************************************)
(* While the loop waits with nothing to handle, the timerfd is set to wake *)
(* it up in time, although it is only set again when the program believes  *)
(* it to be too late.                                                      *)
(***************************************************************************)
WakesInTime ==
  phase = "wait" /\ U.cq = <<>> =>
    /\ U.tfd <= due
    /\ \E r \in Range(U.polls) : r.fd = TFD /\ r.gen = L.egen[TFD]

(***************************************************************************)
(* "watcher should not keep loop alive" (ev_iouring.c:684): the loop's     *)
(* references are those of the program's watchers.                         *)
(***************************************************************************)
TfdKeepsNoLoopAlive == activecnt = Cardinality(L.active \ {tfd_w})

(***************************************************************************)
(* "possibly EBUSY - do the full poll and let it handle any issues"        *)
(* (ev_iouring.c:278): fd_reify gets its sqes, as long as it goes on.      *)
(***************************************************************************)
SqesAreGot == phase = "reify" ~> phase # "reify"
=============================================================================
