----------------------------- MODULE EvLinuxaio -----------------------------
(***************************************************************************)
(* The backend of src/unix/ev_linuxaio.c on the fd layer FdOps: every fd   *)
(* is polled by a one-shot request of an aio context, which outlives the   *)
(* fd and is told apart by the generation egen.  What io_submit refuses    *)
(* (EINVAL) is handed over to epoll, whose fd is watched by an io watcher, *)
(* and when the context is too small (EAGAIN) it is made anew, or epoll    *)
(* takes over for good.  Of epoll the model has what EvEpoll shows of it:  *)
(* a registration per fd, with a generation.                               *)
(***************************************************************************)
EXTENDS FdOps, FiniteSets

CONSTANTS
  epoll_w,      \* linuxaio_epoll_w
  Fussy,        \* fds for which io_submit may fail with EINVAL
  REQUESTS,     \* what the first context holds; doubled for the next ones
  MaxContexts,  \* bound: there is no larger context than this one
  MaxOpens,     \* bound: how often fds are opened
  MaxGen        \* bound: the loop iterates while egen is below it

EPFD == fdOf[epoll_w]    \* backend_fd
Users == IoWatchers \ {epoll_w}

VARIABLES
  L,           \* the fd layer
  iocb,        \* linuxaio_iocbps: fd -> [epoll: aio_reqprio < 0, buf: aio_buf, gen: aio_data]
  submits,     \* linuxaio_submits: fds
  backend,     \* "linuxaio" or "epoll"
  iteration,   \* linuxaio_iteration
  file,        \* fd -> the file it was opened for, 0 if closed
  reqs, ring,  \* the context: requests and completed ones
  epregs,      \* the registrations of backend_fd
  postfork, phase,
  wrong,       \* ghost: fds for which an event of another file was fed
  opens

aio_vars == <<L, iocb, submits, backend, iteration, file, reqs, ring, epregs, postfork, phase,
              wrong, opens>>

NoIocb == [fd \in Numbers |-> [epoll |-> FALSE, buf |-> {}, gen |-> 0]]

\* linuxaio_init
AioInit ==
  /\ L = IoStart(InitL, epoll_w)
  /\ iocb = NoIocb /\ submits = <<>> /\ backend = "linuxaio" /\ iteration = 0
  /\ file = [fd \in Numbers |-> IF fd = EPFD THEN 1 ELSE 0]
  /\ reqs = {} /\ ring = {} /\ epregs = {}
  /\ postfork = FALSE /\ phase = "user" /\ wrong = {} /\ opens = 1

-----------------------------------------------------------------------------
\* backend_modify, on the record S = [L, iocb, submits, reqs, ring, epregs]

\* io_cancel of the iocb of fd, which completes it without events.
Cancel(S, fd) ==
  LET mine == {r \in S.reqs : r.fd = fd /\ r.gen = S.iocb[fd].gen} IN
  [S EXCEPT !.reqs = @ \ mine, !.ring = @ \cup {[r EXCEPT !.events = {}] : r \in mine}]

Cancelled(S, fd) == [Cancel(S, fd) EXCEPT !.L.egen[fd] = @ + 1]

\* What an earlier linuxaio_modify did is undone first.
Undone(S, fd) ==
  IF S.iocb[fd].epoll
    THEN [S EXCEPT !.epregs = {r \in @ : r.fd # fd}, !.iocb[fd].epoll = FALSE]
    ELSE IF S.iocb[fd].buf # {} THEN Cancelled(S, fd) ELSE S

LinuxaioModify(S, fd, oev, nev) ==
  LET T == [Undone(S, fd) EXCEPT !.iocb[fd].buf = nev] IN
  IF nev = {} THEN T
  ELSE [T EXCEPT !.iocb[fd].gen = T.L.egen[fd], !.submits = Append(@, fd)]

Modify(S, fd, oev, nev) ==
  IF backend = "linuxaio" THEN LinuxaioModify(S, fd, oev, nev) ELSE EpollModify(S, fd, oev, nev)

\* linuxaio_fd_rearm, on S = [L, iocb]
FdRearm(S, fd) ==
  [S EXCEPT !.L = FdChange([@ EXCEPT !.events[fd] = {}], fd, REIFY), !.iocb[fd].buf = {}]

-----------------------------------------------------------------------------
\* The program, between polls

User == phase = "user"

EvIoStart(w) ==
  /\ User /\ w \notin L.active /\ file[fdOf[w]] # 0
  /\ L' = IoStart(L, w)
  /\ UNCHANGED <<iocb, submits, backend, iteration, file, reqs, ring, epregs, postfork, phase,
                 wrong, opens>>

EvIoStop(w) ==
  /\ User /\ w \in L.active
  /\ L' = IoStop(L, w)
  /\ UNCHANGED <<iocb, submits, backend, iteration, file, reqs, ring, epregs, postfork, phase,
                 wrong, opens>>

Invoke(w) ==
  /\ User /\ L.pend[w] # {}
  /\ L' = [L EXCEPT !.pend[w] = {}]
  /\ UNCHANGED <<iocb, submits, backend, iteration, file, reqs, ring, epregs, postfork, phase,
                 wrong, opens>>

OpenFd(fd) ==
  /\ User /\ file[fd] = 0 /\ HeadOf(L, fd) = {}
  /\ opens < MaxOpens /\ opens' = opens + 1
  /\ file' = [file EXCEPT ![fd] = opens']
  /\ L' = [L EXCEPT !.fdset = @ \cup {w \in Users : fdOf[w] = fd}]
  /\ UNCHANGED <<iocb, submits, backend, iteration, reqs, ring, epregs, postfork, phase, wrong>>

\* The request keeps the file, the registration goes with it.
CloseFd(fd) ==
  /\ User /\ file[fd] # 0 /\ fd # EPFD
  /\ file' = [file EXCEPT ![fd] = 0]
  /\ epregs' = {r \in epregs : r.fd # fd}
  /\ UNCHANGED <<L, iocb, submits, backend, iteration, reqs, ring, postfork, phase, wrong, opens>>

EvLoopFork ==
  /\ User /\ ~postfork /\ postfork' = TRUE
  /\ UNCHANGED <<L, iocb, submits, backend, iteration, file, reqs, ring, epregs, phase, wrong, opens>>

\* linuxaio_fork, or epoll_fork
Forked ==
  LET S == [L |-> FdRearmAll(L), iocb |-> NoIocb, submits |-> <<>>, reqs |-> {}, ring |-> {},
            epregs |-> {}]
      stopped == IoStop(S.L, epoll_w)
  IN  IF backend = "epoll" THEN S
      ELSE [S EXCEPT !.L = IoStart([stopped EXCEPT !.fdset = @ \cup {epoll_w}], epoll_w)]

\* loop_fork and fd_reify
LoopForkAndReify ==
  /\ User /\ \A w \in IoWatchers : L.pend[w] = {}
  /\ \A fd \in Numbers : L.egen[fd] < MaxGen
  /\ LET S == IF postfork THEN Forked
              ELSE [L |-> L, iocb |-> iocb, submits |-> submits, reqs |-> reqs, ring |-> ring,
                    epregs |-> epregs]
         T == FdReify(S, Modify)
     IN  /\ L' = T.L /\ iocb' = T.iocb /\ submits' = T.submits
         /\ reqs' = T.reqs /\ ring' = T.ring /\ epregs' = T.epregs
  /\ iteration' = IF postfork THEN 0 ELSE iteration
  /\ postfork' = FALSE /\ phase' = IF backend = "epoll" THEN "poll" ELSE "submit"
  /\ UNCHANGED <<backend, file, wrong, opens>>

-----------------------------------------------------------------------------
\* linuxaio_poll: io_submit, the first iocb that is left

Full == Cardinality(reqs) + Cardinality(ring) >= REQUESTS * 2 ^ iteration
Submitting == phase = "submit" /\ submits # <<>>

SubmitOk ==
  /\ Submitting /\ ~Full /\ file[Head(submits)] # 0
  /\ LET fd == Head(submits) IN
       reqs' = reqs \cup {[fd |-> fd, file |-> file[fd], gen |-> iocb[fd].gen,
                           events |-> iocb[fd].buf]}
  /\ submits' = Tail(submits)
  /\ UNCHANGED <<L, iocb, backend, iteration, file, ring, epregs, postfork, phase, wrong, opens>>

SubmitEinval ==
  /\ Submitting /\ Head(submits) \in Fussy /\ file[Head(submits)] # 0
  /\ LET fd == Head(submits)
         T == EpollModify([L |-> L, epregs |-> epregs], fd, {}, L.events[fd])
     IN  /\ L' = T.L /\ epregs' = T.epregs
         /\ iocb' = [iocb EXCEPT ![fd].epoll = TRUE]
  /\ submits' = Tail(submits)
  /\ UNCHANGED <<backend, iteration, file, reqs, ring, postfork, phase, wrong, opens>>

SubmitEbadf ==
  /\ Submitting /\ file[Head(submits)] = 0
  /\ L' = FdKill(L, Head(submits))
  /\ submits' = Tail(submits)
  /\ UNCHANGED <<iocb, backend, iteration, file, reqs, ring, epregs, postfork, phase, wrong, opens>>

\* Bug: only what has been submitted is rearmed.
ToRearmSubmitted == {fd \in Numbers : iocb[fd].buf # {} /\ \E r \in reqs : r.fd = fd}
ToRearm == {fd \in Numbers : iocb[fd].buf # {}}

\* EAGAIN: a larger context for the next iteration, or epoll from now on.
SubmitEagain ==
  /\ Submitting /\ Full
  /\ LET T == FoldLeft(FdRearm, [L |-> L, iocb |-> iocb], SetToSortSeq(ToRearm, <)) IN
     \/ /\ iteration < MaxContexts
        /\ L' = T.L /\ iocb' = T.iocb /\ UNCHANGED backend
     \/ L' = IoStop(T.L, epoll_w) /\ iocb' = NoIocb /\ backend' = "epoll"
  /\ iteration' = iteration + 1
  /\ submits' = <<>> /\ reqs' = {} /\ ring' = {} /\ phase' = "user"
  /\ UNCHANGED <<file, epregs, postfork, wrong, opens>>

Submitted ==
  /\ phase = "submit" /\ submits = <<>> /\ phase' = "poll"
  /\ UNCHANGED <<L, iocb, submits, backend, iteration, file, reqs, ring, epregs, postfork, wrong,
                 opens>>

-----------------------------------------------------------------------------
\* linuxaio_get_events and epoll_poll

\* The kernel completes a request; backend_fd is ready if one of its fds is.
Complete(r) ==
  /\ r \in reqs /\ (r.fd = EPFD => epregs # {})
  /\ \E got \in ((SUBSET r.events) \ {{}}) \cup {RW} :
       ring' = ring \cup {[r EXCEPT !.events = got]}
  /\ reqs' = reqs \ {r}
  /\ UNCHANGED <<L, iocb, submits, backend, iteration, file, epregs, postfork, phase, wrong, opens>>

IsCurrent(l, e) == e.gen = l.egen[e.fd]

\* linuxaio_parse_events, one event
Parse(S, e) ==
  IF ~IsCurrent(S.L, e) THEN S
  ELSE FdRearm([S EXCEPT !.L = FdEvent(@, e.fd, e.events)], e.fd)

LinuxaioPoll ==
  /\ phase = "poll" /\ backend = "linuxaio"
  /\ LET T == FoldLeft(Parse, [L |-> L, iocb |-> iocb], SetToSeq(ring)) IN
       L' = T.L /\ iocb' = T.iocb
  /\ wrong' = wrong \cup {e.fd : e \in {x \in ring : /\ IsCurrent(L, x) /\ x.file # file[x.fd]
                                                     /\ L.reify[x.fd] = {} /\ HeadOf(L, x.fd) # {}
                                                     /\ file[x.fd] # 0}}
  /\ ring' = {} /\ phase' = "user"
  /\ UNCHANGED <<submits, backend, iteration, file, reqs, epregs, postfork, opens>>

\* linuxaio_epoll_cb
LinuxaioEpollCb ==
  /\ User /\ L.pend[epoll_w] # {}
  /\ \E seq \in ReadyIn(epregs) : L' = EpollEvents([L EXCEPT !.pend[epoll_w] = {}], seq)
  /\ UNCHANGED <<iocb, submits, backend, iteration, file, reqs, ring, epregs, postfork, phase,
                 wrong, opens>>

EpollPoll ==
  /\ phase = "poll" /\ backend = "epoll"
  /\ \E seq \in ReadyIn(epregs) : L' = EpollEvents(L, seq)
  /\ phase' = "user"
  /\ UNCHANGED <<iocb, submits, backend, iteration, file, reqs, ring, epregs, postfork, wrong, opens>>

AioNext ==
  \/ \E w \in Users : EvIoStart(w) \/ EvIoStop(w) \/ Invoke(w)
  \/ \E fd \in Numbers : OpenFd(fd) \/ CloseFd(fd)
  \/ EvLoopFork \/ LoopForkAndReify
  \/ SubmitOk \/ SubmitEinval \/ SubmitEbadf \/ SubmitEagain \/ Submitted
  \/ \E r \in reqs : Complete(r)
  \/ LinuxaioPoll \/ LinuxaioEpollCb \/ EpollPoll

AioSpec == AioInit /\ [][AioNext]_aio_vars

-----------------------------------------------------------------------------
\* A request, its completion or a registration that will report what the
\* watchers of fd want.
Armed(fd) ==
  \/ \E r \in reqs \cup ring : r.fd = fd /\ r.file = file[fd] /\ r.gen = L.egen[fd]
                               /\ (r \in reqs => r.events = Wanted(L, fd))
  \/ \E r \in epregs : r.fd = fd /\ r.gen = L.egen[fd] /\ r.events = Wanted(L, fd)

(***************************************************************************)
(* When the loop waits every open fd with watchers is armed for its        *)
(* current file, although every event disarms it, contexts are thrown away *)
(* and fds move between aio and epoll; while epoll has some of them, its   *)
(* own fd is armed, or epoll is what is polled.                            *)
(***************************************************************************)
AllArmed ==
  phase = "poll" =>
    /\ \A fd \in Numbers : file[fd] # 0 /\ Wanted(L, fd) # {} => Armed(fd)
    /\ backend = "linuxaio" => Armed(EPFD)

(***************************************************************************)
(* No watcher gets an event of a file that its fd was opened for earlier:  *)
(* the requests live on, but they are of an old generation.                *)
(***************************************************************************)
NoStaleEvents == wrong = {}
=============================================================================
