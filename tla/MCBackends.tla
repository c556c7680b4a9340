----------------------------- MODULE MCBackends -----------------------------
(***************************************************************************)
(* The backends of struct ev_loop.  A loop has one of them, and this run   *)
(* looks at one after the other: part says which instance takes steps, the *)
(* variables of the others stay as they are initially.                     *)
(*   epoll        a reader and a writer of one fd number, and three files  *)
(*   epoll_fails  two fd numbers, and epoll_ctl fails                      *)
(*   others       select, poll, kqueue and port, with fds that are closed  *)
(*                before their watchers are stopped                        *)
(*   linuxaio     with epoll for the fds that aio does not poll            *)
(*   iouring      rings that can grow, timeouts and a fork                 *)
(*   overflow     rings that cannot, so that epoll takes over              *)
(***************************************************************************)
EXTENDS MCEvEpoll, Integers

CONSTANTS w1, w2, w3, loop_w

VARIABLES
  part,
  o_backend, o_fds, o_state, open, inkernel, o_postfork, o_phase, bad, stale, refused, o_opens,
  a_fds, iocb, submits, a_backend, iteration, a_file, reqs, ring, a_epregs, a_postfork, a_phase,
  a_wrong, a_opens,
  u_fds, rings, u_backend, u_epregs, activecnt, todo, ops, u_file, now, due, u_phase, u_wrong,
  u_opens, forks

epoll_vars ==
  <<file, others, interest, active, iofdset, anfds, fdchanges, epoll_eperms, postfork, phase,
    changecnt, reports, pend, unwanted, failed>>
other_vars ==
  <<o_backend, o_fds, o_state, open, inkernel, o_postfork, o_phase, bad, stale, refused, o_opens>>
aio_vars ==
  <<a_fds, iocb, submits, a_backend, iteration, a_file, reqs, ring, a_epregs, a_postfork, a_phase,
    a_wrong, a_opens>>
uring_vars ==
  <<u_fds, rings, u_backend, u_epregs, activecnt, todo, ops, u_file, now, due, u_phase, u_wrong,
    u_opens, forks>>

-----------------------------------------------------------------------------
\* Bound: the second fd number is used where epoll_ctl fails, and there without
\* the writer of the first, with two files and one generation of each fd.
EpollBounds ==
  /\ part = "epoll" => file'[fd2] = NoFile /\ ~failed'
  /\ part = "epoll_fails" =>
       /\ writer \notin active' /\ \A fd \in Fds : file'[fd] # B
       /\ \A w \in active' \ active : anfds[Fd[w]].egen = 0
       /\ phase = "user" /\ postfork' # postfork => \A fd \in Fds : anfds[fd].egen = 0

FdOf == w1 :> 1 @@ w2 :> 1 @@ w3 :> 2
EventsOf == w1 :> {"EV_READ"} @@ w2 :> EV_RW @@ w3 :> {"EV_WRITE"}

Others == INSTANCE EvBackends WITH
  IoWatchers <- {w1, w2, w3}, fdOf <- FdOf, eventsOf <- EventsOf,
  Backends <- {"select", "poll", "kqueue", "port"}, MaxOpens <- 3,
  backend <- o_backend, L <- o_fds, B <- o_state, postfork <- o_postfork, phase <- o_phase,
  opens <- o_opens

\* A watcher of each of two fds, and the loop's own on backend_fd or the timerfd
OwnFd == loop_w :> 0 @@ w1 :> 1 @@ w3 :> 2
OwnEvents == loop_w :> {"EV_READ"} @@ w1 :> {"EV_READ"} @@ w3 :> {"EV_WRITE"}
LoopAnd(ws) == [w \in ws \cup {loop_w} |-> OwnFd[w]]
EventsAnd(ws) == [w \in ws \cup {loop_w} |-> OwnEvents[w]]

Aio == INSTANCE EvLinuxaio WITH
  IoWatchers <- {w1, w3, loop_w}, fdOf <- LoopAnd({w1, w3}), eventsOf <- EventsAnd({w1, w3}),
  epoll_w <- loop_w, Fussy <- {1}, REQUESTS <- 2, MaxContexts <- 1, MaxOpens <- 3, MaxGen <- 2,
  L <- a_fds, backend <- a_backend, file <- a_file, epregs <- a_epregs, postfork <- a_postfork,
  phase <- a_phase, wrong <- a_wrong, opens <- a_opens

Uring == INSTANCE EvIouring WITH
  IoWatchers <- {w1, loop_w}, fdOf <- LoopAnd({w1}), eventsOf <- EventsAnd({w1}),
  tfd_w <- loop_w, INIT_ENTRIES <- 1, KERNEL_ENTRIES <- 2, NODROP <- FALSE, MAX_BLOCKTIME <- 1,
  MaxOpens <- 3, MaxForks <- 1, MaxGen <- 2, MaxTime <- 2,
  L <- u_fds, U <- rings, backend <- u_backend, epregs <- u_epregs, file <- u_file,
  phase <- u_phase, wrong <- u_wrong, opens <- u_opens

Full == INSTANCE EvIouring WITH
  IoWatchers <- {w1, w3, loop_w}, fdOf <- LoopAnd({w1, w3}), eventsOf <- EventsAnd({w1, w3}),
  tfd_w <- loop_w, INIT_ENTRIES <- 1, KERNEL_ENTRIES <- 1, NODROP <- FALSE, MAX_BLOCKTIME <- 1,
  MaxOpens <- 3, MaxForks <- 0, MaxGen <- 1, MaxTime <- 1,
  L <- u_fds, U <- rings, backend <- u_backend, epregs <- u_epregs, file <- u_file,
  phase <- u_phase, wrong <- u_wrong, opens <- u_opens

-----------------------------------------------------------------------------
MCInit ==
  /\ part \in {"epoll", "epoll_fails", "others", "linuxaio", "iouring", "overflow"}
  /\ Init
  /\ Others!BackendsInit /\ (part # "others" => o_backend = "poll")
  /\ Aio!AioInit
  /\ IF part = "overflow" THEN Full!UringInit ELSE Uring!UringInit

MCNext ==
  /\ \/ /\ part \in {"epoll", "epoll_fails"} /\ Next /\ EpollBounds
        /\ UNCHANGED <<other_vars, aio_vars, uring_vars>>
     \/ /\ part = "others" /\ Others!BackendsNext
        /\ UNCHANGED <<epoll_vars, aio_vars, uring_vars>>
     \/ /\ part = "linuxaio" /\ Aio!AioNext
        /\ UNCHANGED <<epoll_vars, other_vars, uring_vars>>
     \/ /\ \/ part = "iouring" /\ Uring!UringNext
           \/ part = "overflow" /\ Full!UringNext
        /\ UNCHANGED <<epoll_vars, other_vars, aio_vars>>
  /\ UNCHANGED part

MCSpec == MCInit /\ [][MCNext]_<<part, epoll_vars, other_vars, aio_vars, uring_vars>>

-----------------------------------------------------------------------------
(***************************************************************************)
(* select, poll, kqueue and port ask the kernel for what the watchers      *)
(* want, all of it and nothing else, poll's arrays index one another, and  *)
(* a closed fd is met once (AllAsked, NothingElseAsked, PollIndexed and    *)
(* BadOnce of EvBackends).                                                 *)
(***************************************************************************)
KernelAsked ==
  part = "others" =>
    Others!AllAsked /\ Others!NothingElseAsked /\ Others!PollIndexed /\ Others!BadOnce

(***************************************************************************)
(* kqueue and port do not fail an fd that is open, unless kevent refused it *)
(* (OnlyClosedFail of EvBackends).                                         *)
(***************************************************************************)
OnlyClosedFdsFail == Others!OnlyClosedFail

(***************************************************************************)
(* linuxaio and iouring: while the loop waits every open fd with watchers  *)
(* is armed, and no event of a file that was there before is taken for one *)
(* of the file that is there now; with iouring, the timerfd also wakes the *)
(* loop up in time.  Through forks, full rings and the switch to epoll     *)
(* (AllArmed and NoStaleEvents of both modules, WakesInTime of EvIouring). *)
(***************************************************************************)
RingsArmed ==
  /\ part = "linuxaio" => Aio!AllArmed /\ Aio!NoStaleEvents
  /\ part = "iouring" => Uring!AllArmed /\ Uring!NoStaleEvents /\ Uring!WakesInTime
  /\ part = "overflow" => Full!AllArmed /\ Full!NoStaleEvents /\ Full!WakesInTime

=============================================================================
