----------------------------- MODULE EvLifecycle ----------------------------
(***************************************************************************)
(* The descriptors of a default loop (src/ev.c): ev_default_loop and       *)
(* loop_init, the internal watchers that are made when they are first      *)
(* needed (evpipe_init, evtimerfd_init, infy_init, the signalfd),          *)
(* loop_fork in the child of a fork and ev_loop_destroy.  evpipe_init and  *)
(* loop_fork are modelled one system call at a time: other threads open    *)
(* files in between, and signal handlers write to evpipe [1].              *)
(*                                                                         *)
(* The kernel's side is fdt, the process' table of descriptors; an object  *)
(* in it is an open file, the two ends of a pipe have the same id.         *)
(***************************************************************************)
EXTENDS Integers

CONSTANTS
  EVENTFDS,    \* what eventfd () may do: a subset of BOOLEAN
  FEATURES,    \* the internal watchers used besides the pipe
  ORPHANS,     \* the loop may be destroyed with watchers that are active
  RESTARTS,    \* bound: how often ev_default_loop is called again
  MaxFd, MaxObjects, MaxForks, MaxUsers   \* bounds

ASSUME LifeAssumption == MaxFd \in Nat /\ EVENTFDS \subseteq BOOLEAN

Lazy == {"sigfd", "timerfd", "fs_fd"}
Closed == [kind |-> "closed", id |-> 0]

VARIABLES
  fdt,          \* fd -> object
  objects,      \* the number of objects made so far
  exists,       \* ev_default_loop_ptr
  backend_fd,
  evpipe,       \* evpipe [0], evpipe [1]
  fds,          \* the local variable of evpipe_init
  fd,           \* the internal watchers' fds: those in Lazy
  running,      \* the active internal watchers: Lazy and "pipe_w"
  pipe_w_fd,    \* pipe_w.fd
  activecnt,
  users,        \* the number of the program's active watchers
  postfork,     \* 0 .. 3
  func,         \* the C function that is running
  renewals,     \* what loop_fork has left
  shared,       \* ghost: objects that the parent has as well
  strayed,      \* ghost: a descriptor closed that was not the loop's
  restarts, forks

life_vars == <<fdt, objects, exists, backend_fd, evpipe, fds, fd, running, pipe_w_fd, activecnt,
               users, postfork, func, renewals, shared, strayed, restarts, forks>>

\* The descriptor the next file gets in a table: the lowest that is free, as
\* POSIX has it.  Bound: none in a full table.
Lowest(t) == {n \in DOMAIN t : t[n] = Closed /\ \A m \in 1 .. n - 1 : t[m] # Closed}
New(kind, k) == [kind |-> kind, id |-> objects + k]
Own == {"backend", "pipe_r", "pipe_w", "eventfd"} \cup Lazy

\* close (n) on a table
ClosedFds(t, ns) == [n \in DOMAIN t |-> IF n \in ns THEN Closed ELSE t[n]]
Stray(ns) == \E n \in ns : n > 0 /\ fdt[n].kind \notin Own

LifeInit ==
  /\ fdt = [n \in 1 .. MaxFd |-> Closed] /\ objects = 0
  /\ exists = FALSE /\ backend_fd = -1 /\ evpipe = <<-1, -1>> /\ fds = <<-1, -1>>
  /\ fd = [k \in Lazy |-> -2] /\ running = {} /\ pipe_w_fd = -1
  /\ activecnt = 0 /\ users = 0 /\ postfork = 0
  /\ func = "idle" /\ renewals = {} /\ shared = {} /\ strayed = FALSE
  /\ restarts = 0 /\ forks = 0

Idle == exists /\ func = "idle"
CanOpen == objects + 2 <= MaxObjects

-----------------------------------------------------------------------------
\* ev_default_loop and loop_init.  Destroying leaves the watchers' memory as
\* it was: pipe_w is initialised here, the other ones when they are started.
\* childev, a signal watcher, is started and unrefed; it needs the pipe unless
\* there is a signalfd.
EvDefaultLoop ==
  /\ ~exists /\ exists' = TRUE /\ CanOpen
  /\ restarts < RESTARTS + 1 /\ restarts' = restarts + 1
  /\ backend_fd' \in Lowest(fdt)
  /\ fdt' = [fdt EXCEPT ![backend_fd'] = New("backend", 1)]
  /\ objects' = objects + 1
  /\ evpipe' = <<-1, -1>> /\ fd' = [k \in Lazy |-> -2]
  /\ running' = running \ {"pipe_w"}
  /\ func' \in {"idle", "create"}
  /\ UNCHANGED <<fds, pipe_w_fd, activecnt, users, postfork, renewals, shared, strayed, forks>>

\* Bug: an eventfd, which has no evpipe [0], is left open.
DestroyedPipe ==
  {backend_fd} \cup (IF "pipe_w" \in running /\ evpipe[1] > 0 THEN {evpipe[1], evpipe[2]} ELSE {})
    \cup {fd[k] : k \in (Lazy \ {"fs_fd"}) \cap running} \cup {fd["fs_fd"]}

\* What ev_loop_destroy closes; fs_fd whenever it is one.
Destroyed ==
  {backend_fd} \cup (IF "pipe_w" \in running THEN {evpipe[1], evpipe[2]} ELSE {})
    \cup {fd[k] : k \in (Lazy \ {"fs_fd"}) \cap running} \cup {fd["fs_fd"]}

EvLoopDestroy ==
  /\ Idle /\ exists' = FALSE
  /\ ORPHANS \/ users = 0
  /\ fdt' = ClosedFds(fdt, Destroyed)
  /\ strayed' = (strayed \/ Stray(Destroyed))
  /\ users' = 0     \* orphaned, if there are any
  /\ UNCHANGED <<objects, backend_fd, evpipe, fds, fd, running, pipe_w_fd, activecnt, postfork,
                 func, renewals, shared, restarts, forks>>

-----------------------------------------------------------------------------
\* The start of a watcher that needs pipe_w (an async or a signal)
StartAsync ==
  /\ Idle /\ users < MaxUsers /\ users' = users + 1 /\ activecnt' = activecnt + 1
  /\ func' = IF "pipe_w" \in running THEN "idle" ELSE "create"
  /\ UNCHANGED <<fdt, objects, exists, backend_fd, evpipe, fds, fd, running, pipe_w_fd,
                 postfork, renewals, shared, strayed, restarts, forks>>

\* ... or a periodic, stat or signal watcher that needs the fd k, which is
\* tried only once
StartLazy(k) ==
  /\ Idle /\ k \in FEATURES /\ users < MaxUsers /\ users' = users + 1
  /\ IF fd[k] # -2 \/ (k = "timerfd" /\ k \in running)
       THEN UNCHANGED <<fdt, objects, fd, running>>
       ELSE \/ /\ CanOpen /\ objects' = objects + 1
               /\ \E n \in Lowest(fdt) :
                    fdt' = [fdt EXCEPT ![n] = New(k, 1)] /\ fd' = [fd EXCEPT ![k] = n]
               /\ running' = running \cup {k}
            \/ fd' = [fd EXCEPT ![k] = -1] /\ UNCHANGED <<fdt, objects, running>>
  /\ activecnt' = activecnt + 1     \* the internal watcher is started and unrefed
  /\ UNCHANGED <<exists, backend_fd, evpipe, fds, pipe_w_fd, postfork, func, renewals, shared, strayed,
                 restarts, forks>>

StopWatcher ==
  /\ Idle /\ users > 0 /\ users' = users - 1 /\ activecnt' = activecnt - 1
  /\ UNCHANGED <<fdt, objects, exists, backend_fd, evpipe, fds, fd, running, pipe_w_fd, postfork,
                 func, renewals, shared, strayed, restarts, forks>>

-----------------------------------------------------------------------------
\* evpipe_init, from an ev_async_start or from loop_fork

CreatePipe ==
  /\ func = "create" /\ CanOpen /\ objects' = objects + 1
  /\ \E ok \in EVENTFDS : \E r \in Lowest(fdt) :
       LET withR == [fdt EXCEPT ![r] = New("pipe_r", 1)]
       IN  IF ok THEN fdt' = [fdt EXCEPT ![r] = New("eventfd", 1)] /\ fds' = <<-1, r>>
           ELSE \E w \in Lowest(withR) :
                  fdt' = [withR EXCEPT ![w] = New("pipe_w", 1)] /\ fds' = <<r, w>>
  /\ func' = "dup"
  /\ UNCHANGED <<exists, backend_fd, evpipe, fd, running, pipe_w_fd, activecnt, users, postfork,
                 renewals, shared, strayed, restarts, forks>>

\* Bug: evpipe [1] is changed to the new fd.
WriteEndMoves == fds[2]
\* On subsequent calls evpipe [1] stays.
WriteEnd == IF evpipe[2] < 0 THEN fds[2] ELSE evpipe[2]

DupPipe ==
  /\ func = "dup"
  /\ evpipe' = <<fds[1], WriteEnd>>
  /\ fdt' = [fdt EXCEPT ![WriteEnd] = fdt[fds[2]]]
  /\ func' = "close"
  /\ UNCHANGED <<objects, exists, backend_fd, fds, fd, running, pipe_w_fd, activecnt, users,
                 postfork, renewals, shared, strayed, restarts, forks>>

\* close (fds [1]), then pipe_w is started and unrefed
ClosePipe ==
  /\ func = "close"
  /\ LET spare == IF fds[2] = evpipe[2] THEN {} ELSE {fds[2]} IN
       fdt' = ClosedFds(fdt, spare) /\ strayed' = (strayed \/ Stray(spare))
  /\ pipe_w_fd' = IF evpipe[1] < 0 THEN evpipe[2] ELSE evpipe[1]
  /\ running' = running \cup {"pipe_w"}
  /\ func' = "idle" /\ renewals' = {}
  /\ postfork' = IF renewals = {"pipe"} THEN 0 ELSE postfork    \* loop_fork's end
  /\ UNCHANGED <<objects, exists, backend_fd, evpipe, fds, fd, activecnt, users, shared, restarts,
                 forks>>

-----------------------------------------------------------------------------
\* The program goes on in the child, with copies of the descriptors, and has
\* called ev_loop_fork.
Fork ==
  /\ Idle /\ forks < MaxForks /\ forks' = forks + 1
  /\ postfork' = 1
  /\ shared' = {fdt[n] : n \in {m \in DOMAIN fdt : fdt[m].kind \in Own}}
  /\ UNCHANGED <<fdt, objects, exists, backend_fd, evpipe, fds, fd, running, pipe_w_fd, activecnt,
                 users, func, renewals, strayed, restarts>>

\* epoll_poll asks for new kernel state.
BackendAsks ==
  /\ Idle /\ postfork < 2 /\ postfork' = postfork + 2
  /\ UNCHANGED <<fdt, objects, exists, backend_fd, evpipe, fds, fd, running, pipe_w_fd, activecnt,
                 users, func, renewals, shared, strayed, restarts, forks>>

RenewsAll == postfork # 2

\* loop_fork begins; it makes the parts in renewals anew, the backend first.
LoopFork ==
  /\ Idle /\ postfork # 0 /\ func' = "fork"
  /\ renewals' = {"backend"} \cup {k \in {"fs_fd"} : fd[k] >= 0}
               \cup (IF RenewsAll THEN {"timerfd"} \cap running ELSE {})
  /\ UNCHANGED <<fdt, objects, exists, backend_fd, evpipe, fds, fd, running, pipe_w_fd, activecnt,
                 users, postfork, shared, strayed, restarts, forks>>

RenewedBefore(k) == CASE k = "backend" -> {} [] k = "fs_fd" -> {"backend"}
                      [] OTHER -> {"backend", "fs_fd"}

NotRenewed(k) == -1

\* close and create; infy_newfd and timerfd_create may fail.
Renew(k) ==
  /\ func = "fork" /\ k \in renewals /\ renewals \cap RenewedBefore(k) = {}
  /\ renewals' = renewals \ {k} /\ CanOpen
  /\ LET old == IF k = "backend" THEN backend_fd ELSE fd[k]
         t == ClosedFds(fdt, {old})
     IN  /\ strayed' = (strayed \/ Stray({old}))
         /\ \/ /\ objects' = objects + 1
               /\ \E n \in Lowest(t) :
                    /\ fdt' = [t EXCEPT ![n] = New(k, 1)]
                    /\ IF k = "backend" THEN backend_fd' = n /\ UNCHANGED fd
                       ELSE fd' = [fd EXCEPT ![k] = n] /\ UNCHANGED backend_fd
               /\ UNCHANGED running
            \/ /\ k # "backend" /\ fdt' = t /\ fd' = [fd EXCEPT ![k] = NotRenewed(k)]
               /\ running' = running \ {k} /\ UNCHANGED <<objects, backend_fd>>
  /\ UNCHANGED <<exists, evpipe, fds, pipe_w_fd, activecnt, users, postfork, func, shared, restarts,
                 forks>>

\* The pipe comes last: pipe_w is stopped and evpipe [0] closed.
RenewPipe ==
  /\ func = "fork" /\ renewals = {}
  /\ IF RenewsAll /\ "pipe_w" \in running
       THEN LET old == IF evpipe[1] >= 0 THEN {evpipe[1]} ELSE {} IN
            /\ fdt' = ClosedFds(fdt, old) /\ strayed' = (strayed \/ Stray(old))
            /\ running' = running \ {"pipe_w"}
            /\ func' = "create" /\ renewals' = {"pipe"} /\ UNCHANGED postfork
       ELSE func' = "idle" /\ postfork' = 0 /\ UNCHANGED <<fdt, strayed, running, renewals>>
  /\ UNCHANGED <<objects, exists, backend_fd, evpipe, fds, fd, pipe_w_fd, activecnt, users,
                 shared, restarts, forks>>

\* Another thread opens a file, at any time.  Bound: one.
OpenOther ==
  /\ \A n \in DOMAIN fdt : fdt[n].kind # "other"
  /\ objects < MaxObjects /\ objects' = objects + 1
  /\ \E n \in Lowest(fdt) : fdt' = [fdt EXCEPT ![n] = New("other", 1)]
  /\ UNCHANGED <<exists, backend_fd, evpipe, fds, fd, running, pipe_w_fd, activecnt, users,
                 postfork, func, renewals, shared, strayed, restarts, forks>>

LifeNext ==
  \/ EvDefaultLoop \/ EvLoopDestroy \/ StartAsync \/ StopWatcher
  \/ \E k \in Lazy : StartLazy(k) \/ Renew(k)
  \/ CreatePipe \/ DupPipe \/ ClosePipe
  \/ Fork \/ BackendAsks \/ LoopFork \/ Renew("backend") \/ RenewPipe \/ OpenOther

LifeSpec == LifeInit /\ [][LifeNext]_life_vars

-----------------------------------------------------------------------------
\* The descriptors that the loop knows of.
Known == {backend_fd, evpipe[1], evpipe[2]} \cup {fd[k] : k \in Lazy}

(***************************************************************************)
(* Between two calls the loop's open files are those it knows of, and none *)
(* when it has been destroyed: none is leaked by a fork, by a failure, or  *)
(* when the pipe has been replaced by an eventfd or the other way round.   *)
(***************************************************************************)
NothingLeaked ==
  func = "idle" => \A n \in DOMAIN fdt : fdt[n].kind \in Own => exists /\ n \in Known

(***************************************************************************)
(* The loop closes no descriptor that by now is another thread's.          *)
(***************************************************************************)
ClosesOnlyOwn == ~strayed

(***************************************************************************)
(* After loop_fork the child shares nothing with its parent but a          *)
(* signalfd, also when the backend asked for new state at the same time,   *)
(* and the write end wakes up this loop.                                   *)
(***************************************************************************)
OwnAfterFork ==
  Idle /\ postfork % 2 = 0 =>
    /\ \A n \in {backend_fd, evpipe[1], evpipe[2], fd["timerfd"], fd["fs_fd"]} :
         n > 0 => fdt[n] \notin shared
    /\ evpipe[2] > 0 => fdt[evpipe[2]].id = fdt[pipe_w_fd].id

(***************************************************************************)
(* A loop's descriptors through creation, fork, failing system calls and   *)
(* destruction: none is leaked, none closed that is another's by now, none *)
(* is shared with the parent.                                              *)
(***************************************************************************)
DescriptorsOwned == NothingLeaked /\ ClosesOnlyOwn /\ OwnAfterFork

(***************************************************************************)
(* evpipe_write "can always rely on" evpipe [1] (ev.c:2767): as long as    *)
(* the loop exists it does not change, and names a write end at any time,  *)
(* also while loop_fork replaces the pipe.                                 *)
(***************************************************************************)
WriteEndStable ==
  [][exists /\ exists' /\ evpipe[2] > 0 =>
       /\ evpipe'[2] = evpipe[2]
       /\ fdt'[evpipe[2]].kind \in {"pipe_w", "eventfd"}]_life_vars

(***************************************************************************)
(* "To start fresh, i.e. without any active watchers ... ev_loop_destroy   *)
(* (EV_DEFAULT) followed by ev_default_loop" (ev.pod:3417-3429): the       *)
(* references of the new loop are those of its own watchers.               *)
(***************************************************************************)
FreshLoop == exists => activecnt = users
=============================================================================
