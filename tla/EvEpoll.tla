------------------------------ MODULE EvEpoll ------------------------------
(***************************************************************************)
(* File descriptors: ev_io_start and ev_io_stop, fdchanges and fd_reify    *)
(* (src/ev.c) with the epoll backend (src/unix/ev_epoll.c), which is told  *)
(* of changes as late and as seldom as possible, against a kernel that     *)
(* forgets registrations of closed files without a word and goes on        *)
(* reporting those of files that are open elsewhere.                       *)
(*                                                                         *)
(* A file is an open file description.  The kernel knows registrations by  *)
(* fd number and file; libev knows fd numbers and generations (egen).      *)
(* Callbacks run in phase "user"; a pending event is kept as EventQueue    *)
(* keeps it.                                                               *)
(***************************************************************************)
EXTENDS Naturals, SequencesExt

CONSTANTS
  Fds, Files,
  EpermFiles,  \* files epoll refuses and that are always ready
  Watchers,
  Fd,          \* w->fd
  Events,      \* w->events
  FAILS,       \* epoll_ctl may fail to add an fd (ENOMEM, ENOSPC)
  NoFile,
  MaxGen       \* bound: no io watcher is started on an fd of this generation

EV_RW == {"EV_READ", "EV_WRITE"}

ASSUME EpollAssumption ==
  /\ IsFiniteSet(Fds)
  /\ EpermFiles \subseteq Files /\ NoFile \notin Files
  /\ Fd \in [Watchers -> Fds]
  /\ Events \in [Watchers -> SUBSET EV_RW]
  /\ FAILS \in BOOLEAN /\ MaxGen \in Nat

VARIABLES
  file,       \* the file behind every fd
  others,     \* files with another descriptor, here or in another process
  interest,   \* the registrations of backend_fd
  active,     \* the active watchers; anfds [fd].head is those of the fd
  iofdset,    \* watchers with EV__IOFDSET in w->events
  anfds, fdchanges,
  epoll_eperms, \* as a set: the order is of no consequence, nor is an fd listed twice
  postfork,   \* new kernel state is needed
  phase,      \* "user", "fork", "reify", "poll" or "gather"
  changecnt,  \* the fdchanges fd_reify has still to do
  reports,    \* the events epoll_wait returned and epoll_poll has not handled
  pend,       \* the events pending on every watcher
  unwanted,   \* ghost: the registrations that reported what nobody wants
  failed      \* ghost: epoll_ctl has failed to add an fd

kvars == <<file, others, interest>>
avars == <<anfds, fdchanges, epoll_eperms>>
lvars == <<postfork, phase, changecnt, reports, failed>>
vars == <<kvars, active, iofdset, avars, lvars, pend, unwanted>>

Masks == SUBSET EV_RW
Registration == [fd : Fds, file : Files, mask : Masks, egen : Nat]
Report == [reg : Registration, got : Masks]

ANFD == [events : Masks, reify : SUBSET {"EV_ANFD_REIFY", "EV__IOFDSET"},
         emask : Masks \cup {{"EV_EMASK_EPERM"}}, egen : Nat]

TypeOK ==
  /\ file \in [Fds -> Files \cup {NoFile}]
  /\ others \subseteq Files
  /\ interest \subseteq Registration
  /\ active \subseteq Watchers /\ iofdset \subseteq Watchers
  /\ anfds \in [Fds -> ANFD]
  /\ fdchanges \in Seq(Fds) /\ epoll_eperms \subseteq Fds
  /\ postfork \in BOOLEAN
  /\ phase \in {"user", "fork", "reify", "poll", "gather"}
  /\ changecnt \in 0 .. Len(fdchanges)
  /\ reports \subseteq Report
  /\ pend \in [Watchers -> SUBSET (EV_RW \cup {"EV_ERROR"})]
  /\ unwanted \subseteq Registration
  /\ failed \in BOOLEAN

Init ==
  /\ file = [fd \in Fds |-> NoFile]
  /\ others = {} /\ interest = {}
  /\ active = {} /\ iofdset = Watchers
  /\ anfds = [fd \in Fds |-> [events |-> {}, reify |-> {}, emask |-> {}, egen |-> 0]]
  /\ fdchanges = <<>> /\ epoll_eperms = {}
  /\ postfork = FALSE
  /\ phase = "user"
  /\ changecnt = 0 /\ reports = {}
  /\ pend = [w \in Watchers |-> {}]
  /\ unwanted = {}
  /\ failed = FALSE

HeadOf(fd) == {w \in active : Fd[w] = fd}

Wanted(fd) == UNION {Events[w] : w \in HeadOf(fd)}

IsOpen(f) == f \in others \/ \E fd \in Fds : file[fd] = f

\* the registration that epoll_ctl finds for an fd
RegOf(fd) == {r \in interest : r.fd = fd /\ r.file = file[fd]}

\* fd_change of some fds: those that have no change queued yet are appended
FdChange(fds) ==
  fdchanges' = fdchanges \o SetToSeq({fd \in fds : anfds[fd].reify = {}})

-----------------------------------------------------------------------------
\* The program and other processes.

EvIoSet(w) ==
  /\ phase = "user" /\ w \notin active
  /\ iofdset' = iofdset \cup {w}
  /\ UNCHANGED <<kvars, active, avars, lvars, pend, unwanted>>

EvIoStart(w) ==
  LET fd == Fd[w]
  IN  /\ phase = "user" /\ w \notin active
      /\ file[fd] # NoFile /\ anfds[fd].egen < MaxGen
      /\ active' = active \cup {w}
      /\ FdChange({fd})
      /\ anfds' = [anfds EXCEPT ![fd].reify = @ \cup {"EV_ANFD_REIFY"} \cup
                     IF w \in iofdset THEN {"EV__IOFDSET"} ELSE {}]
      /\ iofdset' = iofdset \ {w}
      /\ UNCHANGED <<kvars, epoll_eperms, lvars, pend, unwanted>>

EvIoStop(w) ==
  /\ phase = "user"
  /\ pend' = [pend EXCEPT ![w] = {}]
  /\ IF w \in active
       THEN /\ active' = active \ {w}
            /\ FdChange({Fd[w]})
            /\ anfds' = [anfds EXCEPT ![Fd[w]].reify = @ \cup {"EV_ANFD_REIFY"}]
       ELSE UNCHANGED <<active, anfds, fdchanges>>
  /\ UNCHANGED <<kvars, iofdset, epoll_eperms, lvars, unwanted>>

\* open, socket, accept; watchers of the number are ev_io_set before they are
\* started again (ev.pod, "disappearing file descriptors")
Open(fd) ==
  /\ phase = "user" /\ file[fd] = NoFile
  /\ \E f \in Files : ~IsOpen(f) /\ file' = [file EXCEPT ![fd] = f]
  /\ iofdset' = iofdset \cup {w \in Watchers : Fd[w] = fd}
  /\ UNCHANGED <<others, interest, active, avars, lvars, pend, unwanted>>

\* close, once the watchers are stopped; the last one takes the registrations
Close(fd) ==
  /\ phase = "user" /\ file[fd] # NoFile /\ HeadOf(fd) = {}
  /\ file' = [file EXCEPT ![fd] = NoFile]
  /\ interest' = IF file[fd] \in others THEN interest
                 ELSE {r \in interest : r.file # file[fd]}
  /\ UNCHANGED <<others, active, iofdset, avars, lvars, pend, unwanted>>

\* dup, or a fork whose child keeps the descriptor
Dup(fd) ==
  /\ phase = "user" /\ file[fd] # NoFile
  /\ others' = others \cup {file[fd]}
  /\ UNCHANGED <<file, interest, active, iofdset, avars, lvars, pend, unwanted>>

\* ... and its close
CloseOther(f) ==
  /\ phase = "user" /\ f \in others
  /\ others' = others \ {f}
  /\ interest' = IF \E fd \in Fds : file[fd] = f THEN interest
                 ELSE {r \in interest : r.file # f}
  /\ UNCHANGED <<file, active, iofdset, avars, lvars, pend, unwanted>>

EvLoopFork ==
  /\ phase = "user" /\ \A fd \in Fds : anfds[fd].egen < MaxGen
  /\ postfork' = TRUE
  /\ UNCHANGED <<kvars, active, iofdset, avars, phase, changecnt, reports, pend,
                 unwanted, failed>>

\* a callback takes the events
Invoke(w) ==
  /\ phase = "user" /\ pend[w] # {}
  /\ pend' = [pend EXCEPT ![w] = {}]
  /\ UNCHANGED <<kvars, active, iofdset, avars, lvars, unwanted>>

\* nothing is pending, ev_run goes on
Iterate ==
  /\ phase = "user" /\ \A w \in Watchers : pend[w] = {}
  /\ phase' = "fork"
  /\ UNCHANGED <<kvars, active, iofdset, avars, postfork, changecnt, reports,
                 pend, unwanted, failed>>

-----------------------------------------------------------------------------
\* loop_fork: epoll_fork and fd_rearm_all.

Rearmed == {fd \in Fds : anfds[fd].events # {}}

FdRearmAll ==
  /\ anfds' = [fd \in Fds |-> IF fd \notin Rearmed THEN anfds[fd] ELSE
       [anfds[fd] EXCEPT !.events = {}, !.emask = {},
                         !.reify = {"EV_ANFD_REIFY", "EV__IOFDSET"}]]
  /\ FdChange(Rearmed)

LoopFork ==
  /\ phase = "fork"
  /\ IF postfork
       THEN interest' = {} /\ FdRearmAll
       ELSE UNCHANGED <<interest, anfds, fdchanges>>
  /\ postfork' = FALSE
  /\ phase' = "reify"
  /\ changecnt' = Len(fdchanges')
  /\ UNCHANGED <<file, others, active, iofdset, epoll_eperms, reports, pend,
                 unwanted, failed>>

-----------------------------------------------------------------------------
\* fd_reify and epoll_modify.

Register(fd, mask, egen) ==
  interest' = (interest \ RegOf(fd)) \cup
                {[fd |-> fd, file |-> file[fd], mask |-> mask, egen |-> egen]}

\* fd_kill of the first fd of fdchanges: its watchers stop with an error
FdKill(fd, anfd) ==
  /\ active' = active \ HeadOf(fd)
  /\ pend' = [w \in Watchers |->
                IF w \in HeadOf(fd) THEN EV_RW \cup {"EV_ERROR"} ELSE pend[w]]
  /\ anfds' = [anfds EXCEPT ![fd] = [anfd EXCEPT !.reify = {"EV_ANFD_REIFY"}]]
  /\ fdchanges' = Append(Tail(fdchanges), fd)

\* the emask of an fd that epoll refuses
EpermMask(nev) == {"EV_EMASK_EPERM"}

\* Bug: a registration that is believed to be the same is not even tried.
EpollModifyTrusting(fd, oev, nev, anfd) ==
  LET known == anfd.emask = nev
      egen == IF known THEN anfd.egen ELSE anfd.egen + 1
  IN  /\ IF known THEN UNCHANGED interest ELSE Register(fd, nev, egen)
      /\ anfds' = [anfds EXCEPT ![fd] = [anfd EXCEPT !.emask = nev, !.egen = egen]]
      /\ fdchanges' = Tail(fdchanges)
      /\ UNCHANGED <<epoll_eperms, active, pend, failed>>

\* epoll_modify (fd, oev, nev) for nev other than 0, on the anfd fd_reify left.
\* A MOD that finds nothing (ENOENT) becomes an ADD and an ADD that finds
\* something (EEXIST) a MOD, but not if the mask seems to be the same already.
EpollModify(fd, oev, nev, anfd) ==
  LET op == IF oev # {} /\ anfd.emask # nev THEN "MOD" ELSE "ADD"
      same == op = "ADD" /\ RegOf(fd) # {} /\ anfd.emask = nev
      egen == IF same THEN anfd.egen ELSE anfd.egen + 1
  IN  \/ /\ file[fd] \in EpermFiles
         /\ anfds' = [anfds EXCEPT
              ![fd] = [anfd EXCEPT !.emask = EpermMask(nev), !.egen = egen]]
         /\ epoll_eperms' = IF "EV_EMASK_EPERM" \in anfd.emask THEN epoll_eperms
                            ELSE epoll_eperms \cup {fd}
         /\ fdchanges' = Tail(fdchanges)
         /\ UNCHANGED <<interest, active, pend, failed>>
      \/ /\ file[fd] \notin EpermFiles
         /\ IF same THEN UNCHANGED interest ELSE Register(fd, nev, egen)
         /\ anfds' = [anfds EXCEPT ![fd] = [anfd EXCEPT !.emask = nev, !.egen = egen]]
         /\ fdchanges' = Tail(fdchanges)
         /\ UNCHANGED <<epoll_eperms, active, pend, failed>>
      \/ /\ FAILS /\ file[fd] \notin EpermFiles /\ RegOf(fd) = {}
         /\ FdKill(fd, [anfd EXCEPT !.emask = nev])
         /\ failed' = TRUE
         /\ UNCHANGED <<interest, epoll_eperms>>

\* one round of fd_reify's loop
FdReify ==
  /\ phase = "reify" /\ changecnt > 0
  /\ LET fd == Head(fdchanges)
         old == anfds[fd]
         nev == Wanted(fd)
         anfd == [old EXCEPT !.events = nev, !.reify = {}]
     IN  IF nev # {} /\ (old.events # nev \/ "EV__IOFDSET" \in old.reify)
           THEN EpollModify(fd, old.events, nev, anfd)
           ELSE /\ anfds' = [anfds EXCEPT ![fd] = anfd]
                /\ fdchanges' = Tail(fdchanges)
                /\ UNCHANGED <<interest, epoll_eperms, active, pend, failed>>
  /\ changecnt' = changecnt - 1
  /\ UNCHANGED <<file, others, iofdset, postfork, phase, reports, unwanted>>

FdReified ==
  /\ phase = "reify" /\ changecnt = 0
  /\ phase' = "poll"
  /\ UNCHANGED <<kvars, active, iofdset, avars, postfork, changecnt, reports,
                 pend, unwanted, failed>>

-----------------------------------------------------------------------------
\* epoll_poll.

\* what the kernel may report: some of the mask, or both for EPOLLHUP, EPOLLERR
Gots(r) == ((SUBSET r.mask) \ {{}}) \cup {EV_RW}

PollReturns ==
  /\ phase = "poll"
  /\ \E ready \in SUBSET interest : \E got \in [ready -> Masks] :
       /\ \A r \in ready : got[r] \in Gots(r)
       /\ reports' = {[reg |-> r, got |-> got[r]] : r \in ready}
  /\ phase' = "gather"
  /\ unwanted' = {}
  /\ UNCHANGED <<kvars, active, iofdset, avars, postfork, changecnt, pend, failed>>

\* EINTR
PollInterrupted ==
  /\ phase = "poll"
  /\ phase' = "user"
  /\ unwanted' = {}
  /\ UNCHANGED <<kvars, active, iofdset, avars, postfork, changecnt, reports, pend, failed>>

\* fd_event: nothing for an fd with a change queued
FdEvent(fd, revents) ==
  pend' = [w \in Watchers |->
             IF w \in HeadOf(fd) /\ anfds[fd].reify = {}
               THEN pend[w] \cup (Events[w] \cap revents) ELSE pend[w]]

\* Bug: the deletion of a registration is left to the kernel, as elsewhere.
TellChanges(fd, want, egen) ==
  IF want = {} THEN UNCHANGED interest ELSE Register(fd, want, egen)

\* the answer to an unwanted report
Tell(fd, want, egen) ==
  IF want = {} THEN interest' = interest \ RegOf(fd) ELSE Register(fd, want, egen)

\* Bug: the generation of a report is not looked at.
IsStaleNever(e) == FALSE

IsStale(e) == anfds[e.reg.fd].egen # e.reg.egen

\* one report: of an older generation, of something unwanted (then the
\* registration of the fd's current file is changed, or there is none), or
\* an event
GatherReport(e) ==
  LET fd == e.reg.fd
      want == anfds[fd].events
  IN  /\ phase = "gather" /\ e \in reports
      /\ reports' = reports \ {e}
      /\ unwanted' = IF IsStale(e) \/ e.got \cap want = {}
                       THEN unwanted \cup {e.reg} ELSE unwanted
      /\ IF IsStale(e)
           THEN postfork' = TRUE /\ UNCHANGED <<interest, anfds, pend>>
         ELSE IF e.got \subseteq want
           THEN FdEvent(fd, e.got) /\ UNCHANGED <<interest, anfds, postfork>>
         ELSE /\ anfds' = [anfds EXCEPT ![fd].emask = want]
              /\ IF RegOf(fd) = {}
                   THEN postfork' = TRUE /\ UNCHANGED <<interest, pend>>
                   ELSE Tell(fd, want, e.reg.egen) /\ FdEvent(fd, e.got) /\ UNCHANGED postfork
      /\ UNCHANGED <<file, others, active, iofdset, fdchanges, epoll_eperms,
                     phase, changecnt, failed>>

\* the fds epoll refuses get all their events, or leave the list
GatherEperms ==
  LET Ready(fd) == "EV_EMASK_EPERM" \in anfds[fd].emask /\ anfds[fd].events # {}
  IN  /\ phase = "gather" /\ reports = {}
      /\ pend' = [w \in Watchers |->
           IF /\ w \in active /\ Fd[w] \in epoll_eperms
              /\ Ready(Fd[w]) /\ anfds[Fd[w]].reify = {}
             THEN pend[w] \cup (Events[w] \cap anfds[Fd[w]].events) ELSE pend[w]]
      /\ epoll_eperms' = {fd \in epoll_eperms : Ready(fd)}
      /\ anfds' = [fd \in Fds |-> IF fd \in epoll_eperms /\ ~Ready(fd)
                                    THEN [anfds[fd] EXCEPT !.emask = {}]
                                    ELSE anfds[fd]]
      /\ phase' = "user"
      /\ UNCHANGED <<kvars, active, iofdset, fdchanges, postfork, changecnt,
                     reports, unwanted, failed>>

Next ==
  \/ \E w \in Watchers : EvIoSet(w) \/ EvIoStart(w) \/ EvIoStop(w) \/ Invoke(w)
  \/ \E fd \in Fds : Open(fd) \/ Close(fd) \/ Dup(fd)
  \/ \E f \in Files : CloseOther(f)
  \/ EvLoopFork \/ Iterate
  \/ LoopFork \/ FdReify \/ FdReified
  \/ PollReturns \/ PollInterrupted
  \/ (\E e \in reports : GatherReport(e)) \/ GatherEperms

Spec == Init /\ [][Next]_vars

-----------------------------------------------------------------------------
(***************************************************************************)
(* An fd is in fdchanges, and only once, if and only if its reify is set:  *)
(* also after fd_kill in the middle of fd_reify and fd_rearm_all (fd_event *)
(* drops events, and fd_change drops changes, by that flag).               *)
(***************************************************************************)
ChangesMatch ==
  /\ IsInjective(fdchanges)
  /\ \A fd \in Fds : fd \in ToSet(fdchanges) <=> anfds[fd].reify # {}

Registered(fd) ==
  \/ \E r \in RegOf(fd) : Wanted(fd) \subseteq r.mask /\ r.egen = anfds[fd].egen
  \/ /\ file[fd] \in EpermFiles
     /\ "EV_EMASK_EPERM" \in anfds[fd].emask /\ fd \in epoll_eperms

(***************************************************************************)
(* When the loop polls, the kernel knows everything the active watchers    *)
(* want, for the file their fd stands for now and under the generation     *)
(* libev believes in, or the fd is listed as always ready: through closed  *)
(* and reopened numbers, ignored deletions, duplicates and new kernel      *)
(* state.                                                                  *)
(***************************************************************************)
InSync ==
  phase = "poll" => \A fd \in Fds : Wanted(fd) # {} => Registered(fd)

(***************************************************************************)
(* fdchanges and the reify flags always agree, and as long as epoll_ctl    *)
(* has not failed the kernel is in sync whenever the loop polls.           *)
(***************************************************************************)
EpollInSync == TypeOK /\ ChangesMatch /\ (~failed => InSync)

(***************************************************************************)
(* A watcher gets no event of a file that its fd no longer stands for,     *)
(* although the kernel goes on reporting a closed fd whose file is open    *)
(* elsewhere (the generation counter of ev_epoll.c); until epoll_ctl fails, *)
(* which leaves the generation of the file before.                         *)
(***************************************************************************)
NoForeignEvents ==
  [][~failed => \A e \in reports \ reports' : \A w \in Watchers :
       Fd[w] = e.reg.fd /\ pend'[w] # pend[w] => e.reg.file = file[e.reg.fd]]_vars

(***************************************************************************)
(* A registration whose report nobody wanted is gone or changed before the *)
(* next poll, so that the loop does not spin on it: it is deleted, or all  *)
(* kernel state is made anew.                                              *)
(***************************************************************************)
UnwantedGone == phase = "poll" => unwanted \cap interest = {}

=============================================================================
