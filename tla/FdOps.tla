------------------------------- MODULE FdOps -------------------------------
(***************************************************************************)
(* The fd side of src/ev.c that every backend is built on, as operators on *)
(* a record L:                                                             *)
(*   L.events[fd]  anfds [fd].events, what the backend was last told       *)
(*   L.reify[fd]   anfds [fd].reify                                        *)
(*   L.egen[fd]    anfds [fd].egen                                         *)
(*   L.changes     the first fdchangecnt elements of fdchanges             *)
(*   L.active      the active io watchers (anfds [fd].head: those of fd)   *)
(*   L.fdset       the watchers with EV__IOFDSET in w->events              *)
(*   L.pend[w]     the events w is pending with                            *)
(***************************************************************************)
EXTENDS Naturals, Sequences, SequencesExt

CONSTANTS
  IoWatchers,
  fdOf,       \* w->fd
  eventsOf    \* w->events

Numbers == {fdOf[w] : w \in IoWatchers}   \* numbers below anfdmax
RW == {"EV_READ", "EV_WRITE"}
REIFY == {"EV_ANFD_REIFY"}
IOFDSET == {"EV__IOFDSET"}

InitL ==
  [events |-> [fd \in Numbers |-> {}], reify |-> [fd \in Numbers |-> {}],
   egen |-> [fd \in Numbers |-> 0], changes |-> <<>>,
   active |-> {}, fdset |-> IoWatchers, pend |-> [w \in IoWatchers |-> {}]]

HeadOf(L, fd) == {w \in L.active : fdOf[w] = fd}
Wanted(L, fd) == UNION {eventsOf[w] : w \in HeadOf(L, fd)}

\* fd_change
FdChange(L, fd, flags) ==
  [L EXCEPT !.reify[fd] = @ \cup flags,
            !.changes = IF L.reify[fd] = {} THEN Append(@, fd) ELSE @]

\* ev_io_start and ev_io_stop
IoStart(L, w) ==
  [FdChange(L, fdOf[w], REIFY \cup IF w \in L.fdset THEN IOFDSET ELSE {})
     EXCEPT !.active = @ \cup {w}, !.fdset = @ \ {w}]
IoStop(L, w) ==
  LET cleared == [L EXCEPT !.pend[w] = {}] IN
  IF w \notin L.active THEN cleared
  ELSE [FdChange(cleared, fdOf[w], REIFY) EXCEPT !.active = @ \ {w}]

\* fd_event: not for an fd that changed since the backend was told.
FdEvent(L, fd, revents) ==
  IF L.reify[fd] # {} THEN L
  ELSE [L EXCEPT !.pend = [w \in IoWatchers |->
          IF w \in HeadOf(L, fd) THEN @[w] \cup (eventsOf[w] \cap revents) ELSE @[w]]]

\* fd_kill, fd_ebadf and fd_enomem
FdKill(L, fd) ==
  IF HeadOf(L, fd) = {} THEN L
  ELSE [FdChange(L, fd, REIFY) EXCEPT
          !.active = @ \ HeadOf(L, fd),
          !.pend = [w \in IoWatchers |->
                      IF w \in HeadOf(L, fd) THEN RW \cup {"EV_ERROR"} ELSE @[w]]]
FdEbadf(L, closed) ==
  FoldLeft(FdKill, L, SetToSortSeq({fd \in closed : L.events[fd] # {}}, <))
FdEnomem(L) ==
  LET used == {fd \in Numbers : L.events[fd] # {}} IN
  IF used = {} THEN L ELSE FdKill(L, CHOOSE fd \in used : \A f \in used : f <= fd)

\* fd_rearm_all
FdRearmAll(L) ==
  FoldLeft(LAMBDA M, fd : FdChange([M EXCEPT !.events[fd] = {}], fd, REIFY \cup IOFDSET),
           L, SetToSortSeq({fd \in Numbers : L.events[fd] # {}}, <))

-----------------------------------------------------------------------------

\* fd_reify calls backend_modify for fd.
MustTell(L, fd) == L.events[fd] # Wanted(L, fd) \/ "EV__IOFDSET" \in L.reify[fd]

\* One round of fd_reify, for the layer and a backend B in S = [L, B, ...];
\* Modify (S, fd, oev, nev) is backend_modify.
ReifyOne(S, fd, Modify(_, _, _, _)) ==
  LET told == [S EXCEPT !.L.reify[fd] = {}, !.L.events[fd] = Wanted(S.L, fd)] IN
  IF MustTell(S.L, fd) THEN Modify(told, fd, S.L.events[fd], told.L.events[fd]) ELSE told

\* fd_reify: what the backend appends to fdchanges stays there.
FdReify(S, Modify(_, _, _, _)) ==
  LET changecnt == Len(S.L.changes)
      done == FoldLeft(LAMBDA T, fd : ReifyOne(T, fd, Modify), S, S.L.changes)
  IN  [done EXCEPT !.L.changes = SubSeq(@, changecnt + 1, Len(@))]

-----------------------------------------------------------------------------
(***************************************************************************)
(* The epoll backend, for backends that fall back to it, as far as EvEpoll *)
(* shows it: S.epregs are the registrations, each with the generation it   *)
(* was made in.                                                            *)
(***************************************************************************)
EpollModify(S, fd, oev, nev) ==
  IF nev = {} THEN S
  ELSE [S EXCEPT !.L.egen[fd] = @ + 1,
                 !.epregs = {r \in @ : r.fd # fd} \cup
                              {[fd |-> fd, gen |-> S.L.egen[fd] + 1, events |-> nev]}]

\* What epoll_wait may report of registrations, and epoll_poll makes of it.
ReadyIn(regs) ==
  {SetToSeq({[r EXCEPT !.events = got[r]] : r \in {x \in regs : got[x] # {}}}) :
     got \in [regs -> SUBSET RW]}
EpollEvents(L, seq) ==
  FoldLeft(LAMBDA M, e : IF e.gen = M.egen[e.fd] THEN FdEvent(M, e.fd, e.events) ELSE M, L, seq)
=============================================================================
