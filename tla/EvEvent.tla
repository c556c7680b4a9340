------------------------------ MODULE EvEvent -------------------------------
(***************************************************************************)
(* Pairs of a timer and another watcher that share a callback: ev_once     *)
(* (src/ev.c), which is freed when it is called, and the events of the     *)
(* libevent emulation (src/event.c), whose watcher is an ev_io or an       *)
(* ev_signal.  <<p, "io">> and <<p, "to">> are the watchers of the pair p. *)
(* Pending watchers are called in any order; EvPending has the real one.   *)
(***************************************************************************)
EXTENDS Naturals

CONSTANTS
  Onces,        \* struct ev_once, each used once
  Events,       \* struct event
  PERSIST,      \* those with EV_PERSIST
  SIGNAL,       \* those with EV_SIGNAL
  ACTIVATED     \* what event_active is called with

ASSUME EventAssumption == Onces \cap Events = {} /\ PERSIST \cup SIGNAL \subseteq Events

Pairs == Onces \cup Events
Part == {"io", "to"}
Fired == [io |-> {"EV_READ", "EV_WRITE"}, to |-> {"EV_TIMER"}]

VARIABLES
  active,       \* the active watchers
  pend,         \* watcher -> what it is pending with
  alive,        \* the onces that are allocated
  fresh,        \* ... or have not been yet
  happened,     \* ghost: what was fed to a once
  untold,       \* ghost: onces that were called with less
  expects,      \* ghost: event -> the parts it may be called for
  unexpected    \* ghost: events that were called for another one

event_vars == <<active, pend, alive, fresh, happened, untold, expects, unexpected>>
ghosts == <<happened, untold, expects, unexpected>>

EventInit ==
  /\ active = {} /\ pend = [w \in Pairs \X Part |-> {}]
  /\ alive = {} /\ fresh = Onces
  /\ happened = [o \in Onces |-> {}] /\ untold = {}
  /\ expects = [e \in Events |-> {}] /\ unexpected = {}

-----------------------------------------------------------------------------
\* The stop functions clear what is pending; on S = [active, pend].
Stop(S, w) == [active |-> S.active \ {w}, pend |-> [S.pend EXCEPT ![w] = {}]]
Start(S, w) == [S EXCEPT !.active = @ \cup {w}]
Now == [active |-> active, pend |-> pend]
Becomes(S) == active' = S.active /\ pend' = S.pend

\* The poll reports an fd or a signal, or an fd fails; a timer expires, for
\* good if it is an ev_once's.
Feed(w, revents) ==
  /\ pend' = [pend EXCEPT ![w] = @ \cup revents]
  /\ happened' = [o \in Onces |-> IF o = w[1] THEN happened[o] \cup revents ELSE happened[o]]
  /\ UNCHANGED <<alive, fresh, untold, expects, unexpected>>

Ready(p) ==
  /\ <<p, "io">> \in active
  /\ IF p \in SIGNAL THEN Feed(<<p, "io">>, {"EV_SIGNAL"}) /\ UNCHANGED active
     ELSE \/ \E ev \in (SUBSET Fired.io) \ {{}} : Feed(<<p, "io">>, ev) /\ UNCHANGED active
          \/ Feed(<<p, "io">>, Fired.io \cup {"EV_ERROR"}) /\ active' = active \ {<<p, "io">>}

Expire(p) ==
  /\ <<p, "to">> \in active
  /\ Feed(<<p, "to">>, Fired.to)
  /\ active' = IF p \in Onces THEN active \ {<<p, "to">>} ELSE active

-----------------------------------------------------------------------------
\* ev_once, also by event_base_once and event_base_loopexit (without an fd)
EvOnce(o, parts) ==
  /\ o \in fresh /\ fresh' = fresh \ {o} /\ alive' = alive \cup {o}
  /\ active' = active \cup ({o} \X parts)
  /\ UNCHANGED <<pend, ghosts>>

\* once_cb
OnceCbIoOnly(o, S) == Stop(S, <<o, "io">>)    \* Bug: the timer is not stopped.
OnceCb(o, S) == Stop(Stop(S, <<o, "io">>), <<o, "to">>)

\* once_cb_io and once_cb_to: ev_clear_pending of the other watcher
PendingOf(o, part) == pend[<<o, "io">>] \cup pend[<<o, "to">>]

InvokeOnce(o, part) ==
  /\ pend[<<o, part>>] # {}
  /\ Becomes(OnceCb(o, Now))
  /\ alive' = alive \ {o}
  /\ untold' = IF PendingOf(o, part) # happened[o] THEN untold \cup {o} ELSE untold
  /\ UNCHANGED <<fresh, happened, expects, unexpected>>

-----------------------------------------------------------------------------
\* event_add, with a timeout or without

WithoutTimeout(S, e) == Stop(S, <<e, "to">>)

EventAdd(e, tv) ==
  LET S == Start(Now, <<e, "io">>)
      again == Start(Stop(S, <<e, "to">>), <<e, "to">>)
  IN  /\ Becomes(IF tv THEN again ELSE WithoutTimeout(S, e))
      /\ expects' = [expects EXCEPT ![e] = {"io"} \cup IF tv THEN {"to"} ELSE {}]
      /\ UNCHANGED <<alive, fresh, happened, untold, unexpected>>

\* event_del
Deleted(S, e) ==
  LET T == Stop(S, <<e, "io">>) IN IF <<e, "to">> \in T.active THEN Stop(T, <<e, "to">>) ELSE T

EventDel(e) ==
  /\ Becomes(Deleted(Now, e))
  /\ expects' = [expects EXCEPT ![e] = {}]
  /\ UNCHANGED <<alive, fresh, happened, untold, unexpected>>

EventActive(e, part) ==
  /\ part \in ACTIVATED
  /\ pend' = [pend EXCEPT ![<<e, part>>] = @ \cup
                IF part = "io" /\ e \in SIGNAL THEN {"EV_SIGNAL"} ELSE Fired[part]]
  /\ expects' = [expects EXCEPT ![e] = @ \cup {part}]
  /\ UNCHANGED <<active, alive, fresh, happened, untold, unexpected>>

\* ev_x_cb_io, ev_x_cb_sig and ev_x_cb_to
Stays(e, part, revents) ==
  part = "io" /\ "EV_ERROR" \notin revents /\ e \in PERSIST \cup SIGNAL

InvokeEvent(e, part) ==
  LET w == <<e, part>>
      S == [active |-> active, pend |-> [pend EXCEPT ![w] = {}]]
      ends == part = "to" \/ "EV_ERROR" \in pend[w] \/ e \notin PERSIST \cup SIGNAL
  IN  /\ pend[w] # {}
      /\ Becomes(IF Stays(e, part, pend[w]) THEN S ELSE Deleted(S, e))
      /\ unexpected' = IF part \in expects[e] THEN unexpected ELSE unexpected \cup {e}
      /\ expects' = IF ends THEN [expects EXCEPT ![e] = {}] ELSE expects
      /\ UNCHANGED <<alive, fresh, happened, untold>>

EventNext ==
  \/ \E p \in Pairs : Ready(p) \/ Expire(p)
  \/ \E o \in Onces, parts \in (SUBSET Part) \ {{}} : EvOnce(o, parts)
  \/ \E o \in Onces, part \in Part : InvokeOnce(o, part)
  \/ \E e \in Events, tv \in BOOLEAN : EventAdd(e, tv)
  \/ \E e \in Events : EventDel(e)
  \/ \E e \in Events, part \in Part : EventActive(e, part) \/ InvokeEvent(e, part)

EventSpec == EventInit /\ [][EventNext]_event_vars

-----------------------------------------------------------------------------
(***************************************************************************)
(* Of an ev_once that has been freed no watcher is active or pending,      *)
(* although both may have been pending when it was called.                 *)
(***************************************************************************)
NothingDangles ==
  \A o \in Onces \ alive, part \in Part : <<o, part>> \notin active /\ pend[<<o, part>>] = {}

(***************************************************************************)
(* "it is possible to receive both a timeout and an io event" (ev.pod:3668)*)
(* the one call of an ev_once tells all that has happened.                 *)
(***************************************************************************)
OnceTellsAll == untold = {}

(***************************************************************************)
(* An event is called for what it was added or activated for since it was  *)
(* last deleted, by the program or, without EV_PERSIST or after a timeout, *)
(* by the call itself.                                                     *)
(***************************************************************************)
CalledAsAdded == unexpected = {}

(***************************************************************************)
(* All three: ev_once and the events call back once, with all that has     *)
(* happened, for what they were added for, and leave nothing behind.       *)
(***************************************************************************)
CalledOnceForAll == NothingDangles /\ OnceTellsAll /\ CalledAsAdded

=============================================================================
