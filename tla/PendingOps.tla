----------------------------- MODULE PendingOps -----------------------------
(***************************************************************************)
(* The data structure behind ev_feed_event, clear_pending and              *)
(* ev_invoke_pending (src/ev.c): one array of ANPENDING per priority and,  *)
(* in every watcher, the index of its entry.                               *)
(*                                                                         *)
(* A queue state q is a record:                                            *)
(*   q.priority[w]  ABSPRI (w), the priority counted from 0                *)
(*   q.pending[w]   w->pending, the 1-based index of w's entry, 0 if none  *)
(*   q.pendings[p]  the pendingcnt[p] live entries of pendings[p]          *)
(* The operators are pure, so that a handler that feeds several watchers   *)
(* is one action that composes them.                                       *)
(***************************************************************************)
EXTENDS Naturals, Sequences

CONSTANTS
  Watchers,   \* the user's and libev's own watchers
  Flags,      \* the EV_* event bits
  NUMPRI,     \* the number of priorities, EV_MAXPRI - EV_MINPRI + 1
  pending_w   \* the dummy watcher that replaces a cleared entry

ASSUME PendingAssumption ==
  /\ NUMPRI \in Nat \ {0}
  /\ pending_w \notin Watchers

Pri == 0 .. NUMPRI - 1

\* ANPENDING: the watcher to call and the event set to call it with.
Entry == [w : Watchers \cup {pending_w}, events : SUBSET Flags]

QueueState ==
  [priority : [Watchers -> Pri],
   pending  : [Watchers -> Nat],
   pendings : [Pri -> Seq(Entry)]]

InitQueue(priority) ==
  [priority |-> priority,
   pending  |-> [w \in Watchers |-> 0],
   pendings |-> [p \in Pri |-> <<>>]]

IsPending(q, w) == q.pending[w] # 0

-----------------------------------------------------------------------------
\* Two bugs ev_feed_event could have: the new events replace the queued ones,
\* or a watcher that is already queued is queued again.
FeedOverwrites(q, w, revents) ==
  LET p == q.priority[w]
      i == q.pending[w]
  IN  IF IsPending(q, w)
        THEN [q EXCEPT !.pendings[p][i].events = revents]
        ELSE [q EXCEPT !.pending[w]  = Len(q.pendings[p]) + 1,
                       !.pendings[p] = Append(@, [w |-> w, events |-> revents])]

\* ev_feed_event's change of the queues: a watcher that already is queued has
\* the events or-ed into its entry, another one gets an entry at the end.
FeedEvent(q, w, revents) ==
  LET p == q.priority[w]
      i == q.pending[w]
  IN  IF IsPending(q, w)
        THEN [q EXCEPT !.pendings[p][i].events = @ \cup revents]
        ELSE [q EXCEPT !.pending[w]  = Len(q.pendings[p]) + 1,
                       !.pendings[p] = Append(@, [w |-> w, events |-> revents])]

\* queue_events: several watchers, in the order of an array
QueueEvents(q, ws, revents) ==
  LET feed[n \in 0 .. Len(ws)] ==
        IF n = 0 THEN q ELSE FeedEvent(feed[n - 1], ws[n], revents)
  IN  feed[Len(ws)]

\* A bug clear_pending could have: the entry keeps pointing at the watcher.
ClearKeepsEntry(q, w) == [q EXCEPT !.pending[w] = 0]

\* clear_pending: the entry stays where it is but calls the dummy watcher.
ClearPending(q, w) ==
  IF IsPending(q, w)
    THEN [q EXCEPT !.pendings[q.priority[w]][q.pending[w]].w = pending_w,
                   !.pending[w] = 0]
    ELSE q

\* ev_invoke_pending takes the entry at the end of the array of the highest
\* priority that has any (see EvPending, which shows that it finds it).
HasPending(q) == \E p \in Pri : q.pendings[p] # <<>>

NextPri(q) ==
  CHOOSE p \in Pri : /\ q.pendings[p] # <<>>
                     /\ \A o \in Pri : o > p => q.pendings[o] = <<>>

TopEntry(q, p) == q.pendings[p][Len(q.pendings[p])]

PopEntry(q, p) ==
  LET w == TopEntry(q, p).w
      n == Len(q.pendings[p])
  IN  [q EXCEPT !.pendings[p] = SubSeq(@, 1, n - 1),
                !.pending = [x \in Watchers |-> IF x = w THEN 0 ELSE q.pending[x]]]

-----------------------------------------------------------------------------
\* What verify_watcher asserts of every watcher, and the converse that makes
\* it safe to free a watcher that is not pending: the index of a watcher and
\* the entry it names point at each other, and no other entry names it.
IndexToEntry(q) ==
  \A w \in Watchers : IsPending(q, w) =>
    /\ q.pending[w] \in 1 .. Len(q.pendings[q.priority[w]])
    /\ q.pendings[q.priority[w]][q.pending[w]].w = w

EntryToIndex(q) ==
  \A p \in Pri : \A i \in 1 .. Len(q.pendings[p]) :
    LET w == q.pendings[p][i].w
    IN  w # pending_w => q.priority[w] = p /\ q.pending[w] = i

=============================================================================
