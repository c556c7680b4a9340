----------------------------- MODULE EvPending ------------------------------
(***************************************************************************)
(* The callback dispatcher of src/ev.c: ev_feed_event, ev_clear_pending    *)
(* and ev_invoke_pending, with callbacks that feed, clear and invoke       *)
(* recursively (an ev_run called from a callback starts with an            *)
(* ev_invoke_pending of its own).                                          *)
(*                                                                         *)
(* ev_invoke_pending has no local state: where it is in its two loops is   *)
(* the loop's pendingpri, which every ev_feed_event resets and every       *)
(* nested activation moves.  The activations on the C stack are therefore  *)
(* the callbacks they are in (calls), the innermost one possibly being     *)
(* between two callbacks (scanning).  User code runs when ~scanning.       *)
(***************************************************************************)
EXTENDS PendingOps

CONSTANTS
  MaxDepth,   \* bound: nested activations of ev_invoke_pending
  MaxQueue    \* bound: entries in one priority's array

ASSUME BoundAssumption == MaxDepth \in Nat /\ MaxQueue \in Nat

VARIABLES
  q,           \* the queues, see PendingOps
  pendingpri,  \* the priority ev_invoke_pending looks at
  calls,       \* the running callbacks, outermost first
  scanning     \* the innermost activation is between two callbacks

vars == <<q, pendingpri, calls, scanning>>

TypeOK ==
  /\ q \in QueueState
  /\ pendingpri \in Pri
  /\ calls \in Seq(Entry)
  /\ scanning \in BOOLEAN

Init ==
  /\ \E priority \in [Watchers -> Pri] : q = InitQueue(priority)
  /\ pendingpri = 0
  /\ calls = <<>>
  /\ scanning = FALSE

-----------------------------------------------------------------------------
\* User code, in a callback or outside of every loop.

EvFeedEvent(w, revents) ==
  /\ ~scanning
  /\ Len(q.pendings[q.priority[w]]) < MaxQueue
  /\ q' = FeedEvent(q, w, revents)
  /\ pendingpri' = NUMPRI - 1
  /\ UNCHANGED <<calls, scanning>>

EvClearPending(w) ==
  /\ ~scanning
  /\ q' = ClearPending(q, w)
  /\ UNCHANGED <<pendingpri, calls, scanning>>

\* ev_set_priority; a pending watcher must keep its priority (ev.pod).
EvSetPriority(w, p) ==
  /\ ~scanning
  /\ ~IsPending(q, w)
  /\ q' = [q EXCEPT !.priority[w] = p]
  /\ UNCHANGED <<pendingpri, calls, scanning>>

EvInvokePending ==
  /\ ~scanning
  /\ Len(calls) < MaxDepth
  /\ pendingpri' = NUMPRI - 1
  /\ scanning' = TRUE
  /\ UNCHANGED <<q, calls>>

CallbackReturn ==
  /\ ~scanning
  /\ calls # <<>>
  /\ calls' = SubSeq(calls, 1, Len(calls) - 1)
  /\ scanning' = TRUE
  /\ UNCHANGED <<q, pendingpri>>

-----------------------------------------------------------------------------
\* The two loops of ev_invoke_pending.

AtEntry == scanning /\ q.pendings[pendingpri] # <<>>

\* the inner loop calls the watcher of the last entry
InvokeWatcher ==
  LET top == TopEntry(q, pendingpri)
  IN  /\ AtEntry
      /\ top.w # pending_w
      /\ q' = PopEntry(q, pendingpri)
      /\ calls' = Append(calls, top)
      /\ scanning' = FALSE
      /\ UNCHANGED pendingpri

\* ... or the dummy watcher, whose callback pendingcb does nothing
InvokeDummy ==
  /\ AtEntry
  /\ TopEntry(q, pendingpri).w = pending_w
  /\ q' = PopEntry(q, pendingpri)
  /\ UNCHANGED <<pendingpri, calls, scanning>>

\* the outer loop goes to the next lower priority
ScanDown ==
  /\ scanning
  /\ q.pendings[pendingpri] = <<>>
  /\ pendingpri # 0
  /\ pendingpri' = pendingpri - 1
  /\ UNCHANGED <<q, calls, scanning>>

\* Bug: while (--pendingpri) instead of do ... while (pendingpri).
ScanDoneTooEarly ==
  /\ scanning
  /\ q.pendings[pendingpri] = <<>>
  /\ pendingpri <= 1
  /\ scanning' = FALSE
  /\ UNCHANGED <<q, pendingpri, calls>>

\* ev_invoke_pending returns to its caller
ScanDone ==
  /\ scanning
  /\ q.pendings[pendingpri] = <<>>
  /\ pendingpri = 0
  /\ scanning' = FALSE
  /\ UNCHANGED <<q, pendingpri, calls>>

Next ==
  \/ \E w \in Watchers, revents \in SUBSET Flags : EvFeedEvent(w, revents)
  \/ \E w \in Watchers : EvClearPending(w)
  \/ \E w \in Watchers, p \in Pri : EvSetPriority(w, p)
  \/ EvInvokePending
  \/ CallbackReturn
  \/ InvokeWatcher
  \/ InvokeDummy
  \/ ScanDown
  \/ ScanDone

Spec == Init /\ [][Next]_vars

-----------------------------------------------------------------------------
(***************************************************************************)
(* A pending watcher and its entry point at each other and no other entry  *)
(* names it, through every nesting of feeds, clears and invocations        *)
(* (verify_watcher's "pending watcher not on pending queue").  The         *)
(* converse half is what allows the user to free a watcher once it is      *)
(* neither active nor pending: no array still holds its address.           *)
(***************************************************************************)
QueueConsistent == IndexToEntry(q) /\ EntryToIndex(q)

(***************************************************************************)
(* Nothing is queued above the priority the scan looks at, although        *)
(* callbacks feed events of any priority and nested activations move       *)
(* pendingpri (ev_feed_event's "pendingpri = NUMPRI - 1" is what keeps     *)
(* it).                                                                    *)
(***************************************************************************)
HigherDrained == \A p \in Pri : p > pendingpri => q.pendings[p] = <<>>

(***************************************************************************)
(* ev_invoke_pending, nested or not, returns only when no watcher is       *)
(* pending: ev_run relies on it before it blocks.                          *)
(***************************************************************************)
ReturnsDrained ==
  [][scanning /\ ~scanning' /\ calls' = calls
       => \A w \in Watchers : ~IsPending(q, w)]_vars

(***************************************************************************)
(* The arrays and indices implement the abstract queue: one accumulated    *)
(* event set per pending watcher, cleared watchers are never called, and   *)
(* every callback is of the highest pending priority.                      *)
(***************************************************************************)
pendBar ==
  [w \in {x \in Watchers : IsPending(q, x)} |->
     q.pendings[q.priority[w]][q.pending[w]].events]

EQ == INSTANCE EventQueue WITH prio <- q.priority, pend <- pendBar

ImplementsEventQueue == EQ!Spec

=============================================================================
