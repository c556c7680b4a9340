------------------------------ MODULE EvTimers ------------------------------
(***************************************************************************)
(* The relative timers of src/ev.c: ev_timer_start, ev_timer_stop,         *)
(* ev_timer_again, timers_reify and the reversed feeding of expired        *)
(* timers, with the heap of Heap and the queue of PendingOps, in a loop    *)
(* that updates its time, reifies and invokes.  Times are integers.        *)
(*                                                                         *)
(* Like w->at, at[w] is absolute while w is active and relative to the     *)
(* loop's time while it is not; the heap caches it (EV_HEAP_CACHE_AT).     *)
(***************************************************************************)
EXTENDS Heap, PendingOps, Integers

CONSTANTS
  Afters,     \* what ev_timer_set is called with
  Repeats,    \* ... and what w->repeat is set to
  MaxTime,    \* bound: the last time of the monotonic clock
  MaxQueue    \* bound: the user feeds no event to a queue of this length

ASSUME TimeAssumption ==
  /\ MaxTime \in Nat /\ MaxQueue \in Nat
  /\ Afters \subseteq Nat /\ Repeats \subseteq Nat

\* the events a timer's callback may get: of its expiry, and of the user's own
ASSUME EventAssumption == {"EV_TIMER", "EV_CUSTOM"} \subseteq Flags

VARIABLES
  timers,  \* the heap, see Heap
  at,      \* w->at
  repeat,  \* w->repeat
  mn_now,  \* the loop's time
  q,       \* the queues, see PendingOps
  rfeeds,  \* the expired timers timers_reify has not fed yet
  phase,   \* "user" code runs, or the loop is about to "update" its time,
           \* "reify" the timers, or "invoke" what is pending
  due      \* ghost: when a timer with a pending expiry expired, else NotDue

vars == <<timers, at, repeat, mn_now, q, rfeeds, phase, due>>

NotDue == -1

IsActive(w) == timers.active[w] # 0

Active == {w \in Watchers : IsActive(w)}

TypeOK ==
  /\ timers.active \in [Watchers -> 0 .. Len(timers.heap)]
  /\ timers.heap \in Seq([w : Watchers, at : Nat])
  /\ at \in [Watchers -> Int]
  /\ repeat \in [Watchers -> Repeats]
  /\ mn_now \in 0 .. MaxTime
  /\ q \in QueueState
  /\ rfeeds \in Seq(Watchers)
  /\ phase \in {"user", "update", "reify", "invoke"}
  /\ due \in [Watchers -> Nat \cup {NotDue}]

Init ==
  /\ timers = [heap |-> <<>>, active |-> [w \in Watchers |-> 0]]
  /\ at \in [Watchers -> Afters]
  /\ repeat \in [Watchers -> Repeats]
  /\ mn_now = 0
  /\ \E priority \in [Watchers -> Pri] : q = InitQueue(priority)
  /\ rfeeds = <<>>
  /\ phase = "user"
  /\ due = [w \in Watchers |-> NotDue]

-----------------------------------------------------------------------------
\* User code: a callback, or the program before it calls ev_run.

EvTimerSet(w, after, rep) ==
  /\ phase = "user" /\ ~IsActive(w)
  /\ at' = [at EXCEPT ![w] = after]
  /\ repeat' = [repeat EXCEPT ![w] = rep]
  /\ UNCHANGED <<timers, mn_now, q, rfeeds, phase, due>>

\* w->repeat may be written at any time
SetRepeat(w, rep) ==
  /\ phase = "user" /\ IsActive(w)
  /\ repeat' = [repeat EXCEPT ![w] = rep]
  /\ UNCHANGED <<timers, at, mn_now, q, rfeeds, phase, due>>

\* Bug: the new element stays at the end of the heap.
StartUnsorted(w, after) ==
  /\ at' = [at EXCEPT ![w] = after + mn_now]
  /\ timers' = [heap   |-> Append(timers.heap, [w |-> w, at |-> after + mn_now]),
                active |-> [timers.active EXCEPT ![w] = Len(timers.heap) + 1]]

\* ev_timer_start of a timer whose w->at is the given relative time
StartAt(w, after) ==
  /\ at' = [at EXCEPT ![w] = after + mn_now]
  /\ timers' = Insert(timers, w, after + mn_now)

EvTimerStart(w) ==
  /\ phase = "user" /\ ~IsActive(w)
  /\ StartAt(w, at[w])
  /\ UNCHANGED <<repeat, mn_now, q, rfeeds, phase, due>>

\* ev_timer_stop, also of an expired timer in timers_reify
Stop(w) ==
  /\ q' = ClearPending(q, w)
  /\ due' = [due EXCEPT ![w] = NotDue]
  /\ IF IsActive(w)
       THEN /\ timers' = Delete(timers, w)
            /\ at' = [at EXCEPT ![w] = @ - mn_now]
       ELSE UNCHANGED <<timers, at>>

EvTimerStop(w) ==
  /\ phase = "user"
  /\ Stop(w)
  /\ UNCHANGED <<repeat, mn_now, rfeeds, phase>>

\* Bug: the heap's cached time is not updated.
AgainKeepsCache(w) ==
  /\ at' = [at EXCEPT ![w] = mn_now + repeat[w]]
  /\ q' = ClearPending(q, w)
  /\ due' = [due EXCEPT ![w] = NotDue]
  /\ UNCHANGED timers

\* ev_timer_again of an active repeating timer
AgainActive(w) ==
  /\ at' = [at EXCEPT ![w] = mn_now + repeat[w]]
  /\ timers' = SetAt(timers, w, mn_now + repeat[w])
  /\ q' = ClearPending(q, w)
  /\ due' = [due EXCEPT ![w] = NotDue]

EvTimerAgain(w) ==
  /\ phase = "user"
  /\ \/ IsActive(w) /\ repeat[w] # 0 /\ AgainActive(w)
     \/ IsActive(w) /\ repeat[w] = 0 /\ Stop(w)
     \/ /\ ~IsActive(w)
        /\ q' = ClearPending(q, w)
        /\ due' = [due EXCEPT ![w] = NotDue]
        /\ IF repeat[w] # 0 THEN StartAt(w, repeat[w]) ELSE UNCHANGED <<at, timers>>
  /\ UNCHANGED <<repeat, mn_now, rfeeds, phase>>

\* ev_feed_event of a timer, with an event of the user's own
EvFeedEvent(w) ==
  /\ phase = "user" /\ Len(q.pendings[q.priority[w]]) < MaxQueue
  /\ q' = FeedEvent(q, w, {"EV_CUSTOM"})
  /\ UNCHANGED <<timers, at, repeat, mn_now, rfeeds, phase, due>>

\* time_update with a monotonic clock (ev_now_update)
TimeUpdate == mn_now' \in mn_now .. MaxTime

EvNowUpdate ==
  /\ phase = "user"
  /\ TimeUpdate
  /\ UNCHANGED <<timers, at, repeat, q, rfeeds, phase, due>>

\* the callback returns, or the program enters ev_run
UserReturns ==
  /\ phase = "user"
  /\ phase' = "invoke"
  /\ UNCHANGED <<timers, at, repeat, mn_now, q, rfeeds, due>>

-----------------------------------------------------------------------------
\* The loop.

LoopUpdate ==
  /\ phase = "update"
  /\ TimeUpdate
  /\ phase' = "reify"
  /\ UNCHANGED <<timers, at, repeat, q, rfeeds, due>>

First == timers.heap[1]

Expired == timers.heap # <<>> /\ First.at < mn_now

\* The next expiry of a repeating timer; one that fell behind skips ahead
NextAt(w) ==
  IF at[w] + repeat[w] < mn_now THEN mn_now ELSE at[w] + repeat[w]

\* one round of timers_reify's loop: the first timer is rescheduled or
\* stopped, and remembered
TimersReifyExpire ==
  /\ phase = "reify" /\ Expired
  /\ LET w == First.w
         next == NextAt(w)
     IN  /\ IF repeat[w] # 0
              THEN /\ at' = [at EXCEPT ![w] = next]
                   /\ timers' = DownHeap([timers EXCEPT !.heap[1].at = next], 1)
                   /\ UNCHANGED q
              ELSE /\ timers' = Delete(timers, w)
                   /\ at' = [at EXCEPT ![w] = @ - mn_now]
                   /\ q' = ClearPending(q, w)
         /\ due' = [due EXCEPT ![w] = at[w]]
         /\ rfeeds' = Append(rfeeds, w)
  /\ UNCHANGED <<repeat, mn_now, phase>>

\* Bug: the expired timers are fed first to last.
FeedReverseDoneForward == QueueEvents(q, rfeeds, {"EV_TIMER"})

\* feed_reverse_done: the last one is fed first, and so called last
FeedReverseDone ==
  LET n == Len(rfeeds)
  IN  QueueEvents(q, [i \in 1 .. n |-> rfeeds[n + 1 - i]], {"EV_TIMER"})

TimersReifyDone ==
  /\ phase = "reify" /\ ~Expired
  /\ q' = FeedReverseDone
  /\ rfeeds' = <<>>
  /\ phase' = "invoke"
  /\ UNCHANGED <<timers, at, repeat, mn_now, due>>

\* ev_invoke_pending
Top == TopEntry(q, NextPri(q))

Invoke ==
  /\ phase = "invoke" /\ HasPending(q)
  /\ q' = PopEntry(q, NextPri(q))
  /\ IF Top.w = pending_w
       THEN UNCHANGED <<phase, due>>
       ELSE phase' = "user" /\ due' = [due EXCEPT ![Top.w] = NotDue]
  /\ UNCHANGED <<timers, at, repeat, mn_now, rfeeds>>

InvokeDone ==
  /\ phase = "invoke" /\ ~HasPending(q)
  /\ phase' = "update"
  /\ UNCHANGED <<timers, at, repeat, mn_now, q, rfeeds, due>>

Next ==
  \/ \E w \in Watchers :
       \/ \E after \in Afters, rep \in Repeats : EvTimerSet(w, after, rep)
       \/ \E rep \in Repeats : SetRepeat(w, rep)
       \/ EvTimerStart(w) \/ EvTimerStop(w) \/ EvTimerAgain(w) \/ EvFeedEvent(w)
  \/ EvNowUpdate \/ UserReturns
  \/ LoopUpdate \/ TimersReifyExpire \/ TimersReifyDone \/ Invoke \/ InvokeDone

Spec == Init /\ [][Next]_vars

-----------------------------------------------------------------------------
(***************************************************************************)
(* The heap, the indices in the watchers and the cached times agree        *)
(* through every sequence of starts, stops, agains and expiries            *)
(* (verify_heap's three assertions).                                       *)
(***************************************************************************)
HeapConsistent ==
  /\ HeapOK(timers)
  /\ \A i \in 1 .. Len(timers.heap) : timers.heap[i].at = at[timers.heap[i].w]

(***************************************************************************)
(* However far a repeating timer fell behind, timers_reify expires it only *)
(* once, so that its loop ends (ev.pod: "libev will not fire it more than  *)
(* once per event loop iteration").                                        *)
(***************************************************************************)
OncePerIteration ==
  \A i, j \in 1 .. Len(rfeeds) : rfeeds[i] = rfeeds[j] => i = j

(***************************************************************************)
(* timers_reify leaves no timer active whose time has passed, although it  *)
(* only ever looks at the first of the heap.                               *)
(***************************************************************************)
NoneOverdue ==
  [][phase = "reify" /\ phase' = "invoke"
       => \A w \in Active : at[w] >= mn_now]_vars

(***************************************************************************)
(* Of the timers that expired together and have the same priority, those   *)
(* with the earlier time are called first: the queue is last in, first     *)
(* out, so they are queued after the others (feed_reverse).                *)
(***************************************************************************)
EarliestFirst ==
  \A p \in Pri : \A i, j \in 1 .. Len(q.pendings[p]) :
    LET v == q.pendings[p][i].w
        w == q.pendings[p][j].w
    IN  i < j /\ v # pending_w /\ w # pending_w
          /\ due[v] # NotDue /\ due[w] # NotDue
            => due[v] >= due[w]

(***************************************************************************)
(* A callback gets EV_TIMER only for an expiry that was not cancelled: not *)
(* after an ev_timer_stop or ev_timer_again that came between the expiry   *)
(* and the call.                                                           *)
(***************************************************************************)
NoCancelledExpiry ==
  [][phase = "invoke" /\ phase' = "user" /\ "EV_TIMER" \in Top.events
       => due[Top.w] # NotDue]_vars

(***************************************************************************)
(* The heap, the indices in the watchers and the cached times agree        *)
(* through every sequence of starts, stops, agains and expiries            *)
(* (verify_heap's three assertions; TypeOK and HeapConsistent).            *)
(***************************************************************************)
TimersConsistent == TypeOK /\ HeapConsistent

(***************************************************************************)
(* A repeating timer that fell behind expires once, and of the timers that *)
(* expire together the earliest is called first.                           *)
(***************************************************************************)
ExpiredInOrder == OncePerIteration /\ EarliestFirst

(***************************************************************************)
(* timers_reify misses no timer whose time has passed, and no callback is  *)
(* told of an expiry that was cancelled (both of the above).               *)
(***************************************************************************)
DueOrCancelled == NoneOverdue /\ NoCancelledExpiry

=============================================================================
