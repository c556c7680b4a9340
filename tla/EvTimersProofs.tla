--------------------------- MODULE EvTimersProofs ---------------------------
(***************************************************************************)
(* Proofs about the relative timers of EvTimers, for every set of timers   *)
(* of any priorities and times, and every branching factor of the heap:    *)
(* the heap and the watchers agree, and timers_reify expires the timers    *)
(* that are due, in order, and no others.                                  *)
(***************************************************************************)
EXTENDS EvTimers, DataStructureProofs

-----------------------------------------------------------------------------
\* The queues

\* The watchers ws[1] to ws[m] are queued, in this order.
Fed(s, ws, m, revents) ==
  /\ Good(s)
  /\ \A w \in Watchers : IsPending(s, w) <=> \E i \in 1 .. m : ws[i] = w
  /\ \A p \in Pri : \A a \in 1 .. Len(s.pendings[p]) :
       \E i \in 1 .. m : s.pendings[p][a] = [w |-> ws[i], events |-> revents]
  /\ \A p \in Pri : \A a, b \in 1 .. Len(s.pendings[p]) : \A i, j \in 1 .. m :
       a < b /\ s.pendings[p][a].w = ws[i] /\ s.pendings[p][b].w = ws[j] => i < j

\* One more of them
LEMMA FedOneMore ==
  ASSUME NEW s, NEW ws \in Seq(Watchers), NEW m \in Nat, m + 1 <= Len(ws),
         \A i, j \in 1 .. Len(ws) : ws[i] = ws[j] => i = j,
         NEW revents \in SUBSET Flags, Fed(s, ws, m, revents),
         NEW t, t = FeedEvent(s, ws[m + 1], revents)
  PROVE  Fed(t, ws, m + 1, revents)
<1> DEFINE w == ws[m + 1]
           p == s.priority[w]
           e == [w |-> w, events |-> revents]
<1>1. /\ Len(ws) \in Nat /\ m + 1 \in 1 .. Len(ws) /\ m + 1 \in 1 .. m + 1
      /\ \A i \in 1 .. m : i \in 1 .. Len(ws) /\ i \in 1 .. m + 1 /\ i < m + 1
      /\ \A i \in 1 .. m + 1 : i \in 1 .. m \/ i = m + 1
  OBVIOUS
<1>2. w \in Watchers
  BY <1>1
<1>3. Good(s) /\ \A v \in Watchers : IsPending(s, v) <=> \E i \in 1 .. m : ws[i] = v
  BY DEF Fed
<1>4. ~IsPending(s, w)
  BY <1>1, <1>2, <1>3
<1>5. p \in Pri /\ \A x \in Pri : s.pendings[x] \in Seq(Entry)
  BY <1>2, <1>3 DEF Good, QueueState
<1>6. \A x \in Pri : Len(s.pendings[x]) \in Nat
  BY <1>5
<1>7. t = FeedEvent(s, w, revents)
  OBVIOUS
<1> HIDE DEF w
<1>8. Good(t)
  BY <1>2, <1>3, <1>7, FeedGood
<1>9. /\ \A v \in Watchers : IsPending(t, v) <=> IsPending(s, v) \/ v = w
      /\ \A x \in Pri : x # p => t.pendings[x] = s.pendings[x]
      /\ Len(t.pendings[p]) = Len(s.pendings[p]) + 1
      /\ \A j \in 1 .. Len(s.pendings[p]) : t.pendings[p][j] = s.pendings[p][j]
      /\ t.pendings[p][Len(t.pendings[p])] = e
  <2>1. /\ \A v \in Watchers : IsPending(t, v) <=> IsPending(s, v) \/ v = w
        /\ \A x \in Pri : x # s.priority[w] => t.pendings[x] = s.pendings[x]
        /\ \A x \in Pri : x = s.priority[w] =>
              /\ Len(t.pendings[x]) = Len(s.pendings[x]) + 1
              /\ \A j \in 1 .. Len(s.pendings[x]) : t.pendings[x][j] = s.pendings[x][j]
              /\ t.pendings[x][Len(t.pendings[x])] = [w |-> w, events |-> revents]
    BY <1>2, <1>3, <1>4, <1>7, FeedNew
  <2> QED BY <1>5, <2>1
<1> HIDE DEF p
<1>10. e.w = w /\ w = ws[m + 1]
  BY DEF w
<1>11. \A v \in Watchers : IsPending(t, v) <=> \E i \in 1 .. m + 1 : ws[i] = v
  BY <1>1, <1>3, <1>9, <1>10
\* an entry is an old one or the new one
<1>12. \A x \in Pri : \A a \in 1 .. Len(t.pendings[x]) :
         \/ a \in 1 .. Len(s.pendings[x]) /\ t.pendings[x][a] = s.pendings[x][a]
         \/ x = p /\ a = Len(s.pendings[x]) + 1 /\ t.pendings[x][a] = e
  <2> HIDE DEF e
  <2> SUFFICES ASSUME NEW x \in Pri, NEW a \in 1 .. Len(t.pendings[x])
               PROVE  \/ a \in 1 .. Len(s.pendings[x]) /\ t.pendings[x][a] = s.pendings[x][a]
                      \/ x = p /\ a = Len(s.pendings[x]) + 1 /\ t.pendings[x][a] = e
    OBVIOUS
  <2>1. CASE x = p
    <3>1. Len(s.pendings[x]) \in Nat /\ Len(t.pendings[x]) = Len(s.pendings[x]) + 1
      BY <1>6, <1>9, <2>1
    <3>2. a \in 1 .. Len(s.pendings[x]) \/ a = Len(s.pendings[x]) + 1
      BY <3>1
    <3>3. a = Len(s.pendings[x]) + 1 => t.pendings[x][a] = e
      BY <1>9, <2>1, <3>1
    <3> QED BY <1>9, <2>1, <3>2, <3>3
  <2>2. CASE x # p
    BY <1>9, <2>2
  <2> QED BY <2>1, <2>2
<1>13. ASSUME NEW x \in Pri, NEW a \in 1 .. Len(t.pendings[x])
       PROVE  \E i \in 1 .. m + 1 : t.pendings[x][a] = [w |-> ws[i], events |-> revents]
  <2>1. CASE a \in 1 .. Len(s.pendings[x]) /\ t.pendings[x][a] = s.pendings[x][a]
    <3>1. PICK i \in 1 .. m : s.pendings[x][a] = [w |-> ws[i], events |-> revents]
      BY <2>1 DEF Fed
    <3> QED BY <1>1, <2>1, <3>1
  <2>2. CASE t.pendings[x][a] = e
    BY <1>1, <1>10, <2>2
  <2> QED BY <1>12, <2>1, <2>2
<1>14. ASSUME NEW x \in Pri, NEW a \in 1 .. Len(t.pendings[x]), NEW b \in 1 .. Len(t.pendings[x]),
              NEW i \in 1 .. m + 1, NEW j \in 1 .. m + 1,
              a < b, t.pendings[x][a].w = ws[i], t.pendings[x][b].w = ws[j]
       PROVE  i < j
  <2>1. a \in 1 .. Len(s.pendings[x]) /\ t.pendings[x][a] = s.pendings[x][a]
    <3>1. Len(t.pendings[x]) \in Nat /\ Len(t.pendings[x]) <= Len(s.pendings[x]) + 1
      <4>1. CASE x = p
        BY <1>6, <1>9, <4>1
      <4>2. CASE x # p
        BY SMTT(40), <1>6, <1>9, <4>2
      <4> QED BY <4>1, <4>2
    <3>2. a # Len(s.pendings[x]) + 1
      BY SMTT(40), <1>6, <1>14, <3>1
    <3> QED BY <1>12, <3>2
  <2>2. PICK k \in 1 .. m : s.pendings[x][a].w = ws[k]
    <3>1. PICK k \in 1 .. m : s.pendings[x][a] = [w |-> ws[k], events |-> revents]
      BY <2>1 DEF Fed
    <3> QED BY <3>1
  <2>3. i = k /\ i \in 1 .. m
    BY <1>1, <1>14, <2>1, <2>2
  <2>4. CASE b \in 1 .. Len(s.pendings[x]) /\ t.pendings[x][b] = s.pendings[x][b]
    <3>1. PICK l \in 1 .. m : s.pendings[x][b] = [w |-> ws[l], events |-> revents]
      BY <2>4 DEF Fed
    <3>2. j = l /\ j \in 1 .. m
      BY <1>1, <1>14, <2>4, <3>1
    <3>3. \A c, d \in 1 .. Len(s.pendings[x]) : \A y, z \in 1 .. m :
            c < d /\ s.pendings[x][c].w = ws[y] /\ s.pendings[x][d].w = ws[z] => y < z
      BY DEF Fed
    <3>4. s.pendings[x][a].w = ws[i] /\ s.pendings[x][b].w = ws[j]
      BY <1>14, <2>1, <2>4
    <3> QED BY <1>14, <2>1, <2>3, <2>4, <3>2, <3>3, <3>4
  <2>5. CASE t.pendings[x][b] = e
    BY <1>1, <1>10, <1>14, <2>3, <2>5
  <2> QED BY <1>12, <2>4, <2>5
<1> HIDE DEF e
<1> QED BY <1>8, <1>11, <1>13, <1>14 DEF Fed

\* queue_events of distinct watchers, with nothing in the queues
LEMMA QueueEventsFeeds ==
  ASSUME NEW s, Good(s), ~HasPending(s), NEW ws \in Seq(Watchers),
         \A i, j \in 1 .. Len(ws) : ws[i] = ws[j] => i = j,
         NEW revents \in SUBSET Flags
  PROVE  Fed(QueueEvents(s, ws, revents), ws, Len(ws), revents)
<1> DEFINE N == Len(ws)
<1>1. N \in Nat
  OBVIOUS
<1>7. PICK feed : /\ QueueEvents(s, ws, revents) = feed[N]
                  /\ feed[0] = s
                  /\ \A n \in 1 .. N : feed[n] = FeedEvent(feed[n - 1], ws[n], revents)
  BY SMTT(40), <1>1, QueueEventsChain
<1> DEFINE Y == {m \in Nat : m <= N => Fed(feed[m], ws, m, revents)}
<1>8. 0 \in Y
  <2>1. \A p \in Pri : s.pendings[p] = <<>>
    BY DEF HasPending
  <2>2. \A w \in Watchers : ~IsPending(s, w)
    <3> SUFFICES ASSUME NEW w \in Watchers, IsPending(s, w) PROVE FALSE
      OBVIOUS
    <3>1. s.priority[w] \in Pri /\ s.pending[w] \in 1 .. Len(s.pendings[s.priority[w]])
      BY DEF Good, QueueState, IndexToEntry
    <3> QED BY <2>1, <3>1
  <2>3. \A p \in Pri : \A a \in 1 .. Len(s.pendings[p]) : FALSE
    BY <2>1
  <2>4. Fed(s, ws, 0, revents)
    BY <2>2, <2>3 DEF Fed
  <2> QED BY <1>7, <2>4
<1>9. ASSUME NEW m \in Nat, m \in Y PROVE m + 1 \in Y
  <2> SUFFICES ASSUME m + 1 <= N PROVE Fed(feed[m + 1], ws, m + 1, revents)
    OBVIOUS
  <2>1. Fed(feed[m], ws, m, revents)
    BY <1>1, <1>9
  <2>2. m + 1 \in 1 .. N /\ (m + 1) - 1 = m
    BY <1>1
  <2>3. feed[m + 1] = FeedEvent(feed[m], ws[m + 1], revents)
    BY <1>7, <2>2
  <2> QED BY <2>1, <2>3, FedOneMore
<1>10. N \in Y
  <2>1. \A m \in Nat : m \in Y
    <3> HIDE DEF Y
    <3> QED BY <1>8, <1>9, InductOnNat
  <2> HIDE DEF Y
  <2> QED BY <1>1, <2>1
<1> QED BY <1>1, <1>7, <1>10

-----------------------------------------------------------------------------
\* The inductive invariant

IsDue(w) == due[w] # NotDue

\* The heap is one, and has the times of its watchers; and the time of a timer
\* that is not in it may be added to the loop's.
HeapKept ==
  /\ HeapState(timers, Watchers) /\ HeapOK(timers)
  /\ at \in [Watchers -> Int]
  /\ \A e \in Elements(timers.heap) : e.at = at[e.w] /\ e.at \in Nat
  /\ \A w \in Watchers : ~IsActive(w) => at[w] + mn_now \in Nat

\* An expiry is remembered until it is told, and none is told twice or after it
\* was cancelled.
DuesKept ==
  /\ \A w \in Watchers : IsDue(w) =>
       IsPending(q, w) \/ \E i \in 1 .. Len(rfeeds) : rfeeds[i] = w
  /\ \A p \in Pri : \A i \in 1 .. Len(q.pendings[p]) :
       LET e == q.pendings[p][i]
       IN  e.w # pending_w /\ "EV_TIMER" \in e.events => IsDue(e.w)

QueueKept ==
  /\ Good(q)
  /\ due \in [Watchers -> Nat \cup {NotDue}]
  /\ DuesKept
  /\ EarliestFirst

\* The timers timers_reify has expired so far were due in this order, before
\* all that are left, and will not be due again.
Reified ==
  /\ rfeeds \in Seq(Watchers)
  /\ OncePerIteration
  /\ \A i \in 1 .. Len(rfeeds) :
       /\ IsDue(rfeeds[i])
       /\ IsActive(rfeeds[i]) => at[rfeeds[i]] >= mn_now
       /\ \A e \in Elements(timers.heap) : due[rfeeds[i]] <= e.at
  /\ \A i, j \in 1 .. Len(rfeeds) : i < j => due[rfeeds[i]] <= due[rfeeds[j]]

\* Callbacks run before the loop updates its time, so that there is nothing in
\* the queues when it feeds the timers.
PhaseKept ==
  /\ repeat \in [Watchers -> Repeats]
  /\ mn_now \in 0 .. MaxTime
  /\ phase \in {"user", "update", "reify", "invoke"}
  /\ phase # "reify" => rfeeds = <<>>
  /\ phase \in {"update", "reify"} => ~HasPending(q)

TimersInv == HeapKept /\ QueueKept /\ Reified /\ PhaseKept

LEMMA InitTimersInv == Init => TimersInv
<1> SUFFICES ASSUME Init PROVE TimersInv
  OBVIOUS
<1> USE PendingAssumption, TimeAssumption
<1>1. PICK priority \in [Watchers -> Pri] : q = InitQueue(priority)
  BY DEF Init
<1>2. /\ timers.heap = <<>> /\ timers.active = [w \in Watchers |-> 0]
      /\ timers \in [heap : Seq(Anhe(Watchers)), active : [Watchers -> Nat]]
  BY DEF Init
<1>3. Len(timers.heap) = 0 /\ Elements(timers.heap) = {}
  BY <1>2 DEF Elements
<1>4. HeapState(timers, Watchers) /\ HeapOK(timers)
  BY <1>2, <1>3 DEF HeapState, HeapOK, Indexed, Ordered, ActiveInHeap
<1>5. HeapKept
  <2>1. at \in [Watchers -> Nat] /\ mn_now = 0
    BY DEF Init
  <2>2. at \in [Watchers -> Int] /\ \A w \in Watchers : at[w] + mn_now \in Nat
    BY <2>1
  <2> QED BY <1>3, <1>4, <2>2 DEF HeapKept
<1>6. q \in QueueState /\ (\A p \in Pri : q.pendings[p] = <<>>) /\ \A w \in Watchers : ~IsPending(q, w)
  BY <1>1 DEF InitQueue, QueueState, IsPending
<1>7. \A p \in Pri : Len(q.pendings[p]) = 0
  BY <1>6
<1>8. Good(q)
  BY <1>6, <1>7 DEF Good, IndexToEntry, EntryToIndex
<1>9. QueueKept
  <2>1. due \in [Watchers -> Nat \cup {NotDue}] /\ \A w \in Watchers : ~IsDue(w)
    BY DEF Init, IsDue
  <2> QED BY <1>7, <1>8, <2>1 DEF QueueKept, DuesKept, EarliestFirst
<1>10. Reified
  BY DEF Init, Reified, OncePerIteration
<1>11. PhaseKept
  <2>1. 0 \in 0 .. MaxTime
    OBVIOUS
  <2> QED BY <1>6, <2>1 DEF Init, PhaseKept
<1> QED BY <1>5, <1>9, <1>10, <1>11 DEF TimersInv

-----------------------------------------------------------------------------
\* The heap

\* What holds for the time and the heap, as facts about the operands of the
\* operations
LEMMA HeapFacts ==
  ASSUME HeapKept
  PROVE  /\ DOMAIN timers.active = Watchers
         /\ \A w \in Watchers : IsActive(w) <=> \E e \in Elements(timers.heap) : e.w = w
         /\ \A w \in Watchers : at[w] \in Int /\ (IsActive(w) => at[w] \in Nat)
<1>1. HeapState(timers, Watchers) /\ HeapOK(timers)
  BY DEF HeapKept
<1>2. \A w \in Watchers : IsActive(w) <=> \E e \in Elements(timers.heap) : e.w = w
  BY <1>1, ActiveAreWatched DEF IsActive
<1>3. DOMAIN timers.active = Watchers
  BY <1>1, ElementTypes
<1> QED BY <1>2, <1>3 DEF HeapKept

\* One timer gets another time, in the heap or out of it.
LEMMA OneTimerKept ==
  ASSUME HeapKept, mn_now' = mn_now, NEW w \in Watchers, NEW x \in Int,
         HeapState(timers', Watchers), HeapOK(timers'), at' = [at EXCEPT ![w] = x],
         \/ /\ x \in Nat
            /\ Elements(timers'.heap) = {e \in Elements(timers.heap) : e.w # w}
                                          \cup {[w |-> w, at |-> x]}
         \/ /\ x + mn_now \in Nat
            /\ Elements(timers'.heap) = {e \in Elements(timers.heap) : e.w # w}
  PROVE  HeapKept'
<1>1. /\ at \in [Watchers -> Int]
      /\ \A e \in Elements(timers.heap) : e.at = at[e.w] /\ e.at \in Nat
      /\ \A v \in Watchers : ~IsActive(v) => at[v] + mn_now \in Nat
  BY DEF HeapKept
<1>2. at' \in [Watchers -> Int] /\ at'[w] = x /\ \A v \in Watchers : v # w => at'[v] = at[v]
  BY <1>1
<1>3. \A e \in Elements(timers.heap) : e.w \in Watchers
  BY ElementTypes DEF HeapKept, Elements
<1>4. ASSUME NEW e \in Elements(timers'.heap) PROVE e.at = at'[e.w] /\ e.at \in Nat
  <2>1. CASE e \in Elements(timers.heap) /\ e.w # w
    BY <1>1, <1>2, <1>3, <2>1
  <2>2. CASE e = [w |-> w, at |-> x] /\ x \in Nat
    BY <1>2, <2>2
  <2> QED BY <2>1, <2>2
<1>5. \A v \in Watchers : timers'.active[v] # 0 <=> \E e \in Elements(timers'.heap) : e.w = v
  BY ActiveAreWatched
<1>6. ASSUME NEW v \in Watchers, timers'.active[v] = 0 PROVE at'[v] + mn_now \in Nat
  <2>1. \A e \in Elements(timers'.heap) : e.w # v
    BY <1>5, <1>6
  <2>2. CASE v = w
    <3>1. x + mn_now \in Nat
      <4>1. [w |-> w, at |-> x] \notin Elements(timers'.heap)
        BY <2>1, <2>2
      <4> QED BY <4>1
    <3> QED BY <1>2, <2>2, <3>1
  <2>3. CASE v # w
    <3>1. \A e \in Elements(timers.heap) : e.w # v
      BY <2>1, <2>3
    <3>2. ~IsActive(v)
      BY <3>1, HeapFacts
    <3> QED BY <1>1, <1>2, <2>3, <3>2
  <2> QED BY <2>2, <2>3
<1> QED BY <1>2, <1>4, <1>6 DEF HeapKept, IsActive

\* ev_timer_start
LEMMA StartKept ==
  ASSUME HeapKept, mn_now \in Nat, mn_now' = mn_now, NEW w \in Watchers, ~IsActive(w),
         NEW after \in Int, after + mn_now \in Nat, StartAt(w, after)
  PROVE  HeapKept'
<1> DEFINE x == after + mn_now
<1>1. x \in Int /\ x \in Nat
  OBVIOUS
<1>2. timers' = Insert(timers, w, x) /\ at' = [at EXCEPT ![w] = x]
  BY DEF StartAt
<1> HIDE DEF x
<1>3. timers.active[w] = 0 /\ HeapState(timers, Watchers) /\ HeapOK(timers)
  BY DEF HeapKept, IsActive
<1>4. /\ HeapState(timers', Watchers) /\ HeapOK(timers')
      /\ Elements(timers'.heap) = Elements(timers.heap) \cup {[w |-> w, at |-> x]}
  BY <1>1, <1>2, <1>3, InsertDone
<1>5. Elements(timers.heap) = {e \in Elements(timers.heap) : e.w # w}
  BY HeapFacts
<1> QED BY <1>1, <1>2, <1>4, <1>5, OneTimerKept

\* ev_timer_stop, and an expiry that does not repeat
LEMMA StopKept ==
  ASSUME HeapKept, mn_now \in Nat, mn_now' = mn_now, NEW w \in Watchers, IsActive(w),
         timers' = Delete(timers, w), at' = [at EXCEPT ![w] = at[w] - mn_now]
  PROVE  /\ HeapKept' /\ ~IsActive(w)'
         /\ Elements(timers.heap)' = {e \in Elements(timers.heap) : e.w # w}
<1> DEFINE x == at[w] - mn_now
<1>1. x \in Int /\ x + mn_now \in Nat
  BY HeapFacts
<1> HIDE DEF x
<1>2. timers.active[w] # 0 /\ HeapState(timers, Watchers) /\ HeapOK(timers)
  BY DEF HeapKept, IsActive
<1>3. /\ HeapState(timers', Watchers) /\ HeapOK(timers')
      /\ Elements(timers'.heap) = {e \in Elements(timers.heap) : e.w # w}
  BY <1>2, DeleteDone
<1>4. HeapKept'
  BY <1>1, <1>3, OneTimerKept DEF x
<1>5. timers'.active[w] = 0
  BY <1>3, ActiveAreWatched
<1> QED BY <1>3, <1>4, <1>5 DEF IsActive

\* ev_timer_again
LEMMA AgainKept ==
  ASSUME HeapKept, mn_now' = mn_now, NEW w \in Watchers, IsActive(w),
         NEW x \in Nat, timers' = SetAt(timers, w, x), at' = [at EXCEPT ![w] = x]
  PROVE  HeapKept'
<1>1. timers.active[w] # 0 /\ HeapState(timers, Watchers) /\ HeapOK(timers) /\ x \in Int
  BY DEF HeapKept, IsActive
<1>2. /\ HeapState(timers', Watchers) /\ HeapOK(timers')
      /\ Elements(timers'.heap) = {e \in Elements(timers.heap) : e.w # w}
                                    \cup {[w |-> w, at |-> x]}
  BY <1>1, SetAtDone
<1> QED BY <1>1, <1>2, OneTimerKept

\* The first timer gets a later time.
LEMMA RepeatKept ==
  ASSUME HeapKept, mn_now' = mn_now, timers.heap # <<>>, NEW w, w = First.w,
         NEW x \in Nat, timers' = DownHeap([timers EXCEPT !.heap[1].at = x], 1),
         at' = [at EXCEPT ![w] = x]
  PROVE  /\ HeapKept'
         /\ Elements(timers.heap)' = {e \in Elements(timers.heap) : e.w # w}
                                       \cup {[w |-> w, at |-> x]}
<1>1. HeapState(timers, Watchers) /\ HeapOK(timers) /\ x \in Int
  BY DEF HeapKept
<1>2. /\ Len(timers.heap) \in Nat /\ 1 \in 1 .. Len(timers.heap)
      /\ w = timers.heap[1].w /\ w \in Watchers
  <2>1. timers.heap \in Seq(Anhe(Watchers))
    BY <1>1 DEF HeapState
  <2>2. Len(timers.heap) \in Nat /\ 1 \in 1 .. Len(timers.heap)
    BY <2>1
  <2> QED BY <1>1, <2>2, ElementTypes DEF First
<1>3. /\ HeapState(timers', Watchers) /\ HeapOK(timers')
      /\ Elements(timers'.heap) = {e \in Elements(timers.heap) : e.w # w}
                                    \cup {[w |-> w, at |-> x]}
  <2>1. timers' = DownHeap(Retimed(timers, 1, x), 1)
    BY DEF Retimed
  <2> QED BY SMTT(40), <1>1, <1>2, <2>1, RetimedDone
<1> QED BY <1>1, <1>2, <1>3, OneTimerKept

\* What timers_reify sees: the first timer is active and the earliest.
LEMMA FirstFacts ==
  ASSUME HeapKept, timers.heap # <<>>
  PROVE  /\ First.w \in Watchers /\ IsActive(First.w)
         /\ First \in Elements(timers.heap)
         /\ First.at = at[First.w] /\ First.at \in Nat
         /\ \A e \in Elements(timers.heap) : First.at <= e.at
<1>1. HeapState(timers, Watchers) /\ HeapOK(timers)
  BY DEF HeapKept
<1>2. Len(timers.heap) \in Nat /\ 1 \in 1 .. Len(timers.heap) /\ Times(timers.heap)
  <2>1. timers.heap \in Seq(Anhe(Watchers))
    BY <1>1 DEF HeapState
  <2>2. Len(timers.heap) \in Nat /\ 1 \in 1 .. Len(timers.heap)
    BY <2>1
  <2> QED BY <1>1, <2>2, ElementTypes
<1>3. First \in Elements(timers.heap) /\ First.w \in Watchers
  BY <1>1, <1>2, ElementTypes DEF Elements, First
<1>4. \A i \in 1 .. Len(timers.heap) : timers.heap[1].at <= timers.heap[i].at
  BY <1>1, <1>2, FirstIsEarliest, HeapIsOK
<1>5. \A e \in Elements(timers.heap) : First.at <= e.at
  BY <1>4 DEF First, Elements
<1>6. IsActive(First.w)
  BY <1>3, HeapFacts
<1>7. First.at = at[First.w] /\ First.at \in Nat
  BY <1>3 DEF HeapKept
<1> QED BY <1>3, <1>5, <1>6, <1>7

-----------------------------------------------------------------------------
\* The queues and what is due

LEMMA QueueFacts ==
  ASSUME QueueKept
  PROVE  /\ Good(q)
         /\ \A w \in Watchers : due[w] \in Int /\ (IsDue(w) => due[w] \in Nat)
         /\ \A p \in Pri : Len(q.pendings[p]) \in Nat
         /\ \A p \in Pri : \A i \in 1 .. Len(q.pendings[p]) :
              q.pendings[p][i].w # pending_w => q.pendings[p][i].w \in Watchers
<1>1. Good(q) /\ due \in [Watchers -> Nat \cup {NotDue}]
  BY DEF QueueKept
<1>2. NotDue \in Int
  BY DEF NotDue
<1>3. \A p \in Pri : q.pendings[p] \in Seq(Entry)
  BY <1>1 DEF Good, QueueState
<1>4. \A p \in Pri : \A i \in 1 .. Len(q.pendings[p]) : q.pendings[p][i] \in Entry
  BY <1>3
<1>5. \A p \in Pri : \A i \in 1 .. Len(q.pendings[p]) :
         q.pendings[p][i].w # pending_w => q.pendings[p][i].w \in Watchers
  BY <1>4 DEF Entry
<1>6. \A w \in Watchers : due[w] \in Nat \/ due[w] = NotDue
  BY <1>1
<1>7. \A w \in Watchers : due[w] \in Int /\ (IsDue(w) => due[w] \in Nat)
  BY <1>2, <1>6 DEF IsDue
<1>8. \A p \in Pri : Len(q.pendings[p]) \in Nat
  BY <1>3
<1> QED BY <1>1, <1>5, <1>7, <1>8

\* Entries that stay where they are stay in order.
LEMMA OrderKept ==
  ASSUME QueueKept,
         \A x \in Pri : \A j \in 1 .. Len(q'.pendings[x]) :
           q'.pendings[x][j].w # pending_w /\ due'[q'.pendings[x][j].w] # NotDue =>
             /\ j \in 1 .. Len(q.pendings[x]) /\ q'.pendings[x][j].w = q.pendings[x][j].w
             /\ due'[q.pendings[x][j].w] = due[q.pendings[x][j].w]
  PROVE  EarliestFirst'
<1> SUFFICES ASSUME NEW x \in Pri, NEW i \in 1 .. Len(q'.pendings[x]),
                    NEW j \in 1 .. Len(q'.pendings[x]), i < j,
                    q'.pendings[x][i].w # pending_w, q'.pendings[x][j].w # pending_w,
                    due'[q'.pendings[x][i].w] # NotDue, due'[q'.pendings[x][j].w] # NotDue
             PROVE  due'[q'.pendings[x][i].w] >= due'[q'.pendings[x][j].w]
  BY DEF EarliestFirst
<1> DEFINE v == q.pendings[x][i].w
           w == q.pendings[x][j].w
<1>1. /\ i \in 1 .. Len(q.pendings[x]) /\ q'.pendings[x][i].w = v /\ due'[v] = due[v]
      /\ j \in 1 .. Len(q.pendings[x]) /\ q'.pendings[x][j].w = w /\ due'[w] = due[w]
  OBVIOUS
<1>2. v # pending_w /\ w # pending_w /\ due[v] # NotDue /\ due[w] # NotDue
  BY <1>1
<1>3. EarliestFirst
  BY DEF QueueKept
<1>4. due[v] >= due[w]
  BY <1>1, <1>2, <1>3 DEF EarliestFirst
<1> HIDE DEF v, w
<1> QED BY <1>1, <1>4

\* ev_timer_stop and ev_timer_again cancel an expiry.
LEMMA ClearKept ==
  ASSUME QueueKept, NEW w \in Watchers, q' = ClearPending(q, w),
         due' = [due EXCEPT ![w] = NotDue], rfeeds' = rfeeds
  PROVE  QueueKept'
<1>1. Good(q) /\ due \in [Watchers -> Nat \cup {NotDue}]
  BY DEF QueueKept
<1>2. Good(q')
  BY <1>1, ClearGood
<1>3. /\ due' \in [Watchers -> Nat \cup {NotDue}] /\ due'[w] = NotDue
      /\ \A v \in Watchers : v # w => due'[v] = due[v]
  BY <1>1
<1>4. /\ \A v \in Watchers : IsPending(q', v) <=> IsPending(q, v) /\ v # w
      /\ \A x \in Pri :
              /\ Len(q'.pendings[x]) = Len(q.pendings[x])
              /\ \A j \in 1 .. Len(q.pendings[x]) :
                   \/ q'.pendings[x][j].w = pending_w
                   \/ q'.pendings[x][j] = q.pendings[x][j] /\ q.pendings[x][j].w # w
  BY <1>1, ClearEffect
\* an entry that is not the dummy's is an old one of another watcher
<1>5. \A x \in Pri : \A j \in 1 .. Len(q'.pendings[x]) : q'.pendings[x][j].w # pending_w =>
        /\ j \in 1 .. Len(q.pendings[x]) /\ q'.pendings[x][j] = q.pendings[x][j]
        /\ q.pendings[x][j].w \in Watchers
        /\ due'[q.pendings[x][j].w] = due[q.pendings[x][j].w]
  BY <1>3, <1>4, QueueFacts
<1>6. DuesKept'
  <2>1. \A v \in Watchers : due'[v] # NotDue =>
          IsPending(q', v) \/ \E i \in 1 .. Len(rfeeds') : rfeeds'[i] = v
    BY <1>3, <1>4 DEF QueueKept, DuesKept, IsDue
  <2>2. \A x \in Pri : \A j \in 1 .. Len(q'.pendings[x]) :
          q'.pendings[x][j].w # pending_w /\ "EV_TIMER" \in q'.pendings[x][j].events
            => due'[q'.pendings[x][j].w] # NotDue
    BY SMTT(40), <1>5 DEF QueueKept, DuesKept, IsDue
  <2> QED BY <2>1, <2>2 DEF DuesKept, IsDue
<1>7. EarliestFirst'
  <2>1. \A x \in Pri : \A j \in 1 .. Len(q'.pendings[x]) :
          q'.pendings[x][j].w # pending_w /\ due'[q'.pendings[x][j].w] # NotDue =>
            /\ j \in 1 .. Len(q.pendings[x]) /\ q'.pendings[x][j].w = q.pendings[x][j].w
            /\ due'[q.pendings[x][j].w] = due[q.pendings[x][j].w]
    BY <1>5
  <2> QED BY <2>1, OrderKept
<1> QED BY <1>2, <1>3, <1>6, <1>7 DEF QueueKept

\* ev_feed_event of another event
LEMMA FeedKept ==
  ASSUME QueueKept, rfeeds = <<>>, NEW w \in Watchers,
         NEW revents \in SUBSET Flags, "EV_TIMER" \notin revents,
         q' = FeedEvent(q, w, revents), due' = due, rfeeds' = rfeeds
  PROVE  QueueKept'
<1>1. Good(q) /\ due \in [Watchers -> Nat \cup {NotDue}]
  BY DEF QueueKept
<1>2. Good(q')
  BY <1>1, FeedGood
<1>3. \A v \in Watchers : IsDue(v) => IsPending(q, v)
  BY DEF QueueKept, DuesKept
<1>4. CASE ~IsPending(q, w)
  <2> DEFINE p == q.priority[w]
  <2>1. p \in Pri
    BY <1>1 DEF Good, QueueState
  <2>2. /\ \A v \in Watchers : IsPending(q', v) <=> IsPending(q, v) \/ v = w
        /\ \A x \in Pri : x # q.priority[w] => q'.pendings[x] = q.pendings[x]
        /\ \A x \in Pri : x = q.priority[w] =>
              /\ Len(q'.pendings[x]) = Len(q.pendings[x]) + 1
              /\ \A j \in 1 .. Len(q.pendings[x]) : q'.pendings[x][j] = q.pendings[x][j]
              /\ q'.pendings[x][Len(q'.pendings[x])] = [w |-> w, events |-> revents]
    BY <1>1, <1>4, FeedNew
  \* an entry is an old one or of a timer that is not due
  <2>3. ASSUME NEW x \in Pri, NEW j \in 1 .. Len(q'.pendings[x])
        PROVE  \/ j \in 1 .. Len(q.pendings[x]) /\ q'.pendings[x][j] = q.pendings[x][j]
               \/ q'.pendings[x][j] = [w |-> w, events |-> revents]
    <3>1. CASE x = p
      <4>1. j \in 1 .. Len(q.pendings[x]) \/ j = Len(q'.pendings[x])
        BY <2>2, <3>1, QueueFacts
      <4> QED BY <2>2, <3>1, <4>1
    <3>2. CASE x # p
      BY <2>2, <3>2
    <3> QED BY <3>1, <3>2
  <2>4. ~IsDue(w)
    BY <1>3, <1>4
  <2>5. DuesKept'
    <3>1. \A v \in Watchers : due'[v] # NotDue =>
            IsPending(q', v) \/ \E i \in 1 .. Len(rfeeds') : rfeeds'[i] = v
      BY <1>3, <2>2 DEF IsDue
    <3>2. ASSUME NEW x \in Pri, NEW j \in 1 .. Len(q'.pendings[x]),
                 q'.pendings[x][j].w # pending_w, "EV_TIMER" \in q'.pendings[x][j].events
          PROVE  due'[q'.pendings[x][j].w] # NotDue
      <4>1. CASE j \in 1 .. Len(q.pendings[x]) /\ q'.pendings[x][j] = q.pendings[x][j]
        BY <3>2, <4>1 DEF QueueKept, DuesKept, IsDue
      <4>2. CASE q'.pendings[x][j] = [w |-> w, events |-> revents]
        BY <3>2, <4>2
      <4> QED BY <2>3, <4>1, <4>2
    <3> QED BY <3>1, <3>2 DEF DuesKept, IsDue
  <2>6. EarliestFirst'
    <3>1. ASSUME NEW x \in Pri, NEW j \in 1 .. Len(q'.pendings[x]),
                 due'[q'.pendings[x][j].w] # NotDue
          PROVE  /\ j \in 1 .. Len(q.pendings[x]) /\ q'.pendings[x][j].w = q.pendings[x][j].w
                 /\ due'[q.pendings[x][j].w] = due[q.pendings[x][j].w]
      <4>1. q'.pendings[x][j].w # w
        BY <2>4, <3>1 DEF IsDue
      <4> QED BY <2>3, <4>1
    <3> QED BY <3>1, OrderKept
  <2> QED BY <1>1, <1>2, <2>5, <2>6 DEF QueueKept
<1>5. CASE IsPending(q, w)
  <2>1. /\ \A v \in Watchers : IsPending(q', v) <=> IsPending(q, v)
        /\ \A x \in Pri :
              /\ Len(q'.pendings[x]) = Len(q.pendings[x])
              /\ \A j \in 1 .. Len(q.pendings[x]) :
                   /\ q'.pendings[x][j].w = q.pendings[x][j].w
                   /\ q'.pendings[x][j].events \subseteq q.pendings[x][j].events \cup revents
    BY <1>1, <1>5, FeedAgain
  <2>2. DuesKept'
    <3>1. \A v \in Watchers : due'[v] # NotDue =>
            IsPending(q', v) \/ \E i \in 1 .. Len(rfeeds') : rfeeds'[i] = v
      BY <1>3, <2>1 DEF IsDue
    <3>2. ASSUME NEW x \in Pri, NEW j \in 1 .. Len(q'.pendings[x]),
                 q'.pendings[x][j].w # pending_w, "EV_TIMER" \in q'.pendings[x][j].events
          PROVE  due'[q'.pendings[x][j].w] # NotDue
      <4>1. "EV_TIMER" \in q.pendings[x][j].events
        BY <2>1, <3>2
      <4> QED BY <2>1, <3>2, <4>1 DEF QueueKept, DuesKept, IsDue
    <3> QED BY <3>1, <3>2 DEF DuesKept, IsDue
  <2>3. EarliestFirst'
    BY <2>1, OrderKept
  <2> QED BY <1>1, <1>2, <2>2, <2>3 DEF QueueKept
<1> QED BY <1>4, <1>5

\* ev_invoke_pending takes the entry it calls.
LEMMA InvokeKept ==
  ASSUME QueueKept, NEW p \in Pri, q.pendings[p] # <<>>, q' = PopEntry(q, p),
         NEW v, v = TopEntry(q, p).w,
         due' = IF v = pending_w THEN due ELSE [due EXCEPT ![v] = NotDue],
         rfeeds' = rfeeds
  PROVE  QueueKept'
<1>1. Good(q) /\ due \in [Watchers -> Nat \cup {NotDue}]
  BY DEF QueueKept
<1>2. Good(q') /\ TopEntry(q, p) \in Entry
  BY <1>1, PopGood
<1>3. v \in Watchers \/ v = pending_w
  BY <1>2 DEF Entry
<1>4. /\ due' \in [Watchers -> Nat \cup {NotDue}]
      /\ \A x \in Watchers : x # v => due'[x] = due[x]
      /\ \A x \in Watchers : x = v => due'[x] = NotDue
  BY <1>1, <1>3, PendingAssumption
<1>5. /\ \A x \in Watchers : IsPending(q', x) <=> IsPending(q, x) /\ x # v
      /\ \A x \in Pri : \A j \in 1 .. Len(q'.pendings[x]) :
              /\ j \in 1 .. Len(q.pendings[x])
              /\ q'.pendings[x][j] = q.pendings[x][j]
              /\ q.pendings[x][j].w # pending_w => q.pendings[x][j].w # v
  BY <1>1, PopEffect
<1>6. \A x \in Pri : \A j \in 1 .. Len(q'.pendings[x]) : q'.pendings[x][j].w # pending_w =>
        /\ j \in 1 .. Len(q.pendings[x]) /\ q'.pendings[x][j] = q.pendings[x][j]
        /\ q.pendings[x][j].w # v /\ q.pendings[x][j].w \in Watchers
        /\ due'[q.pendings[x][j].w] = due[q.pendings[x][j].w]
  BY <1>4, <1>5, QueueFacts
<1>7. DuesKept'
  <2>1. \A x \in Watchers : due'[x] # NotDue =>
          IsPending(q', x) \/ \E i \in 1 .. Len(rfeeds') : rfeeds'[i] = x
    BY <1>4, <1>5 DEF QueueKept, DuesKept, IsDue
  <2>2. \A x \in Pri : \A j \in 1 .. Len(q'.pendings[x]) :
          q'.pendings[x][j].w # pending_w /\ "EV_TIMER" \in q'.pendings[x][j].events
            => due'[q'.pendings[x][j].w] # NotDue
    BY SMTT(40), <1>6 DEF QueueKept, DuesKept, IsDue
  <2> QED BY <2>1, <2>2 DEF DuesKept, IsDue
<1>8. EarliestFirst'
  <2>1. \A x \in Pri : \A j \in 1 .. Len(q'.pendings[x]) :
          q'.pendings[x][j].w # pending_w /\ due'[q'.pendings[x][j].w] # NotDue =>
            /\ j \in 1 .. Len(q.pendings[x]) /\ q'.pendings[x][j].w = q.pendings[x][j].w
            /\ due'[q.pendings[x][j].w] = due[q.pendings[x][j].w]
    BY <1>6
  <2> QED BY <2>1, OrderKept
<1> QED BY <1>2, <1>4, <1>7, <1>8 DEF QueueKept

\* feed_reverse_done queues what has expired, the last first.
LEMMA ReifyDoneKept ==
  ASSUME QueueKept, Reified, ~HasPending(q), q' = FeedReverseDone, rfeeds' = <<>>,
         due' = due
  PROVE  QueueKept'
<1> DEFINE n == Len(rfeeds)
           ws == [i \in 1 .. n |-> rfeeds[n + 1 - i]]
<1>1. /\ Good(q) /\ due \in [Watchers -> Nat \cup {NotDue}]
      /\ {"EV_TIMER"} \in SUBSET Flags
  BY EventAssumption DEF QueueKept
<1>2. rfeeds \in Seq(Watchers) /\ n \in Nat
  BY DEF Reified
<1>3. \A i \in 1 .. n : n + 1 - i \in 1 .. n /\ rfeeds[i] \in Watchers /\ ws[i] = rfeeds[n + 1 - i]
  BY <1>2
<1>4. ws \in Seq(Watchers) /\ Len(ws) = n
  <2>1. ws \in [1 .. n -> Watchers]
    BY <1>3
  <2> HIDE DEF ws
  <2> QED BY <1>2, <2>1, FunctionIsSeq
<1> HIDE DEF ws
<1>5. \A i, j \in 1 .. Len(ws) : ws[i] = ws[j] => i = j
  <2> SUFFICES ASSUME NEW i \in 1 .. n, NEW j \in 1 .. n, ws[i] = ws[j] PROVE i = j
    BY <1>4
  <2>1. n + 1 - i = n + 1 - j
    BY <1>3 DEF Reified, OncePerIteration
  <2> QED BY <1>2, <2>1
<1>6. q' = QueueEvents(q, ws, {"EV_TIMER"})
  BY DEF FeedReverseDone, ws
<1>7. Fed(q', ws, n, {"EV_TIMER"})
  BY <1>1, <1>4, <1>5, <1>6, QueueEventsFeeds
<1>8. \A w \in Watchers : ~IsPending(q, w)
  BY NothingPending DEF QueueKept
<1>9. DuesKept'
  <2>1. ASSUME NEW w \in Watchers, due[w] # NotDue PROVE IsPending(q', w)
    <3>1. PICK i \in 1 .. n : rfeeds[i] = w
      BY <1>8, <2>1 DEF QueueKept, DuesKept, IsDue
    <3>2. n + 1 - i \in 1 .. n /\ n + 1 - (n + 1 - i) = i
      BY <1>2
    <3>3. ws[n + 1 - i] = w
      BY <1>3, <3>1, <3>2
    <3> QED BY <1>7, <3>2, <3>3 DEF Fed
  <2>2. ASSUME NEW x \in Pri, NEW j \in 1 .. Len(q'.pendings[x])
        PROVE  due[q'.pendings[x][j].w] # NotDue
    <3>1. PICK i \in 1 .. n : q'.pendings[x][j] = [w |-> ws[i], events |-> {"EV_TIMER"}]
      BY <1>7 DEF Fed
    <3> QED BY <1>3, <3>1 DEF Reified, IsDue
  <2> QED BY <2>1, <2>2 DEF DuesKept, IsDue
<1>10. EarliestFirst'
  <2> SUFFICES ASSUME NEW x \in Pri, NEW a \in 1 .. Len(q'.pendings[x]),
                      NEW b \in 1 .. Len(q'.pendings[x]), a < b
               PROVE  due[q'.pendings[x][a].w] >= due[q'.pendings[x][b].w]
    BY DEF EarliestFirst
  <2>1. PICK i \in 1 .. n : q'.pendings[x][a] = [w |-> ws[i], events |-> {"EV_TIMER"}]
    BY <1>7 DEF Fed
  <2>2. PICK j \in 1 .. n : q'.pendings[x][b] = [w |-> ws[j], events |-> {"EV_TIMER"}]
    BY ZenonT(40), <1>7 DEF Fed
  <2>3. q'.pendings[x][a].w = ws[i] /\ q'.pendings[x][b].w = ws[j]
    BY <2>1, <2>2
  <2>4. i < j
    BY <1>7, <2>3 DEF Fed
  <2>5. n + 1 - j \in 1 .. n /\ n + 1 - i \in 1 .. n /\ n + 1 - j < n + 1 - i
    BY <1>2, <2>4
  <2>6. due[rfeeds[n + 1 - j]] <= due[rfeeds[n + 1 - i]]
    BY <2>5 DEF Reified
  <2>7. due[rfeeds[n + 1 - j]] \in Int /\ due[rfeeds[n + 1 - i]] \in Int
    BY <1>3, <2>5, QueueFacts
  <2> QED BY <1>3, <2>3, <2>6, <2>7
<1> QED BY <1>1, <1>7, <1>9, <1>10 DEF QueueKept, Fed

-----------------------------------------------------------------------------
\* The steps

\* timers_reify expires the first timer: it was due last of those expired so
\* far, is not one of them, and will not be due again.
LEMMA ExpireKept ==
  ASSUME TimersInv, TimersReifyExpire
  PROVE  TimersInv'
<1> USE TimeAssumption
<1>1. phase = "reify" /\ timers.heap # <<>> /\ First.at < mn_now
  BY DEF TimersReifyExpire, Expired
<1>2. HeapKept /\ QueueKept /\ Reified /\ PhaseKept
  BY DEF TimersInv
<1> PICK w \in Watchers : w = First.w
  BY <1>1, <1>2, FirstFacts
<1> DEFINE next == NextAt(w)
<1>3. /\ IsActive(w) /\ First.at = at[w] /\ at[w] \in Nat /\ at[w] < mn_now
      /\ \A e \in Elements(timers.heap) : at[w] <= e.at
  BY <1>1, <1>2, FirstFacts
<1>4. /\ repeat' = repeat /\ mn_now' = mn_now /\ phase' = phase
      /\ due' = [due EXCEPT ![w] = at[w]] /\ rfeeds' = Append(rfeeds, w)
      /\ mn_now \in Nat /\ mn_now \in Int /\ repeat[w] \in Nat
  <2>1. mn_now \in 0 .. MaxTime /\ repeat \in [Watchers -> Repeats]
    BY <1>2 DEF PhaseKept
  <2>2. mn_now \in Nat /\ mn_now \in Int
    BY <2>1
  <2>3. repeat[w] \in Repeats
    BY <2>1
  <2>4. repeat[w] \in Nat
    BY <2>3
  <2> QED BY <2>2, <2>4 DEF TimersReifyExpire
<1>5. rfeeds \in Seq(Watchers) /\ Len(rfeeds) \in Nat
  BY <1>2 DEF Reified
<1>6. \A i \in 1 .. Len(rfeeds) : rfeeds[i] \in Watchers /\ rfeeds[i] # w
  <2> SUFFICES ASSUME NEW i \in 1 .. Len(rfeeds)
               PROVE  rfeeds[i] \in Watchers /\ rfeeds[i] # w
    OBVIOUS
  <2>1. IsActive(rfeeds[i]) => at[rfeeds[i]] >= mn_now
    BY <1>2 DEF Reified
  <2>2. ~(at[w] >= mn_now)
    BY <1>3, <1>4
  <2> QED BY <1>3, <1>5, <2>1, <2>2
<1>7. ~HasPending(q) /\ Good(q) /\ due \in [Watchers -> Nat \cup {NotDue}]
  BY <1>1, <1>2 DEF PhaseKept, QueueKept
<1>8. q' = q
  <2>1. ~IsPending(q, w)
    BY <1>3, <1>7, NothingPending
  <2>2. ClearPending(q, w) = q
    BY <2>1 DEF ClearPending
  <2> QED BY <2>2 DEF TimersReifyExpire
\* the heap, and what timers_reify leaves in it
<1>9. /\ HeapKept'
      /\ \A e \in Elements(timers'.heap) : at[w] <= e.at
      /\ (IsActive(w)' => at'[w] >= mn_now)
      /\ \A v \in Watchers : v # w => at'[v] = at[v] /\ (IsActive(v)' => IsActive(v))
  <2>1. HeapKept' => \A v \in Watchers : IsActive(v)' =>
                        \E e \in Elements(timers'.heap) : e.w = v
    BY ActiveAreWatched DEF HeapKept, IsActive
  <2>2. at \in [Watchers -> Int]
    BY <1>2 DEF HeapKept
  <2>3. CASE repeat[w] # 0
    <3>1. next \in Nat /\ next >= mn_now /\ next >= at[w]
      BY <1>3, <1>4 DEF NextAt
    <3>2. /\ timers' = DownHeap([timers EXCEPT !.heap[1].at = next], 1)
          /\ at' = [at EXCEPT ![w] = next]
      BY <2>3 DEF TimersReifyExpire
    <3> HIDE DEF next
    <3>3. /\ HeapKept'
          /\ Elements(timers'.heap) = {e \in Elements(timers.heap) : e.w # w}
                                         \cup {[w |-> w, at |-> next]}
      BY <1>1, <1>2, <1>4, <3>1, <3>2, RepeatKept DEF Elements
    <3>4. \A e \in Elements(timers'.heap) : e \in Elements(timers.heap) \/ e = [w |-> w, at |-> next]
      BY <3>3
    <3>5. \A e \in Elements(timers'.heap) : at[w] <= e.at
      BY <1>3, <3>1, <3>4
    <3>6. \A v \in Watchers : v # w => (IsActive(v)' => IsActive(v))
      BY <1>2, <2>1, <3>3, <3>4, HeapFacts
    <3>7. at'[w] = next /\ \A v \in Watchers : v # w => at'[v] = at[v]
      BY <1>3, <2>2, <3>2
    <3> QED BY <3>1, <3>3, <3>5, <3>6, <3>7
  <2>4. CASE repeat[w] = 0
    <3>1. timers' = Delete(timers, w) /\ at' = [at EXCEPT ![w] = at[w] - mn_now]
      BY <2>4 DEF TimersReifyExpire
    <3>2. /\ HeapKept' /\ ~IsActive(w)'
          /\ Elements(timers.heap)' = {e \in Elements(timers.heap) : e.w # w}
      BY <1>1, <1>2, <1>3, <1>4, <3>1, StopKept
    <3>3. Elements(timers'.heap) = {e \in Elements(timers.heap) : e.w # w}
      BY <3>2 DEF Elements
    <3>4. \A v \in Watchers : v # w => (IsActive(v)' => IsActive(v))
      BY <1>2, <2>1, <3>2, <3>3, HeapFacts
    <3>5. \A v \in Watchers : v # w => at'[v] = at[v]
      BY <1>3, <2>2, <3>1
    <3> QED BY <1>3, <3>2, <3>3, <3>4, <3>5
  <2> QED BY <2>3, <2>4
\* what timers_reify remembers
<1>10. /\ due' \in [Watchers -> Nat \cup {NotDue}]
       /\ due'[w] = at[w] /\ due'[w] # NotDue
       /\ \A v \in Watchers : v # w => due'[v] = due[v]
  BY <1>3, <1>4, <1>7 DEF NotDue
<1>11. /\ rfeeds' \in Seq(Watchers) /\ Len(rfeeds') = Len(rfeeds) + 1
       /\ \A i \in 1 .. Len(rfeeds) : rfeeds'[i] = rfeeds[i]
       /\ rfeeds'[Len(rfeeds) + 1] = w
  BY <1>4, <1>5
<1>12. \A i \in 1 .. Len(rfeeds') : i \in 1 .. Len(rfeeds) \/ i = Len(rfeeds) + 1
  BY <1>5, <1>11
<1>13. QueueKept'
  <2>1. \A p \in Pri : \A i \in 1 .. Len(q.pendings[p]) : FALSE
    BY <1>7 DEF HasPending
  <2>2. EarliestFirst'
    BY <1>8, <2>1 DEF EarliestFirst
  <2>3. ASSUME NEW v \in Watchers, IsDue(v)' PROVE \E i \in 1 .. Len(rfeeds') : rfeeds'[i] = v
    <3>1. CASE v = w
      BY <1>5, <1>11, <3>1
    <3>2. CASE v # w
      <4>1. IsDue(v)
        BY <1>10, <2>3, <3>2 DEF IsDue
      <4>2. PICK i \in 1 .. Len(rfeeds) : rfeeds[i] = v
        BY <1>2, <1>7, <4>1, NothingPending DEF QueueKept, DuesKept
      <4>3. i \in 1 .. Len(rfeeds')
        BY <1>5, <1>11
      <4> QED BY <1>11, <4>2, <4>3
    <3> QED BY <3>1, <3>2
  <2>4. DuesKept'
    BY <1>8, <2>1, <2>3 DEF DuesKept
  <2> QED BY <1>7, <1>8, <1>10, <2>2, <2>4 DEF QueueKept
<1>14. Reified'
  <2>1. OncePerIteration'
    <3> SUFFICES ASSUME NEW i \in 1 .. Len(rfeeds'), NEW j \in 1 .. Len(rfeeds'),
                        rfeeds'[i] = rfeeds'[j]
                 PROVE  i = j
      BY DEF OncePerIteration
    <3> QED BY <1>2, <1>6, <1>11, <1>12 DEF Reified, OncePerIteration
  <2>2. ASSUME NEW i \in 1 .. Len(rfeeds')
        PROVE  /\ due'[rfeeds'[i]] # NotDue
               /\ timers'.active[rfeeds'[i]] # 0 => at'[rfeeds'[i]] >= mn_now
               /\ due'[rfeeds'[i]] <= at[w]
               /\ \A e \in Elements(timers'.heap) : due'[rfeeds'[i]] <= e.at
    <3>1. CASE i = Len(rfeeds) + 1
      <4>1. rfeeds'[i] = w
        BY <1>11, <3>1
      <4> QED BY <1>3, <1>9, <1>10, <4>1 DEF IsActive
    <3>2. CASE i \in 1 .. Len(rfeeds)
      <4> PICK v \in Watchers : v = rfeeds[i]
        BY <1>6, <3>2
      <4>1. rfeeds'[i] = v /\ v # w
        BY <1>6, <1>11, <3>2
      <4>2. /\ IsDue(v) /\ (IsActive(v) => at[v] >= mn_now)
            /\ \A e \in Elements(timers.heap) : due[v] <= e.at
        BY <1>2, <3>2 DEF Reified
      <4>3. due[v] \in Nat
        BY <1>2, <4>1, <4>2, QueueFacts
      <4>4. due[v] <= at[w]
        <5>1. First \in Elements(timers.heap) /\ First.at = at[w]
          BY <1>1, <1>2, <1>3, FirstFacts
        <5> QED BY <4>2, <5>1
      <4>5. \A e \in Elements(timers'.heap) : e.at \in Nat /\ at[w] <= e.at
        BY <1>9 DEF HeapKept
      <4>6. due'[v] = due[v]
        BY <1>10, <4>1
      <4>7. \A e \in Elements(timers'.heap) : due'[v] <= e.at
        BY <1>3, <4>3, <4>4, <4>5, <4>6
      <4>8. due'[v] # NotDue
        BY <4>2, <4>6 DEF IsDue
      <4>9. timers'.active[v] # 0 => at'[v] >= mn_now
        BY <1>4, <1>9, <4>1, <4>2 DEF IsActive
      <4> QED BY <4>1, <4>4, <4>6, <4>7, <4>8, <4>9
    <3> QED BY <1>12, <3>1, <3>2
  <2>3. ASSUME NEW i \in 1 .. Len(rfeeds'), NEW j \in 1 .. Len(rfeeds'), i < j
        PROVE  due'[rfeeds'[i]] <= due'[rfeeds'[j]]
    <3>1. i \in 1 .. Len(rfeeds)
      BY <1>5, <1>12, <2>3
    <3>2. CASE j = Len(rfeeds) + 1
      BY <1>10, <1>11, <2>2, <3>2
    <3>3. CASE j \in 1 .. Len(rfeeds)
      <4>1. due[rfeeds[i]] <= due[rfeeds[j]]
        BY <1>2, <2>3, <3>1, <3>3 DEF Reified
      <4> QED BY <1>6, <1>10, <1>11, <3>1, <3>3, <4>1
    <3> QED BY <1>12, <3>2, <3>3
  <2> QED BY <1>4, <1>11, <2>1, <2>2, <2>3 DEF Reified, IsDue, IsActive
<1>15. PhaseKept'
  BY <1>1, <1>2, <1>4, <1>7, <1>8 DEF PhaseKept
<1> QED BY <1>9, <1>13, <1>14, <1>15 DEF TimersInv

\* What a step leaves alone
LEMMA QueueSame ==
  ASSUME QueueKept, q' = q, due' = due, rfeeds' = rfeeds
  PROVE  QueueKept'
BY DEF QueueKept, DuesKept, EarliestFirst, IsDue

LEMMA HeapSame ==
  ASSUME HeapKept, timers' = timers, at' = at, mn_now \in Int, mn_now' \in Int, mn_now' >= mn_now
  PROVE  HeapKept'
<1>1. \A w \in Watchers : at[w] \in Int
  BY HeapFacts
<1>2. ASSUME NEW w \in Watchers, ~IsActive(w) PROVE at[w] + mn_now' \in Nat
  <2>1. at[w] + mn_now \in Nat
    BY <1>2 DEF HeapKept
  <2> QED BY <1>1, <2>1
<1> QED BY <1>2 DEF HeapKept, IsActive

LEMMA NothingReified ==
  ASSUME rfeeds' = <<>>
  PROVE  Reified'
BY DEF Reified, OncePerIteration

\* An action of the user's keeps the phase.
LEMMA UserKept ==
  ASSUME PhaseKept, phase = "user", phase' = phase, rfeeds' = rfeeds,
         repeat' \in [Watchers -> Repeats], mn_now' \in 0 .. MaxTime
  PROVE  PhaseKept'
BY DEF PhaseKept

LEMMA StepTimersInv == TimersInv /\ [Next]_vars => TimersInv'
<1> SUFFICES ASSUME TimersInv, [Next]_vars PROVE TimersInv'
  OBVIOUS
<1> USE TimeAssumption
<1>1. HeapKept /\ QueueKept /\ Reified /\ PhaseKept
  BY DEF TimersInv
<1>2. /\ mn_now \in 0 .. MaxTime /\ repeat \in [Watchers -> Repeats]
      /\ phase # "reify" => rfeeds = <<>>
  BY <1>1 DEF PhaseKept
<1>3. mn_now \in Nat /\ mn_now \in Int
  BY <1>2
<1>4. \A w \in Watchers : repeat[w] \in Nat
  <2>1. \A w \in Watchers : repeat[w] \in Repeats
    BY <1>2
  <2> QED BY <2>1
<1>5. \A w \in Watchers : at[w] \in Int /\ (~IsActive(w) => at[w] + mn_now \in Nat)
  BY <1>1, HeapFacts DEF HeapKept
\* with the time unchanged
<1>6. timers' = timers /\ at' = at /\ mn_now' = mn_now => HeapKept'
  BY <1>1, <1>3, HeapSame
\* ev_timer_stop
<1>7. ASSUME NEW w \in Watchers, Stop(w), mn_now' = mn_now, rfeeds' = rfeeds
      PROVE  HeapKept' /\ QueueKept'
  <2>1. QueueKept'
    BY <1>1, <1>7, ClearKept DEF Stop
  <2>2. CASE IsActive(w)
    BY <1>1, <1>3, <1>7, <2>1, <2>2, StopKept DEF Stop
  <2>3. CASE ~IsActive(w)
    BY <1>6, <1>7, <2>1, <2>3 DEF Stop
  <2> QED BY <2>1, <2>2, <2>3
<1>8. ASSUME NEW w \in Watchers, NEW after \in Afters, NEW rep \in Repeats,
             EvTimerSet(w, after, rep)
      PROVE  TimersInv'
  <2>1. /\ phase = "user" /\ ~IsActive(w) /\ at' = [at EXCEPT ![w] = after]
        /\ repeat' = [repeat EXCEPT ![w] = rep]
        /\ timers' = timers /\ mn_now' = mn_now /\ q' = q /\ rfeeds' = rfeeds
        /\ phase' = phase /\ due' = due
    BY <1>8 DEF EvTimerSet
  <2>2. HeapKept'
    <3>1. /\ after \in Int /\ after + mn_now \in Nat
          /\ HeapState(timers', Watchers) /\ HeapOK(timers')
      BY <1>1, <1>3, <2>1 DEF HeapKept
    <3>2. Elements(timers'.heap) = {e \in Elements(timers.heap) : e.w # w}
      BY <1>1, <2>1, HeapFacts
    <3> QED BY <1>1, <2>1, <3>1, <3>2, OneTimerKept
  <2>3. QueueKept' /\ Reified' /\ PhaseKept'
    BY <1>1, <1>2, <2>1, QueueSame, NothingReified, UserKept
  <2> QED BY <2>2, <2>3 DEF TimersInv
<1>9. ASSUME NEW w \in Watchers, NEW rep \in Repeats, SetRepeat(w, rep) PROVE TimersInv'
  <2>1. /\ phase = "user" /\ repeat' = [repeat EXCEPT ![w] = rep]
        /\ timers' = timers /\ at' = at /\ mn_now' = mn_now /\ q' = q /\ rfeeds' = rfeeds
        /\ phase' = phase /\ due' = due
    BY <1>9 DEF SetRepeat
  <2> QED BY <1>1, <1>2, <1>6, <2>1, QueueSame, NothingReified, UserKept DEF TimersInv
<1>10. ASSUME NEW w \in Watchers, EvTimerStart(w) PROVE TimersInv'
  <2>1. /\ phase = "user" /\ ~IsActive(w) /\ StartAt(w, at[w]) /\ repeat' = repeat
        /\ mn_now' = mn_now /\ q' = q /\ rfeeds' = rfeeds /\ phase' = phase /\ due' = due
    BY <1>10 DEF EvTimerStart
  <2>2. HeapKept'
    BY <1>1, <1>3, <1>5, <2>1, StartKept
  <2> QED BY <1>1, <1>2, <2>1, <2>2, QueueSame, NothingReified, UserKept DEF TimersInv
<1>11. ASSUME NEW w \in Watchers, EvTimerStop(w) PROVE TimersInv'
  <2>1. /\ phase = "user" /\ Stop(w) /\ repeat' = repeat /\ mn_now' = mn_now
        /\ rfeeds' = rfeeds /\ phase' = phase
    BY <1>11 DEF EvTimerStop
  <2> QED BY <1>1, <1>2, <1>7, <2>1, NothingReified, UserKept DEF TimersInv
<1>12. ASSUME NEW w \in Watchers, EvTimerAgain(w) PROVE TimersInv'
  <2>1. /\ phase = "user" /\ repeat' = repeat /\ mn_now' = mn_now
        /\ rfeeds' = rfeeds /\ phase' = phase
    BY <1>12 DEF EvTimerAgain
  <2>2. ASSUME IsActive(w), repeat[w] # 0, AgainActive(w) PROVE HeapKept' /\ QueueKept'
    <3> DEFINE x == mn_now + repeat[w]
    <3>1. x \in Nat
      BY <1>3, <1>4
    <3>2. timers' = SetAt(timers, w, x) /\ at' = [at EXCEPT ![w] = x]
      BY <2>2 DEF AgainActive
    <3> HIDE DEF x
    <3>3. HeapKept'
      BY <1>1, <2>1, <2>2, <3>1, <3>2, AgainKept
    <3>4. QueueKept'
      BY <1>1, <2>1, <2>2, ClearKept DEF AgainActive
    <3> QED BY <3>3, <3>4
  <2>3. ASSUME Stop(w) PROVE HeapKept' /\ QueueKept'
    BY <1>7, <2>1, <2>3
  <2>4. ASSUME ~IsActive(w), q' = ClearPending(q, w), due' = [due EXCEPT ![w] = NotDue],
               IF repeat[w] # 0 THEN StartAt(w, repeat[w]) ELSE UNCHANGED <<at, timers>>
        PROVE  HeapKept' /\ QueueKept'
    <3>1. QueueKept'
      BY <1>1, <2>1, <2>4, ClearKept
    <3>2. CASE repeat[w] # 0
      <4>1. repeat[w] \in Int /\ repeat[w] + mn_now \in Nat /\ StartAt(w, repeat[w])
        BY <1>3, <1>4, <2>4, <3>2
      <4> QED BY <1>1, <1>3, <2>1, <2>4, <3>1, <4>1, StartKept
    <3>3. CASE repeat[w] = 0
      BY <1>6, <2>1, <2>4, <3>1, <3>3
    <3> QED BY <3>2, <3>3
  <2>5. HeapKept' /\ QueueKept'
    BY <1>12, <2>2, <2>3, <2>4 DEF EvTimerAgain
  <2> QED BY <1>1, <1>2, <2>1, <2>5, NothingReified, UserKept DEF TimersInv
<1>13. ASSUME NEW w \in Watchers, EvFeedEvent(w) PROVE TimersInv'
  <2>1. /\ phase = "user" /\ q' = FeedEvent(q, w, {"EV_CUSTOM"}) /\ repeat' = repeat
        /\ mn_now' = mn_now /\ timers' = timers /\ at' = at
        /\ rfeeds' = rfeeds /\ phase' = phase /\ due' = due
    BY <1>13 DEF EvFeedEvent
  <2>2. QueueKept'
    <3> DEFINE revents == {"EV_CUSTOM"}
    <3>1. revents \in SUBSET Flags /\ "EV_TIMER" \notin revents /\ q' = FeedEvent(q, w, revents)
      BY <2>1, EventAssumption
    <3> HIDE DEF revents
    <3> QED BY <1>1, <1>2, <2>1, <3>1, FeedKept
  <2> QED BY <1>1, <1>2, <1>6, <2>1, <2>2, NothingReified, UserKept DEF TimersInv
<1>14. CASE EvNowUpdate
  <2>1. /\ phase = "user" /\ mn_now' \in mn_now .. MaxTime /\ repeat' = repeat
        /\ timers' = timers /\ at' = at /\ q' = q
        /\ rfeeds' = rfeeds /\ phase' = phase /\ due' = due
    BY <1>14 DEF EvNowUpdate, TimeUpdate
  <2>2. mn_now' \in Int /\ mn_now' >= mn_now /\ mn_now' \in 0 .. MaxTime
    BY <1>3, <2>1
  <2>3. HeapKept'
    BY <1>1, <1>3, <2>1, <2>2, HeapSame
  <2> QED BY <1>1, <1>2, <2>1, <2>2, <2>3, QueueSame, NothingReified, UserKept DEF TimersInv
<1>15. CASE UserReturns
  <2>1. /\ phase = "user" /\ phase' = "invoke" /\ repeat' = repeat /\ mn_now' = mn_now
        /\ timers' = timers /\ at' = at /\ q' = q /\ rfeeds' = rfeeds /\ due' = due
    BY <1>15 DEF UserReturns
  <2>2. PhaseKept'
    BY <1>1, <2>1 DEF PhaseKept
  <2> QED BY <1>1, <1>2, <1>6, <2>1, <2>2, QueueSame, NothingReified DEF TimersInv
<1>16. CASE LoopUpdate
  <2>1. /\ phase = "update" /\ phase' = "reify" /\ mn_now' \in mn_now .. MaxTime
        /\ repeat' = repeat /\ timers' = timers /\ at' = at /\ q' = q
        /\ rfeeds' = rfeeds /\ due' = due
    BY <1>16 DEF LoopUpdate, TimeUpdate
  <2>2. mn_now' \in Int /\ mn_now' >= mn_now /\ mn_now' \in 0 .. MaxTime
    BY <1>3, <2>1
  <2>3. HeapKept'
    BY <1>1, <1>3, <2>1, <2>2, HeapSame
  <2>4. PhaseKept'
    BY <1>1, <2>1, <2>2 DEF PhaseKept
  <2> QED BY <1>1, <1>2, <2>1, <2>3, <2>4, QueueSame, NothingReified DEF TimersInv
<1>17. CASE TimersReifyExpire
  BY <1>17, ExpireKept
<1>18. CASE TimersReifyDone
  <2>1. /\ phase = "reify" /\ phase' = "invoke" /\ q' = FeedReverseDone /\ rfeeds' = <<>>
        /\ repeat' = repeat /\ mn_now' = mn_now /\ timers' = timers /\ at' = at /\ due' = due
    BY <1>18 DEF TimersReifyDone
  <2>2. QueueKept'
    BY <1>1, <2>1, ReifyDoneKept DEF PhaseKept
  <2>3. PhaseKept'
    BY <1>1, <2>1 DEF PhaseKept
  <2> QED BY <1>6, <2>1, <2>2, <2>3, NothingReified DEF TimersInv
<1>19. CASE Invoke
  <2>1. /\ phase = "invoke" /\ HasPending(q) /\ q' = PopEntry(q, NextPri(q))
        /\ repeat' = repeat /\ mn_now' = mn_now /\ timers' = timers /\ at' = at
        /\ rfeeds' = rfeeds
        /\ due' = IF Top.w = pending_w THEN due ELSE [due EXCEPT ![Top.w] = NotDue]
        /\ phase' \in {"invoke", "user"}
    BY <1>19 DEF Invoke
  <2>2. QueueKept'
    <3> DEFINE p == NextPri(q)
               v == TopEntry(q, p).w
    <3>1. p \in Pri /\ q.pendings[p] # <<>>
      BY <2>1, NextPriHasEntry
    <3>2. /\ q' = PopEntry(q, p)
          /\ due' = IF v = pending_w THEN due ELSE [due EXCEPT ![v] = NotDue]
      BY <2>1 DEF Top
    <3> HIDE DEF p
    <3> QED BY <1>1, <2>1, <3>1, <3>2, InvokeKept
  <2>3. PhaseKept'
    BY <1>1, <2>1 DEF PhaseKept
  <2> QED BY <1>2, <1>6, <2>1, <2>2, <2>3, NothingReified DEF TimersInv
<1>20. CASE InvokeDone
  <2>1. /\ phase = "invoke" /\ ~HasPending(q) /\ phase' = "update" /\ repeat' = repeat
        /\ mn_now' = mn_now /\ timers' = timers /\ at' = at /\ q' = q
        /\ rfeeds' = rfeeds /\ due' = due
    BY <1>20 DEF InvokeDone
  <2>2. PhaseKept'
    BY <1>1, <2>1 DEF PhaseKept
  <2> QED BY <1>1, <1>2, <1>6, <2>1, <2>2, QueueSame, NothingReified DEF TimersInv
<1>21. CASE UNCHANGED vars
  <2>1. /\ phase' = phase /\ repeat' = repeat /\ mn_now' = mn_now /\ timers' = timers
        /\ at' = at /\ q' = q /\ rfeeds' = rfeeds /\ due' = due
    BY <1>21 DEF vars
  <2>2. PhaseKept' /\ Reified'
    BY <1>1, <2>1 DEF PhaseKept, Reified, OncePerIteration, IsDue, IsActive
  <2> QED BY <1>1, <1>6, <2>1, <2>2, QueueSame DEF TimersInv
<1> QED BY <1>8, <1>9, <1>10, <1>11, <1>12, <1>13, <1>14, <1>15, <1>16, <1>17, <1>18,
           <1>19, <1>20, <1>21 DEF Next

-----------------------------------------------------------------------------
\* What follows

LEMMA InvTimersConsistent == TimersInv => TimersConsistent
<1> SUFFICES ASSUME TimersInv PROVE TimersConsistent
  OBVIOUS
<1>1. HeapKept /\ QueueKept /\ Reified /\ PhaseKept
  BY DEF TimersInv
<1>2. HeapState(timers, Watchers) /\ HeapOK(timers)
  BY <1>1 DEF HeapKept
<1>3. /\ Len(timers.heap) \in Nat /\ timers.heap \in Seq(Anhe(Watchers))
      /\ timers.active \in [Watchers -> Nat]
  BY <1>2 DEF HeapState
<1>4. \A i \in 1 .. Len(timers.heap) :
        /\ timers.heap[i] \in Anhe(Watchers)
        /\ timers.heap[i] \in Elements(timers.heap)
  BY <1>3 DEF Elements
<1>5. \A i \in 1 .. Len(timers.heap) :
        /\ timers.heap[i] \in [w : Watchers, at : Nat]
        /\ timers.heap[i].at = at[timers.heap[i].w]
  <2>1. \A e \in Anhe(Watchers) : e.at \in Nat => e \in [w : Watchers, at : Nat]
    BY DEF Anhe
  <2> QED BY <1>1, <1>4, <2>1 DEF HeapKept
<1>6. timers.heap \in Seq([w : Watchers, at : Nat])
  <2> DEFINE D == [w : Watchers, at : Nat]
             n == Len(timers.heap)
             h == timers.heap
  <2>1. n \in Nat /\ h = [i \in 1 .. n |-> h[i]] /\ \A i \in 1 .. n : h[i] \in D
    BY <1>3, <1>5
  <2> HIDE DEF D, n, h
  <2>2. h \in [1 .. n -> D]
    BY <2>1
  <2>3. h \in Seq(D)
    BY <2>1, <2>2, FunctionIsSeq
  <2> QED BY <2>3 DEF D, h
<1>7. timers.active \in [Watchers -> 0 .. Len(timers.heap)]
  <2>1. \A w \in Watchers : timers.active[w] = 0 \/ timers.active[w] \in 1 .. Len(timers.heap)
    BY <1>2, <1>3 DEF HeapOK, ActiveInHeap
  <2>2. \A w \in Watchers : timers.active[w] \in 0 .. Len(timers.heap)
    BY <1>3, <2>1
  <2> QED BY <1>3, <2>2
<1>8. TypeOK
  BY <1>1, <1>6, <1>7 DEF HeapKept, QueueKept, Reified, PhaseKept, TypeOK, Good
<1> QED BY <1>2, <1>5, <1>8 DEF TimersConsistent, HeapConsistent

\* timers_reify ends when the first timer is not overdue.
LEMMA StepNoneOverdue ==
  ASSUME TimersInv, [Next]_vars, phase = "reify", phase' = "invoke",
         NEW w \in Watchers, IsActive(w)
  PROVE  at[w] >= mn_now
<1>1. TimersReifyDone
  <2>1. phase' # phase
    OBVIOUS
  <2> QED BY <2>1 DEF Next, vars, EvTimerSet, SetRepeat, EvTimerStart, EvTimerStop,
        EvTimerAgain, EvFeedEvent, EvNowUpdate, UserReturns, LoopUpdate, TimersReifyExpire,
        Invoke, InvokeDone
<1>2. HeapKept /\ mn_now \in Nat
  <2>1. mn_now \in 0 .. MaxTime
    BY DEF TimersInv, PhaseKept
  <2> QED BY <2>1, TimeAssumption DEF TimersInv
<1>3. PICK e \in Elements(timers.heap) : e.w = w
  BY <1>2, HeapFacts
<1>4. e.at = at[w] /\ e.at \in Nat
  BY <1>2, <1>3 DEF HeapKept
<1>5. timers.heap # <<>>
  <2>1. Elements(<<>>) = {}
    BY DEF Elements
  <2> QED BY <1>3, <2>1
<1>6. First.at <= e.at /\ First.at \in Nat
  BY <1>2, <1>5, FirstFacts
<1>7. ~(First.at < mn_now)
  BY <1>1, <1>5 DEF TimersReifyDone, Expired
<1> QED BY <1>2, <1>4, <1>6, <1>7

\* What is called with EV_TIMER is due.
LEMMA StepNoCancelledExpiry ==
  ASSUME TimersInv, [Next]_vars, phase = "invoke", phase' = "user", "EV_TIMER" \in Top.events
  PROVE  due[Top.w] # NotDue
<1>1. Invoke
  <2>1. phase' # phase
    OBVIOUS
  <2> QED BY <2>1 DEF Next, vars, EvTimerSet, SetRepeat, EvTimerStart, EvTimerStop,
        EvTimerAgain, EvFeedEvent, EvNowUpdate, UserReturns, LoopUpdate, TimersReifyExpire,
        TimersReifyDone, InvokeDone
<1>2. HasPending(q) /\ Top.w # pending_w
  BY <1>1 DEF Invoke
<1>3. QueueKept
  BY DEF TimersInv
<1> DEFINE p == NextPri(q)
           n == Len(q.pendings[p])
<1>4. p \in Pri /\ q.pendings[p] # <<>>
  BY <1>2, NextPriHasEntry
<1>5. Top = q.pendings[p][n]
  BY DEF Top, TopEntry
<1> HIDE DEF p
<1>6. n \in 1 .. Len(q.pendings[p])
  <2>1. q.pendings[p] \in Seq(Entry)
    BY <1>3, <1>4 DEF QueueKept, Good, QueueState
  <2> QED BY <1>4, <2>1
<1> HIDE DEF n
<1> QED BY <1>2, <1>3, <1>4, <1>5, <1>6 DEF QueueKept, DuesKept, IsDue

(***************************************************************************)
(* Every reachable state is one of the inductive invariant.                *)
(***************************************************************************)
THEOREM SpecTimersInv == Spec => []TimersInv
<1>1. Init => TimersInv
  BY InitTimersInv
<1>2. TimersInv /\ [Next]_vars => TimersInv'
  BY StepTimersInv
<1> QED BY <1>1, <1>2, PTL DEF Spec

(***************************************************************************)
(* Whatever is started, stopped, set again or expires, the heap is one and *)
(* agrees with the watchers about who is in it, where, and when it is due  *)
(* (what verify_heap asserts of the timers).                               *)
(***************************************************************************)
THEOREM SpecTimersConsistent == Spec => []TimersConsistent
BY SpecTimersInv, InvTimersConsistent, PTL

(***************************************************************************)
(* timers_reify expires no timer twice, however often it is behind, and    *)
(* the expired timers of one priority are called in the order of their     *)
(* times.                                                                  *)
(***************************************************************************)
THEOREM SpecExpiredInOrder == Spec => []ExpiredInOrder
<1>1. TimersInv => ExpiredInOrder
  BY DEF TimersInv, QueueKept, Reified, ExpiredInOrder
<1> QED BY <1>1, SpecTimersInv, PTL

(***************************************************************************)
(* timers_reify ends only when no timer is overdue, and no callback is     *)
(* told of an expiry that was cancelled.                                   *)
(***************************************************************************)
THEOREM SpecDueOrCancelled == Spec => DueOrCancelled
<1>1. TimersInv /\ [Next]_vars =>
        [phase = "reify" /\ phase' = "invoke" => \A w \in Active : at[w] >= mn_now]_vars
  <2> SUFFICES ASSUME TimersInv, [Next]_vars, phase = "reify", phase' = "invoke",
                      NEW w \in Watchers, IsActive(w)
               PROVE  at[w] >= mn_now
    BY DEF Active
  <2> QED BY StepNoneOverdue
<1>2. TimersInv /\ [Next]_vars =>
        [phase = "invoke" /\ phase' = "user" /\ "EV_TIMER" \in Top.events
           => due[Top.w] # NotDue]_vars
  BY StepNoCancelledExpiry
<1> QED BY <1>1, <1>2, SpecTimersInv, PTL DEF Spec, DueOrCancelled, NoneOverdue, NoCancelledExpiry

=============================================================================
