-------------------------- MODULE EvPendingProofs ---------------------------
(***************************************************************************)
(* Proofs about the callback dispatcher EvPending, for every set of        *)
(* watchers and events and every number of priorities.                     *)
(***************************************************************************)
EXTENDS EvPending, DataStructureProofs

-----------------------------------------------------------------------------
\* The inductive invariant: the type invariant and the consistency of indices
\* and entries support each other, the scan position needs both.
IInv == TypeOK /\ QueueConsistent /\ HigherDrained

LEMMA InitIInv == Init => IInv
<1> SUFFICES ASSUME Init PROVE IInv
  OBVIOUS
<1> USE PendingAssumption
<1> PICK priority \in [Watchers -> Pri] : q = InitQueue(priority)
  BY DEF Init
<1>1. q \in QueueState
  BY DEF InitQueue, QueueState
<1>2. \A p \in Pri : q.pendings[p] = <<>>
  BY DEF InitQueue
<1>3. IndexToEntry(q)
  BY DEF IndexToEntry, IsPending, InitQueue
<1>4. EntryToIndex(q)
  BY <1>2 DEF EntryToIndex
<1>5. calls \in Seq(Entry) /\ pendingpri \in Pri
  BY DEF Init, Pri
<1>6. scanning \in BOOLEAN
  BY DEF Init
<1> QED BY <1>1, <1>2, <1>3, <1>4, <1>5, <1>6
        DEF IInv, TypeOK, QueueConsistent, HigherDrained

\* Every step preserves the inductive invariant.
LEMMA StepIInv == IInv /\ [Next]_vars => IInv'
<1> SUFFICES ASSUME IInv, [Next]_vars PROVE IInv'
  OBVIOUS
<1> USE PendingAssumption
<1>1. Good(q) /\ pendingpri \in Pri /\ calls \in Seq(Entry) /\ scanning \in BOOLEAN
  BY DEF IInv, TypeOK, QueueConsistent, Good
<1>2. ASSUME Good(q'), pendingpri' \in Pri, calls' \in Seq(Entry),
             scanning' \in BOOLEAN, HigherDrained'
      PROVE  IInv'
  BY <1>2 DEF Good, IInv, TypeOK, QueueConsistent
<1>3. NUMPRI - 1 \in Pri /\ \A p \in Pri : ~(p > NUMPRI - 1)
  BY DEF Pri
<1>4. \A p \in Pri : p > pendingpri => q.pendings[p] = <<>>
  BY DEF IInv, HigherDrained
<1>5. ASSUME NEW w \in Watchers, NEW revents \in SUBSET Flags,
             EvFeedEvent(w, revents)
      PROVE  IInv'
  <2>1. Good(q')
    BY <1>1, <1>5, FeedGood DEF EvFeedEvent
  <2> QED BY <1>1, <1>2, <1>3, <1>5, <2>1 DEF EvFeedEvent, HigherDrained
<1>6. ASSUME NEW w \in Watchers, EvClearPending(w)
      PROVE  IInv'
  <2>1. Good(q')
    BY <1>1, <1>6, ClearGood DEF EvClearPending
  <2>2. \A p \in Pri : q.pendings[p] = <<>> => q'.pendings[p] = <<>>
    <3>1. CASE ~IsPending(q, w)
      BY <1>6, <3>1 DEF EvClearPending, ClearPending
    <3>2. CASE IsPending(q, w)
      <4>1. q.pending[w] \in 1 .. Len(q.pendings[q.priority[w]])
        BY <1>1, <3>2 DEF Good, IndexToEntry
      <4>2. q.pendings[q.priority[w]] # <<>>
        BY <4>1
      <4>3. \A p \in Pri : p # q.priority[w] => q'.pendings[p] = q.pendings[p]
        BY <1>1, <1>6, <3>2
           DEF EvClearPending, ClearPending, Good, QueueState
      <4> QED BY <4>2, <4>3
    <3> QED BY <3>1, <3>2
  <2> QED BY <1>1, <1>2, <1>4, <1>6, <2>1, <2>2 DEF EvClearPending, HigherDrained
<1>7. ASSUME NEW w \in Watchers, NEW p \in Pri, EvSetPriority(w, p)
      PROVE  IInv'
  <2>1. Good(q')
    BY <1>1, <1>7, SetPriorityGood DEF EvSetPriority
  <2>2. q'.pendings = q.pendings
    BY <1>1, <1>7 DEF EvSetPriority, Good, QueueState
  <2> QED BY <1>1, <1>2, <1>4, <1>7, <2>1, <2>2 DEF EvSetPriority, HigherDrained
<1>8. CASE EvInvokePending
  BY <1>1, <1>2, <1>3, <1>8 DEF EvInvokePending, HigherDrained
<1>9. CASE CallbackReturn
  <2>1. calls' \in Seq(Entry)
    BY <1>1, <1>9 DEF CallbackReturn
  <2> QED BY <1>1, <1>2, <1>4, <1>9, <2>1 DEF CallbackReturn, HigherDrained
<1>10. CASE InvokeWatcher
  <2>1. Good(q') /\ TopEntry(q, pendingpri) \in Entry
    BY <1>1, <1>10, PopGood DEF InvokeWatcher, AtEntry
  <2>2. \A p \in Pri : p # pendingpri => q'.pendings[p] = q.pendings[p]
    BY <1>1, <1>10 DEF InvokeWatcher, PopEntry, Good, QueueState
  <2>3. calls' \in Seq(Entry)
    BY <1>1, <1>10, <2>1 DEF InvokeWatcher
  <2>4. pendingpri' = pendingpri /\ scanning' \in BOOLEAN
    BY <1>10 DEF InvokeWatcher
  <2>5. HigherDrained'
    BY <1>1, <1>4, <2>2, <2>4 DEF HigherDrained, Pri
  <2> QED BY <1>1, <1>2, <2>1, <2>3, <2>4, <2>5
<1>11. CASE InvokeDummy
  <2>1. Good(q')
    BY <1>1, <1>11, PopGood DEF InvokeDummy, AtEntry
  <2>2. \A p \in Pri : p # pendingpri => q'.pendings[p] = q.pendings[p]
    BY <1>1, <1>11 DEF InvokeDummy, PopEntry, Good, QueueState
  <2> QED BY <1>1, <1>2, <1>4, <1>11, <2>1, <2>2
          DEF InvokeDummy, HigherDrained, Pri
<1>12. CASE ScanDown
  BY <1>1, <1>2, <1>4, <1>12 DEF ScanDown, HigherDrained, Pri
<1>13. CASE ScanDone
  BY <1>1, <1>2, <1>4, <1>13 DEF ScanDone, HigherDrained
<1>14. CASE UNCHANGED vars
  BY <1>1, <1>2, <1>4, <1>14 DEF vars, HigherDrained
<1> QED BY <1>5, <1>6, <1>7, <1>8, <1>9, <1>10, <1>11, <1>12, <1>13, <1>14 DEF Next

LEMMA SpecIInv == Spec => []IInv
<1> QED BY InitIInv, StepIInv, PTL DEF Spec

\* The dispatcher's state stays well typed.
THEOREM TypeCorrect == Spec => []TypeOK
<1>1. IInv => TypeOK
  BY DEF IInv
<1> QED BY <1>1, SpecIInv, PTL

\* A pending watcher and its entry always point at each other, and no other
\* entry names a watcher, for every number of watchers and priorities.
THEOREM QueueIsConsistent == Spec => []QueueConsistent
<1>1. IInv => QueueConsistent
  BY DEF IInv
<1> QED BY <1>1, SpecIInv, PTL

\* Nothing is ever queued above the priority the scan has reached.
THEOREM HigherIsDrained == Spec => []HigherDrained
<1>1. IInv => HigherDrained
  BY DEF IInv
<1> QED BY <1>1, SpecIInv, PTL

\* ev_invoke_pending returns only when no watcher is pending.
THEOREM ReturnsOnlyDrained == Spec => ReturnsDrained
<1>1. IInv /\ [Next]_vars
        => [scanning /\ ~scanning' /\ calls' = calls
              => \A w \in Watchers : ~IsPending(q, w)]_vars
  <2> SUFFICES ASSUME IInv, Next, scanning, ~scanning', calls' = calls,
                      NEW w \in Watchers, IsPending(q, w)
               PROVE  FALSE
    OBVIOUS
  <2> USE PendingAssumption
  <2>1. /\ calls \in Seq(Entry) /\ q.priority \in [Watchers -> Pri]
    BY DEF IInv, TypeOK, QueueState
  <2>2. ~InvokeWatcher
    <3> SUFFICES ASSUME InvokeWatcher PROVE FALSE
      OBVIOUS
    <3>1. calls' = Append(calls, TopEntry(q, pendingpri))
      BY DEF InvokeWatcher
    <3>2. Len(calls') = Len(calls) + 1
      BY <2>1, <3>1
    <3> QED BY <2>1, <3>2
  <2>3. ScanDone
    BY <2>2 DEF Next, EvFeedEvent, EvClearPending, EvSetPriority,
                EvInvokePending, CallbackReturn, InvokeDummy, ScanDown
  <2>4. q.pendings[q.priority[w]] = <<>>
    BY <2>1, <2>3 DEF ScanDone, IInv, HigherDrained, Pri
  <2>5. q.pending[w] \in 1 .. Len(q.pendings[q.priority[w]])
    BY DEF IInv, QueueConsistent, IndexToEntry
  <2> QED BY <2>4, <2>5
<1> QED BY <1>1, SpecIInv, PTL DEF Spec, ReturnsDrained

-----------------------------------------------------------------------------
(***************************************************************************)
(* The refinement.  Bar is the refinement mapping of EvPending as an       *)
(* operator on queue states; one lemma per queue operation says what it    *)
(* does to the abstract event sets.                                        *)
(***************************************************************************)
PendingSet(s) == {x \in Watchers : IsPending(s, x)}
EntryEvents(s, x) == s.pendings[s.priority[x]][s.pending[x]].events
Bar(s) == [x \in PendingSet(s) |-> EntryEvents(s, x)]

\* the event sets after feeding w
FedBar(s, w, revents) ==
  [x \in PendingSet(s) \cup {w} |->
     IF x = w
       THEN (IF w \in PendingSet(s) THEN EntryEvents(s, w) ELSE {}) \cup revents
       ELSE EntryEvents(s, x)]

\* Feeding w adds the events to the set of w and touches no other watcher.
LEMMA FeedBar ==
  ASSUME NEW s, Good(s), NEW w \in Watchers, NEW revents \in SUBSET Flags
  PROVE  /\ FeedEvent(s, w, revents).priority = s.priority
         /\ Bar(FeedEvent(s, w, revents)) = FedBar(s, w, revents)
<1> DEFINE p == s.priority[w]
           i == s.pending[w]
           t == FeedEvent(s, w, revents)
           F == FedBar(s, w, revents)
<1>1. /\ p \in Pri /\ i \in Nat
      /\ s.priority \in [Watchers -> Pri]
      /\ s.pending \in [Watchers -> Nat]
      /\ s.pendings \in [Pri -> Seq(Entry)]
      /\ s.pendings[p] \in Seq(Entry)
  BY DEF Good, QueueState
<1>2. CASE IsPending(s, w)
  <2> DEFINE e == [s.pendings[p][i] EXCEPT !.events = @ \cup revents]
             c == [s.pendings[p] EXCEPT ![i] = e]
  <2>1. i \in 1 .. Len(s.pendings[p])
    BY <1>2 DEF Good, IndexToEntry
  <2>2. s.pendings[p][i] \in Entry
    BY <1>1, <2>1
  <2>3. e.events = s.pendings[p][i].events \cup revents
    BY <2>2 DEF Entry
  <2>4. /\ t.priority = s.priority
        /\ t.pending = s.pending
        /\ t.pendings = [s.pendings EXCEPT ![p] = c]
    BY <1>1, <1>2 DEF FeedEvent, Good, QueueState
  <2>5. /\ c[i] = e
        /\ \A j \in 1 .. Len(s.pendings[p]) : j # i => c[j] = s.pendings[p][j]
    <3> HIDE DEF e, p, i
    <3> QED BY <1>1, <2>1
  <2>6. PendingSet(t) = PendingSet(s) /\ w \in PendingSet(s)
    BY <1>2, <2>4 DEF PendingSet, IsPending
  <2>7. EntryEvents(t, w) = EntryEvents(s, w) \cup revents
    <3> HIDE DEF c, t, e
    <3> QED BY <1>1, <2>3, <2>4, <2>5 DEF EntryEvents
  <2>8. ASSUME NEW x \in PendingSet(s), x # w
        PROVE  EntryEvents(t, x) = EntryEvents(s, x)
    <3>1. /\ x \in Watchers
          /\ s.priority[x] \in Pri
          /\ s.pending[x] \in 1 .. Len(s.pendings[s.priority[x]])
          /\ s.pendings[s.priority[x]][s.pending[x]].w = x
      BY <1>1 DEF Good, IndexToEntry, PendingSet
    <3>2. s.pendings[p][i].w = w
      BY <1>2 DEF Good, IndexToEntry
    <3>3. ~(s.priority[x] = p /\ s.pending[x] = i)
      BY <2>8, <3>1, <3>2
    <3> HIDE DEF c, t, e, p, i
    <3>4. CASE s.priority[x] = p
      BY <1>1, <2>4, <2>5, <3>1, <3>3, <3>4 DEF EntryEvents
    <3>5. CASE s.priority[x] # p
      BY <1>1, <2>4, <3>1, <3>5 DEF EntryEvents
    <3> QED BY <3>4, <3>5
  <2>9. Bar(t) = F
    <3> HIDE DEF t
    <3> QED BY <2>6, <2>7, <2>8 DEF Bar, FedBar
  <2> QED BY <2>4, <2>9
<1>3. CASE ~IsPending(s, w)
  <2> DEFINE n == Len(s.pendings[p])
             e == [w |-> w, events |-> revents]
             c == Append(s.pendings[p], e)
  <2>1. n \in Nat /\ c[n + 1] = e /\ \A j \in 1 .. n : c[j] = s.pendings[p][j]
    BY <1>1
  <2>2. /\ t.priority = s.priority
        /\ t.pending = [s.pending EXCEPT ![w] = n + 1]
        /\ t.pendings = [s.pendings EXCEPT ![p] = c]
    BY <1>1, <1>3 DEF FeedEvent, Good, QueueState
  <2> HIDE DEF c, t, p, i, n
  <2>3. PendingSet(t) = PendingSet(s) \cup {w} /\ w \notin PendingSet(s)
    BY <1>1, <1>3, <2>1, <2>2 DEF PendingSet, IsPending
  <2>4. EntryEvents(t, w) = revents
    BY <1>1, <2>1, <2>2 DEF EntryEvents, p
  <2>5. ASSUME NEW x \in PendingSet(s)
        PROVE  x # w /\ EntryEvents(t, x) = EntryEvents(s, x)
    <3>1. /\ x \in Watchers /\ x # w
          /\ s.priority[x] \in Pri
          /\ s.pending[x] \in 1 .. Len(s.pendings[s.priority[x]])
      BY <1>1, <1>3 DEF Good, IndexToEntry, PendingSet
    <3>2. CASE s.priority[x] = p
      BY <1>1, <2>1, <2>2, <3>1, <3>2 DEF EntryEvents, n
    <3>3. CASE s.priority[x] # p
      BY <1>1, <2>2, <3>1, <3>3 DEF EntryEvents
    <3> QED BY <3>1, <3>2, <3>3
  <2>6. Bar(t) = F
    BY <2>3, <2>4, <2>5 DEF Bar, FedBar
  <2> QED BY <2>2, <2>6 DEF t
<1> QED BY <1>2, <1>3

\* Clearing w removes its event set and touches no other watcher.
LEMMA ClearBar ==
  ASSUME NEW s, Good(s), NEW w \in Watchers
  PROVE  /\ ClearPending(s, w).priority = s.priority
         /\ Bar(ClearPending(s, w)) =
              [x \in PendingSet(s) \ {w} |-> EntryEvents(s, x)]
<1> DEFINE p == s.priority[w]
           i == s.pending[w]
           t == ClearPending(s, w)
<1>1. /\ p \in Pri /\ i \in Nat
      /\ s.priority \in [Watchers -> Pri]
      /\ s.pending \in [Watchers -> Nat]
      /\ s.pendings \in [Pri -> Seq(Entry)]
      /\ s.pendings[p] \in Seq(Entry)
  BY DEF Good, QueueState
<1>2. CASE IsPending(s, w)
  <2> DEFINE e == [s.pendings[p][i] EXCEPT !.w = pending_w]
             c == [s.pendings[p] EXCEPT ![i] = e]
  <2>1. i \in 1 .. Len(s.pendings[p]) /\ s.pendings[p][i].w = w
    BY <1>2 DEF Good, IndexToEntry
  <2>2. /\ t.priority = s.priority
        /\ t.pending = [s.pending EXCEPT ![w] = 0]
        /\ t.pendings = [s.pendings EXCEPT ![p] = c]
    BY <1>1, <1>2 DEF ClearPending, Good, QueueState
  <2>3. \A j \in 1 .. Len(s.pendings[p]) : j # i => c[j] = s.pendings[p][j]
    BY <1>1, <2>1
  <2> HIDE DEF c, t, p, i
  <2>4. PendingSet(t) = PendingSet(s) \ {w}
    BY <1>1, <2>2 DEF PendingSet, IsPending
  <2>5. ASSUME NEW x \in PendingSet(s) \ {w}
        PROVE  EntryEvents(t, x) = EntryEvents(s, x)
    <3>1. /\ x \in Watchers /\ x # w
          /\ s.priority[x] \in Pri
          /\ s.pending[x] \in 1 .. Len(s.pendings[s.priority[x]])
          /\ s.pendings[s.priority[x]][s.pending[x]].w = x
      BY <1>1 DEF Good, IndexToEntry, PendingSet
    <3>2. ~(s.priority[x] = p /\ s.pending[x] = i)
      BY <2>1, <3>1
    <3>3. CASE s.priority[x] = p
      BY <1>1, <2>2, <2>3, <3>1, <3>2, <3>3 DEF EntryEvents
    <3>4. CASE s.priority[x] # p
      BY <1>1, <2>2, <3>1, <3>4 DEF EntryEvents
    <3> QED BY <3>3, <3>4
  <2> QED BY <2>2, <2>4, <2>5 DEF Bar, t
<1>3. CASE ~IsPending(s, w)
  <2>1. PendingSet(s) \ {w} = PendingSet(s)
    BY <1>3 DEF PendingSet
  <2> QED BY <1>3, <2>1 DEF ClearPending, Bar
<1> QED BY <1>2, <1>3

\* Taking the top entry removes exactly the event set of its watcher.
LEMMA PopBar ==
  ASSUME NEW s, Good(s), NEW p \in Pri, s.pendings[p] # <<>>
  PROVE  /\ PopEntry(s, p).priority = s.priority
         /\ Bar(PopEntry(s, p)) =
              [x \in PendingSet(s) \ {TopEntry(s, p).w} |-> EntryEvents(s, x)]
<1> DEFINE n == Len(s.pendings[p])
           top == TopEntry(s, p)
           c == SubSeq(s.pendings[p], 1, n - 1)
           f == [x \in Watchers |-> IF x = top.w THEN 0 ELSE s.pending[x]]
           t == PopEntry(s, p)
<1>1. /\ s.priority \in [Watchers -> Pri]
      /\ s.pending \in [Watchers -> Nat]
      /\ s.pendings \in [Pri -> Seq(Entry)]
      /\ s.pendings[p] \in Seq(Entry)
  BY DEF Good, QueueState
<1>2. n \in Nat /\ n > 0 /\ top = s.pendings[p][n]
  BY <1>1 DEF TopEntry
<1>3. \A j \in 1 .. n - 1 : c[j] = s.pendings[p][j]
  BY <1>1, <1>2
<1>4. t = [s EXCEPT !.pendings = [s.pendings EXCEPT ![p] = c], !.pending = f]
  BY DEF PopEntry
<1> HIDE DEF t, c, top, n
<1>5. t = [priority |-> s.priority, pending |-> f,
           pendings |-> [s.pendings EXCEPT ![p] = c]]
  <2> HIDE DEF f
  <2> QED BY <1>4 DEF Good, QueueState
<1>6. PendingSet(t) = PendingSet(s) \ {top.w}
  BY <1>5 DEF PendingSet, IsPending
<1>7. ASSUME NEW x \in PendingSet(s) \ {top.w}
      PROVE  EntryEvents(t, x) = EntryEvents(s, x)
  <2>1. /\ x \in Watchers /\ x # top.w
        /\ s.priority[x] \in Pri
        /\ s.pending[x] \in 1 .. Len(s.pendings[s.priority[x]])
        /\ s.pendings[s.priority[x]][s.pending[x]].w = x
        /\ t.pending[x] = s.pending[x]
    BY <1>1, <1>5 DEF Good, IndexToEntry, PendingSet
  <2>2. CASE s.priority[x] = p
    <3>1. s.pending[x] # n
      BY <1>2, <2>1, <2>2
    <3>2. s.pending[x] \in 1 .. n - 1
      BY <1>2, <2>1, <2>2, <3>1 DEF n
    <3>3. t.priority[x] = p /\ t.pendings[p] = c
      BY <1>1, <1>5, <2>2
    <3> QED BY <1>3, <2>1, <2>2, <3>2, <3>3 DEF EntryEvents
  <2>3. CASE s.priority[x] # p
    BY <1>1, <1>5, <2>1, <2>3 DEF EntryEvents
  <2> QED BY <2>2, <2>3
<1>8. t.priority = s.priority
  BY <1>5
<1>9. Bar(t) = [x \in PendingSet(s) \ {top.w} |-> EntryEvents(s, x)]
  BY <1>6, <1>7 DEF Bar
<1> QED BY <1>8, <1>9 DEF t, top

\* The initial states are initial states of the abstract queue.
LEMMA InitRefines == Init => EQ!Init
<1> SUFFICES ASSUME Init PROVE EQ!Init
  OBVIOUS
<1> PICK priority \in [Watchers -> Pri] : q = InitQueue(priority)
  BY DEF Init
<1>1. q.priority \in [Watchers -> 0 .. NUMPRI - 1]
  BY DEF InitQueue, Pri
<1>2. pendBar = [w \in {} |-> {}]
  BY DEF pendBar, IsPending, InitQueue
<1>3. calls = <<>>
  BY DEF Init
<1> QED BY <1>1, <1>2, <1>3 DEF EQ!Init

\* Every step of the dispatcher is a step of the abstract queue or a stutter.
LEMMA StepRefines == IInv /\ IInv' /\ [Next]_vars => [EQ!Next]_(EQ!qvars)
<1> SUFFICES ASSUME IInv, IInv', [Next]_vars
             PROVE  EQ!Next \/ UNCHANGED EQ!qvars
  OBVIOUS
<1> USE PendingAssumption
<1>1. Good(q) /\ pendingpri \in Pri /\ calls \in Seq(Entry)
  BY DEF IInv, TypeOK, QueueConsistent, Good
<1>2. /\ pendBar = Bar(q) /\ pendBar' = Bar(q')
      /\ DOMAIN pendBar = PendingSet(q)
      /\ \A x \in PendingSet(q) : pendBar[x] = EntryEvents(q, x)
  BY DEF pendBar, Bar, PendingSet, EntryEvents
<1>3. ASSUME q' = q, calls' = calls
      PROVE  UNCHANGED EQ!qvars
  BY <1>3, <1>2 DEF EQ!qvars
<1>4. ASSUME NEW w \in Watchers, NEW revents \in SUBSET Flags,
             EvFeedEvent(w, revents)
      PROVE  EQ!Next
  <2>1. q' = FeedEvent(q, w, revents) /\ calls' = calls
    BY <1>4 DEF EvFeedEvent
  <2>2. /\ q'.priority = q.priority
        /\ pendBar' = FedBar(q, w, revents)
    BY <1>1, <1>2, <2>1, FeedBar
  <2>3. pendBar' = [x \in DOMAIN pendBar \cup {w} |->
                      IF x = w THEN EQ!EventsOf(w) \cup revents ELSE pendBar[x]]
    BY <1>2, <2>2 DEF EQ!EventsOf, FedBar
  <2> QED BY <2>1, <2>2, <2>3 DEF EQ!Next, EQ!Feed
<1>5. ASSUME NEW w \in Watchers, EvClearPending(w)
      PROVE  EQ!Next
  <2>1. q' = ClearPending(q, w) /\ calls' = calls
    BY <1>5 DEF EvClearPending
  <2>2. /\ q'.priority = q.priority
        /\ pendBar' = [x \in PendingSet(q) \ {w} |-> EntryEvents(q, x)]
    BY <1>1, <1>2, <2>1, ClearBar
  <2>3. pendBar' = EQ!Without(w)
    BY <1>2, <2>2 DEF EQ!Without
  <2> QED BY <2>1, <2>2, <2>3 DEF EQ!Next, EQ!Clear
<1>6. ASSUME NEW w \in Watchers, NEW p \in Pri, EvSetPriority(w, p)
      PROVE  EQ!Next
  <2> DEFINE f == [q.priority EXCEPT ![w] = p]
  <2>1. q' = [q EXCEPT !.priority = f] /\ calls' = calls /\ ~IsPending(q, w)
    BY <1>6 DEF EvSetPriority
  <2>2. /\ q'.priority = f /\ q'.pending = q.pending /\ q'.pendings = q.pendings
    <3> HIDE DEF f
    <3> QED BY <1>1, <2>1 DEF Good, QueueState
  <2>3. PendingSet(q') = PendingSet(q) /\ w \notin PendingSet(q)
    BY <2>1, <2>2 DEF PendingSet, IsPending
  <2>4. \A x \in PendingSet(q) : EntryEvents(q', x) = EntryEvents(q, x)
    BY <1>1, <2>2, <2>3 DEF EntryEvents, Good, QueueState, PendingSet
  <2>5. pendBar' = pendBar
    BY <1>2, <2>3, <2>4 DEF Bar
  <2> QED BY <1>2, <2>1, <2>2, <2>3, <2>5 DEF EQ!Next, EQ!SetPriority, Pri
<1>7. CASE EvInvokePending
  BY <1>3, <1>7 DEF EvInvokePending
<1>8. CASE CallbackReturn
  <2>1. /\ calls # <<>> /\ calls' = SubSeq(calls, 1, Len(calls) - 1)
        /\ q' = q
    BY <1>8 DEF CallbackReturn
  <2> QED BY <1>2, <2>1 DEF EQ!Next, EQ!Return
<1>9. CASE InvokeWatcher
  <2> DEFINE top == TopEntry(q, pendingpri)
             n == Len(q.pendings[pendingpri])
             w == top.w
  <2>1. /\ q.pendings[pendingpri] # <<>> /\ w # pending_w
        /\ q' = PopEntry(q, pendingpri)
        /\ calls' = Append(calls, top)
    BY <1>9 DEF InvokeWatcher, AtEntry
  <2>2. top \in Entry
    BY <1>1, <2>1, PopGood
  <2>3. /\ q'.priority = q.priority
        /\ pendBar' = [x \in PendingSet(q) \ {w} |-> EntryEvents(q, x)]
    BY <1>1, <1>2, <2>1, PopBar
  <2>4. n \in Nat /\ n > 0 /\ top = q.pendings[pendingpri][n]
    BY <1>1, <2>1 DEF Good, QueueState, TopEntry
  <2>5. w \in Watchers /\ top = [w |-> w, events |-> top.events]
    BY <2>1, <2>2 DEF Entry
  <2>6. q.priority[w] = pendingpri /\ q.pending[w] = n
    <3> HIDE DEF top
    <3> QED BY SMTT(40), <1>1, <2>1, <2>4 DEF Good, EntryToIndex
  <2>7. w \in PendingSet(q) /\ EntryEvents(q, w) = top.events
    <3> HIDE DEF top
    <3> QED BY <2>4, <2>5, <2>6 DEF PendingSet, IsPending, EntryEvents
  <2>8. calls' = Append(calls, [w |-> w, events |-> pendBar[w]])
    <3> HIDE DEF top
    <3> QED BY <1>2, <2>1, <2>5, <2>7
  <2>9. \A x \in PendingSet(q) : q.priority[x] <= q.priority[w]
    <3> SUFFICES ASSUME NEW x \in PendingSet(q), ~(q.priority[x] <= q.priority[w])
                 PROVE  FALSE
      OBVIOUS
    <3>1. /\ q.priority[x] \in Pri
          /\ q.pending[x] \in 1 .. Len(q.pendings[q.priority[x]])
      BY <1>1 DEF PendingSet, Good, QueueState, IndexToEntry
    <3>2. q.priority[x] > pendingpri
      BY <1>1, <2>6, <3>1 DEF Pri
    <3>3. q.pendings[q.priority[x]] = <<>>
      BY <3>1, <3>2 DEF IInv, HigherDrained
    <3> QED BY <3>1, <3>3
  <2>10. pendBar' = EQ!Without(w)
    BY <1>2, <2>3 DEF EQ!Without
  <2> HIDE DEF w
  <2>11. EQ!Deliver(w)
    BY <1>2, <2>3, <2>7, <2>8, <2>9, <2>10 DEF EQ!Deliver
  <2> QED BY <2>5, <2>11 DEF EQ!Next
<1>10. CASE InvokeDummy
  <2>1. /\ q.pendings[pendingpri] # <<>>
        /\ TopEntry(q, pendingpri).w = pending_w
        /\ q' = PopEntry(q, pendingpri)
        /\ calls' = calls
    BY <1>10 DEF InvokeDummy, AtEntry
  <2>2. /\ q'.priority = q.priority
        /\ pendBar' = [x \in PendingSet(q) \ {pending_w} |-> EntryEvents(q, x)]
    BY <1>1, <1>2, <2>1, PopBar
  <2>3. PendingSet(q) \ {pending_w} = PendingSet(q)
    BY DEF PendingSet, PendingAssumption
  <2>4. pendBar' = pendBar
    BY <1>2, <2>2, <2>3 DEF Bar
  <2> QED BY <2>1, <2>2, <2>4 DEF EQ!qvars
<1>11. CASE ScanDown
  BY <1>3, <1>11 DEF ScanDown
<1>12. CASE ScanDone
  BY <1>3, <1>12 DEF ScanDone
<1>13. CASE UNCHANGED vars
  BY <1>3, <1>13 DEF vars
<1> QED BY <1>4, <1>5, <1>6, <1>7, <1>8, <1>9, <1>10, <1>11, <1>12, <1>13 DEF Next

\* The dispatcher implements the abstract event queue: events accumulate until
\* they are delivered once, in one callback, highest priority first, and a
\* cleared watcher is not called.
THEOREM Refinement == Spec => ImplementsEventQueue
<1> QED BY InitRefines, StepRefines, SpecIInv, PTL
        DEF Spec, ImplementsEventQueue, EQ!Spec

=============================================================================
