------------------------ MODULE DataStructureProofs ------------------------
(***************************************************************************)
(* Proofs about the two data structures of src/ev.c:                       *)
(*   - the pending queues of PendingOps, for every set of watchers and     *)
(*     events and every number of priorities: the operations keep the      *)
(*     queues consistent, and what they do to the entries;                 *)
(*   - the heaps of Heap, for any branching factor and any number of       *)
(*     elements: every operation leaves a heap whose indices are right and *)
(*     whose elements are what the operation says.                         *)
(*                                                                         *)
(* Loops are modelled by recursive functions, so that proofs about them    *)
(* need induction.  InductOnNat derives it, for a set, from the            *)
(* well-foundedness of the finite sets.                                    *)
(***************************************************************************)
EXTENDS PendingOps, Heap, Integers, SequenceTheorems, FiniteSetTheorems, TLAPS

-----------------------------------------------------------------------------
\* The pending queues

\* The queues are well typed and consistent: what the operators preserve.
Good(s) == s \in QueueState /\ IndexToEntry(s) /\ EntryToIndex(s)

\* Feeding a watcher keeps the queues consistent.
LEMMA FeedGood ==
  ASSUME NEW s, Good(s), NEW w \in Watchers, NEW revents \in SUBSET Flags
  PROVE  Good(FeedEvent(s, w, revents))
<1> DEFINE p == s.priority[w]
           i == s.pending[w]
           t == FeedEvent(s, w, revents)
<1> USE PendingAssumption
<1>1. /\ p \in Pri /\ i \in Nat
      /\ s.priority \in [Watchers -> Pri]
      /\ s.pending \in [Watchers -> Nat]
      /\ s.pendings \in [Pri -> Seq(Entry)]
  BY DEF Good, QueueState
<1>2. CASE IsPending(s, w)
  <2> DEFINE e == [s.pendings[p][i] EXCEPT !.events = @ \cup revents]
             c == [s.pendings[p] EXCEPT ![i] = e]
  <2>1. i \in 1 .. Len(s.pendings[p]) /\ s.pendings[p][i].w = w
    BY <1>2 DEF Good, IndexToEntry
  <2>2. s.pendings[p] \in Seq(Entry)
    BY <1>1
  <2>3. s.pendings[p][i] \in Entry
    BY <2>1, <2>2
  <2>4. e \in Entry /\ e.w = w
    BY <2>1, <2>3 DEF Entry
  <2>5. c \in Seq(Entry) /\ Len(c) = Len(s.pendings[p])
    <3> HIDE DEF e, p, i
    <3> QED BY <2>1, <2>2, <2>4, ExceptSeq
  <2>6. \A j \in 1 .. Len(c) : c[j].w = s.pendings[p][j].w
    <3> HIDE DEF e, p, i
    <3> QED BY <2>1, <2>2, <2>4, ExceptSeq
  <2>7. /\ t = [s EXCEPT !.pendings = [@ EXCEPT ![p] = c]]
        /\ t.priority = s.priority
        /\ t.pending = s.pending
        /\ t.pendings = [s.pendings EXCEPT ![p] = c]
    BY <1>1, <1>2 DEF FeedEvent, Good, QueueState
  <2>8. t \in QueueState
    <3> HIDE DEF c, t, p, i
    <3> QED BY <1>1, <2>5, <2>7 DEF QueueState, Good
  <2>9. \A x \in Pri : /\ Len(t.pendings[x]) = Len(s.pendings[x])
                       /\ \A j \in 1 .. Len(t.pendings[x]) :
                             t.pendings[x][j].w = s.pendings[x][j].w
    <3> HIDE DEF c, t, p, i
    <3> QED BY <1>1, <2>5, <2>6, <2>7
  <2> HIDE DEF t, c, p, i
  <2>10. IndexToEntry(t)
    BY <1>1, <2>7, <2>9 DEF Good, IndexToEntry, IsPending
  <2>11. EntryToIndex(t)
    BY <2>7, <2>9 DEF Good, EntryToIndex
  <2> QED BY <2>8, <2>10, <2>11 DEF Good, t
<1>3. CASE ~IsPending(s, w)
  <2> DEFINE e == [w |-> w, events |-> revents]
             c == Append(s.pendings[p], e)
             n == Len(s.pendings[p])
  <2>1. s.pendings[p] \in Seq(Entry) /\ n \in Nat
    BY <1>1
  <2>2. e \in Entry
    BY DEF Entry
  <2>3. /\ c \in Seq(Entry) /\ Len(c) = n + 1
        /\ \A j \in 1 .. n : c[j] = s.pendings[p][j]
        /\ c[n + 1] = e
    BY SMTT(40), <2>1, <2>2
  <2>4. /\ t.priority = s.priority
        /\ t.pending = [s.pending EXCEPT ![w] = n + 1]
        /\ t.pendings = [s.pendings EXCEPT ![p] = c]
        /\ t = [priority |-> t.priority, pending |-> t.pending,
                pendings |-> t.pendings]
    BY <1>1, <1>3 DEF FeedEvent, Good, QueueState
  <2> HIDE DEF c, t, p, i, n
  <2>5. t \in QueueState
    <3>1. t.pending \in [Watchers -> Nat]
      BY <1>1, <2>1, <2>4
    <3>2. t.pendings \in [Pri -> Seq(Entry)]
      BY <1>1, <2>3, <2>4
    <3> QED BY <1>1, <2>4, <3>1, <3>2 DEF QueueState
  <2>6. IndexToEntry(t)
    <3> SUFFICES ASSUME NEW v \in Watchers, IsPending(t, v)
                 PROVE  /\ t.pending[v] \in 1 .. Len(t.pendings[t.priority[v]])
                        /\ t.pendings[t.priority[v]][t.pending[v]].w = v
      BY DEF IndexToEntry
    <3>1. CASE v = w
      BY <3>1, <1>1, <2>1, <2>3, <2>4 DEF p
    <3>2. CASE v # w
      <4>1. /\ t.pending[v] = s.pending[v]
            /\ s.pending[v] \in 1 .. Len(s.pendings[s.priority[v]])
            /\ s.pendings[s.priority[v]][s.pending[v]].w = v
        BY <3>2, <1>1, <2>4 DEF Good, IndexToEntry, IsPending
      <4>2. s.priority[v] \in Pri
        BY <1>1
      <4>3. CASE s.priority[v] = p
        BY SMTT(40), <4>1, <4>2, <4>3, <1>1, <2>1, <2>3, <2>4 DEF n
      <4>4. CASE s.priority[v] # p
        BY <4>1, <4>2, <4>4, <1>1, <2>4
      <4> QED BY <4>3, <4>4
    <3> QED BY <3>1, <3>2
  <2>7. EntryToIndex(t)
    <3> SUFFICES ASSUME NEW x \in Pri, NEW j \in 1 .. Len(t.pendings[x]),
                        t.pendings[x][j].w # pending_w
                 PROVE  /\ t.priority[t.pendings[x][j].w] = x
                        /\ t.pending[t.pendings[x][j].w] = j
      BY DEF EntryToIndex
    <3>1. CASE x = p /\ j = n + 1
      BY <3>1, <1>1, <2>1, <2>3, <2>4 DEF p
    <3>2. CASE ~(x = p /\ j = n + 1)
      <4>1. j \in 1 .. Len(s.pendings[x]) /\ t.pendings[x][j] = s.pendings[x][j]
        BY <3>2, <1>1, <2>1, <2>3, <2>4 DEF n
      <4>2. /\ s.priority[s.pendings[x][j].w] = x
            /\ s.pending[s.pendings[x][j].w] = j
        BY <4>1 DEF Good, EntryToIndex
      <4>3. s.pendings[x][j].w # w
        BY <4>1, <4>2, <1>3 DEF IsPending
      <4> QED BY <4>1, <4>2, <4>3, <1>1, <2>4
    <3> QED BY <3>1, <3>2
  <2> QED BY <2>5, <2>6, <2>7 DEF Good, t
<1> QED BY <1>2, <1>3

\* Clearing a pending watcher keeps the queues consistent.
LEMMA ClearGood ==
  ASSUME NEW s, Good(s), NEW w \in Watchers
  PROVE  Good(ClearPending(s, w))
<1> DEFINE p == s.priority[w]
           i == s.pending[w]
           t == ClearPending(s, w)
<1> USE PendingAssumption
<1>1. /\ p \in Pri /\ i \in Nat
      /\ s.priority \in [Watchers -> Pri]
      /\ s.pending \in [Watchers -> Nat]
      /\ s.pendings \in [Pri -> Seq(Entry)]
  BY DEF Good, QueueState
<1>2. CASE IsPending(s, w)
  <2> DEFINE e == [s.pendings[p][i] EXCEPT !.w = pending_w]
             c == [s.pendings[p] EXCEPT ![i] = e]
  <2>1. i \in 1 .. Len(s.pendings[p]) /\ s.pendings[p][i].w = w
    BY <1>2 DEF Good, IndexToEntry
  <2>2. s.pendings[p] \in Seq(Entry)
    BY <1>1
  <2>3. s.pendings[p][i] \in Entry
    BY <2>1, <2>2
  <2>4. e \in Entry /\ e.w = pending_w
    BY <2>1, <2>3 DEF Entry
  <2>5. /\ c \in Seq(Entry) /\ Len(c) = Len(s.pendings[p])
        /\ c[i].w = pending_w
        /\ \A j \in 1 .. Len(c) : j # i => c[j] = s.pendings[p][j]
    <3> HIDE DEF e, p, i
    <3> QED BY <2>1, <2>2, <2>4, ExceptSeq
  <2>6. /\ t = [priority |-> t.priority, pending |-> t.pending,
                pendings |-> t.pendings]
        /\ t.priority = s.priority
        /\ t.pending = [s.pending EXCEPT ![w] = 0]
        /\ t.pendings = [s.pendings EXCEPT ![p] = c]
    BY <1>1, <1>2 DEF ClearPending, Good, QueueState
  <2> HIDE DEF t, c, p, i
  <2>7. t \in QueueState
    <3>1. t.pending \in [Watchers -> Nat]
      BY <1>1, <2>6
    <3>2. t.pendings \in [Pri -> Seq(Entry)]
      BY <1>1, <2>5, <2>6
    <3> QED BY <1>1, <2>6, <3>1, <3>2 DEF QueueState
  <2>8. ASSUME NEW x \in Pri
        PROVE  /\ Len(t.pendings[x]) = Len(s.pendings[x])
               /\ \A j \in 1 .. Len(t.pendings[x]) :
                     \/ x = p /\ j = i /\ t.pendings[x][j].w = pending_w
                     \/ ~(x = p /\ j = i) /\ t.pendings[x][j] = s.pendings[x][j]
    BY <1>1, <2>5, <2>6
  <2>9. IndexToEntry(t)
    <3> SUFFICES ASSUME NEW v \in Watchers, IsPending(t, v)
                 PROVE  /\ t.pending[v] \in 1 .. Len(t.pendings[t.priority[v]])
                        /\ t.pendings[t.priority[v]][t.pending[v]].w = v
      BY DEF IndexToEntry
    <3>1. v # w /\ t.pending[v] = s.pending[v]
      BY <1>1, <2>6 DEF IsPending
    <3>2. /\ s.priority[v] \in Pri
          /\ s.pending[v] \in 1 .. Len(s.pendings[s.priority[v]])
          /\ s.pendings[s.priority[v]][s.pending[v]].w = v
      BY <1>1, <3>1 DEF Good, IndexToEntry, IsPending
    <3>3. ~(s.priority[v] = p /\ s.pending[v] = i)
      BY <2>1, <3>1, <3>2
    <3> QED BY SMTT(40), <2>6, <2>8, <3>1, <3>2, <3>3
  <2>10. EntryToIndex(t)
    <3> SUFFICES ASSUME NEW x \in Pri, NEW j \in 1 .. Len(t.pendings[x]),
                        t.pendings[x][j].w # pending_w
                 PROVE  /\ t.priority[t.pendings[x][j].w] = x
                        /\ t.pending[t.pendings[x][j].w] = j
      BY DEF EntryToIndex
    <3>1. /\ ~(x = p /\ j = i)
          /\ j \in 1 .. Len(s.pendings[x])
          /\ t.pendings[x][j] = s.pendings[x][j]
      BY <2>8
    <3>2. /\ s.priority[s.pendings[x][j].w] = x
          /\ s.pending[s.pendings[x][j].w] = j
      BY <3>1 DEF Good, EntryToIndex
    <3>3. s.pendings[x][j].w # w
      BY <3>1, <3>2 DEF p, i
    <3>4. s.pendings[x][j].w \in Watchers
      <4>1. s.pendings[x][j] \in Entry
        BY <1>1, <3>1
      <4> QED BY <3>1, <4>1 DEF Entry
    <3> QED BY <1>1, <2>6, <3>1, <3>2, <3>3, <3>4
  <2> QED BY <2>7, <2>9, <2>10 DEF Good, t
<1>3. CASE ~IsPending(s, w)
  BY <1>3 DEF ClearPending
<1> QED BY <1>2, <1>3

\* Taking the last entry of an array and resetting the index of its watcher
\* keeps the queues consistent.
LEMMA PopGood ==
  ASSUME NEW s, Good(s), NEW p \in Pri, s.pendings[p] # <<>>
  PROVE  Good(PopEntry(s, p)) /\ TopEntry(s, p) \in Entry
<1> DEFINE n == Len(s.pendings[p])
           top == TopEntry(s, p)
           c == SubSeq(s.pendings[p], 1, n - 1)
           t == PopEntry(s, p)
<1> USE PendingAssumption
<1>1. /\ s.priority \in [Watchers -> Pri]
      /\ s.pending \in [Watchers -> Nat]
      /\ s.pendings \in [Pri -> Seq(Entry)]
      /\ s.pendings[p] \in Seq(Entry)
  BY DEF Good, QueueState
<1>2. n \in Nat /\ n > 0
  BY <1>1
<1>3. top = s.pendings[p][n] /\ top \in Entry
  BY <1>1, <1>2 DEF TopEntry
<1>4. /\ c \in Seq(Entry) /\ Len(c) = n - 1
      /\ \A j \in 1 .. n - 1 : c[j] = s.pendings[p][j]
  BY <1>1, <1>2
<1>5. /\ t = [priority |-> t.priority, pending |-> t.pending,
              pendings |-> t.pendings]
      /\ t.priority = s.priority
      /\ t.pending = [x \in Watchers |-> IF x = top.w THEN 0 ELSE s.pending[x]]
      /\ t.pendings = [s.pendings EXCEPT ![p] = c]
  <2> DEFINE f == [x \in Watchers |-> IF x = top.w THEN 0 ELSE s.pending[x]]
  <2>1. t = [s EXCEPT !.pendings = [s.pendings EXCEPT ![p] = c], !.pending = f]
    BY DEF PopEntry
  <2> HIDE DEF f, c, t
  <2>2. /\ t = [priority |-> s.priority, pending |-> f,
                pendings |-> [s.pendings EXCEPT ![p] = c]]
    BY <2>1 DEF Good, QueueState
  <2> QED BY <2>2 DEF f
<1> HIDE DEF t, c, top, n
<1>6. t \in QueueState
  <2>1. t.pending \in [Watchers -> Nat]
    BY <1>1, <1>5
  <2>2. t.pendings \in [Pri -> Seq(Entry)]
    BY <1>1, <1>4, <1>5
  <2> QED BY <1>1, <1>5, <2>1, <2>2 DEF QueueState
<1>7. ASSUME NEW x \in Pri, NEW j \in 1 .. Len(t.pendings[x])
      PROVE  /\ j \in 1 .. Len(s.pendings[x])
             /\ t.pendings[x][j] = s.pendings[x][j]
             /\ x = p => j # n
  BY <1>1, <1>2, <1>4, <1>5 DEF n
<1>8. IndexToEntry(t)
  <2> SUFFICES ASSUME NEW v \in Watchers, IsPending(t, v)
               PROVE  /\ t.pending[v] \in 1 .. Len(t.pendings[t.priority[v]])
                      /\ t.pendings[t.priority[v]][t.pending[v]].w = v
    BY DEF IndexToEntry
  <2>1. v # top.w /\ t.pending[v] = s.pending[v]
    BY <1>5 DEF IsPending
  <2>2. /\ s.priority[v] \in Pri
        /\ s.pending[v] \in 1 .. Len(s.pendings[s.priority[v]])
        /\ s.pendings[s.priority[v]][s.pending[v]].w = v
    BY <1>1, <2>1 DEF Good, IndexToEntry, IsPending
  <2>3. CASE s.priority[v] = p
    <3>1. s.pending[v] # n
      BY <1>3, <2>1, <2>2, <2>3
    <3>2. s.pending[v] \in 1 .. n - 1
      BY <1>2, <2>2, <2>3, <3>1 DEF n
    <3>3. t.priority[v] = p /\ t.pendings[p] = c
      BY <1>1, <1>5, <2>3
    <3> QED BY <1>4, <2>1, <2>2, <2>3, <3>2, <3>3
  <2>4. CASE s.priority[v] # p
    BY SMTT(40), <1>1, <1>5, <2>1, <2>2, <2>4
  <2> QED BY <2>3, <2>4
<1>9. EntryToIndex(t)
  <2> SUFFICES ASSUME NEW x \in Pri, NEW j \in 1 .. Len(t.pendings[x]),
                      t.pendings[x][j].w # pending_w
               PROVE  /\ t.priority[t.pendings[x][j].w] = x
                      /\ t.pending[t.pendings[x][j].w] = j
    BY DEF EntryToIndex
  <2>1. /\ j \in 1 .. Len(s.pendings[x])
        /\ t.pendings[x][j] = s.pendings[x][j]
        /\ x = p => j # n
    BY <1>7
  <2>2. /\ s.priority[s.pendings[x][j].w] = x
        /\ s.pending[s.pendings[x][j].w] = j
    BY <2>1 DEF Good, EntryToIndex
  <2>3. s.pendings[x][j].w \in Watchers
    <3>1. s.pendings[x][j] \in Entry
      BY <1>1, <2>1
    <3> QED BY <2>1, <3>1 DEF Entry
  <2>4. s.pendings[x][j].w # top.w
    <3> SUFFICES ASSUME s.pendings[x][j].w = top.w
                 PROVE  FALSE
      OBVIOUS
    <3>1. top.w # pending_w /\ n \in 1 .. Len(s.pendings[p])
      BY <1>2, <2>1 DEF n
    <3>2. s.priority[top.w] = p /\ s.pending[top.w] = n
      BY <1>3, <3>1 DEF Good, EntryToIndex
    <3> QED BY <2>1, <2>2, <3>2
  <2> QED BY <1>5, <2>1, <2>2, <2>3, <2>4
<1> QED BY <1>3, <1>6, <1>8, <1>9 DEF Good, t, top

\* Changing the priority of a watcher that is not pending keeps them, too.
LEMMA SetPriorityGood ==
  ASSUME NEW s, Good(s), NEW w \in Watchers, ~IsPending(s, w), NEW p \in Pri
  PROVE  Good([s EXCEPT !.priority[w] = p])
<1> DEFINE t == [s EXCEPT !.priority[w] = p]
<1> USE PendingAssumption
<1>1. /\ s.priority \in [Watchers -> Pri]
      /\ s.pending \in [Watchers -> Nat]
      /\ s.pendings \in [Pri -> Seq(Entry)]
  BY DEF Good, QueueState
<1>2. /\ t = [priority |-> t.priority, pending |-> t.pending,
              pendings |-> t.pendings]
      /\ t.priority = [s.priority EXCEPT ![w] = p]
      /\ t.pending = s.pending
      /\ t.pendings = s.pendings
  <2> DEFINE f == [s.priority EXCEPT ![w] = p]
  <2>1. t = [s EXCEPT !.priority = f]
    OBVIOUS
  <2> HIDE DEF f, t
  <2>2. t = [priority |-> f, pending |-> s.pending, pendings |-> s.pendings]
    BY <2>1 DEF Good, QueueState
  <2> QED BY <2>2 DEF f
<1> HIDE DEF t
<1>3. t \in QueueState
  <2>1. t.priority \in [Watchers -> Pri]
    BY <1>1, <1>2
  <2> QED BY <1>1, <1>2, <2>1 DEF QueueState
<1>4. IndexToEntry(t)
  BY <1>1, <1>2 DEF Good, IndexToEntry, IsPending
<1>5. EntryToIndex(t)
  <2> SUFFICES ASSUME NEW x \in Pri, NEW j \in 1 .. Len(t.pendings[x]),
                      t.pendings[x][j].w # pending_w
               PROVE  /\ t.priority[t.pendings[x][j].w] = x
                      /\ t.pending[t.pendings[x][j].w] = j
    BY DEF EntryToIndex
  <2>1. /\ j \in 1 .. Len(s.pendings[x])
        /\ s.priority[s.pendings[x][j].w] = x
        /\ s.pending[s.pendings[x][j].w] = j
    BY <1>2 DEF Good, EntryToIndex
  <2>2. s.pendings[x][j].w # w
    BY <2>1 DEF IsPending
  <2>3. s.pendings[x][j].w \in Watchers
    <3>1. s.pendings[x][j] \in Entry
      BY <1>1, <2>1
    <3> QED BY <1>2, <3>1 DEF Entry
  <2> QED BY <1>1, <1>2, <2>1, <2>2, <2>3
<1> QED BY <1>3, <1>4, <1>5 DEF Good, t

-----------------------------------------------------------------------------
\* What the operations do to the entries

\* A watcher that is not pending gets the last entry of its priority.
LEMMA FeedNew ==
  ASSUME NEW s, Good(s), NEW w \in Watchers, NEW revents \in SUBSET Flags,
         ~IsPending(s, w), NEW t, t = FeedEvent(s, w, revents)
  PROVE  /\ t.priority = s.priority
         /\ \A v \in Watchers : IsPending(t, v) <=> IsPending(s, v) \/ v = w
         /\ \A x \in Pri : x # s.priority[w] => t.pendings[x] = s.pendings[x]
         /\ \A p \in Pri : p = s.priority[w] =>
              /\ Len(t.pendings[p]) = Len(s.pendings[p]) + 1
              /\ \A j \in 1 .. Len(s.pendings[p]) : t.pendings[p][j] = s.pendings[p][j]
              /\ t.pendings[p][Len(t.pendings[p])] = [w |-> w, events |-> revents]
<1> DEFINE p == s.priority[w]
           e == [w |-> w, events |-> revents]
           c == Append(s.pendings[p], e)
           n == Len(s.pendings[p])
<1>1. /\ p \in Pri
      /\ s.priority \in [Watchers -> Pri]
      /\ s.pending \in [Watchers -> Nat]
      /\ s.pendings \in [Pri -> Seq(Entry)]
  BY DEF Good, QueueState
<1>2. s.pendings[p] \in Seq(Entry) /\ n \in Nat
  BY <1>1
<1>3. e \in Entry
  BY DEF Entry
<1>4. /\ c \in Seq(Entry) /\ Len(c) = n + 1
      /\ \A j \in 1 .. n : c[j] = s.pendings[p][j]
      /\ c[n + 1] = e
  BY SMTT(40), <1>2, <1>3
<1>5. /\ t.priority = s.priority
      /\ t.pending = [s.pending EXCEPT ![w] = n + 1]
      /\ t.pendings = [s.pendings EXCEPT ![p] = c]
  BY <1>1 DEF FeedEvent, Good, QueueState
<1> HIDE DEF c, e, n
<1>6. \A v \in Watchers : IsPending(t, v) <=> IsPending(s, v) \/ v = w
  BY <1>1, <1>2, <1>5 DEF IsPending
<1>7. \A x \in Pri : x # p => t.pendings[x] = s.pendings[x]
  BY <1>1, <1>5
<1>8. t.pendings[p] = c
  BY <1>1, <1>5
<1> QED BY <1>4, <1>5, <1>6, <1>7, <1>8 DEF e, n

\* The entry of a watcher that is pending gets the events, too.
LEMMA FeedAgain ==
  ASSUME NEW s, Good(s), NEW w \in Watchers, NEW revents \in SUBSET Flags,
         IsPending(s, w), NEW t, t = FeedEvent(s, w, revents)
  PROVE  /\ t.priority = s.priority
         /\ \A v \in Watchers : IsPending(t, v) <=> IsPending(s, v)
         /\ \A x \in Pri :
              /\ Len(t.pendings[x]) = Len(s.pendings[x])
              /\ \A j \in 1 .. Len(s.pendings[x]) :
                   /\ t.pendings[x][j].w = s.pendings[x][j].w
                   /\ t.pendings[x][j].events \subseteq s.pendings[x][j].events \cup revents
<1> DEFINE p == s.priority[w]
           i == s.pending[w]
           e == [s.pendings[p][i] EXCEPT !.events = @ \cup revents]
           c == [s.pendings[p] EXCEPT ![i] = e]
<1>1. /\ p \in Pri /\ i \in Nat
      /\ s.priority \in [Watchers -> Pri]
      /\ s.pending \in [Watchers -> Nat]
      /\ s.pendings \in [Pri -> Seq(Entry)]
  BY DEF Good, QueueState
<1>2. i \in 1 .. Len(s.pendings[p])
  BY DEF Good, IndexToEntry
<1>3. s.pendings[p] \in Seq(Entry)
  BY <1>1
<1>4. s.pendings[p][i] \in Entry
  BY <1>2, <1>3
<1>5. e.w = s.pendings[p][i].w /\ e.events = s.pendings[p][i].events \cup revents
  BY <1>4 DEF Entry
<1>6. /\ t.priority = s.priority
      /\ t.pending = s.pending
      /\ t.pendings = [s.pendings EXCEPT ![p] = c]
  BY <1>1 DEF FeedEvent, Good, QueueState
<1> HIDE DEF e, p, i
<1>7. /\ Len(c) = Len(s.pendings[p]) /\ c[i] = e
      /\ \A j \in 1 .. Len(s.pendings[p]) : j # i => c[j] = s.pendings[p][j]
  BY <1>2, <1>3
<1> HIDE DEF c
<1>8. \A j \in 1 .. Len(s.pendings[p]) :
        /\ c[j].w = s.pendings[p][j].w
        /\ c[j].events \subseteq s.pendings[p][j].events \cup revents
  <2> SUFFICES ASSUME NEW j \in 1 .. Len(s.pendings[p])
               PROVE  /\ c[j].w = s.pendings[p][j].w
                      /\ c[j].events \subseteq s.pendings[p][j].events \cup revents
    OBVIOUS
  <2>1. CASE j = i
    BY <1>5, <1>7, <2>1
  <2>2. CASE j # i
    BY <1>7, <2>2
  <2> QED BY <2>1, <2>2
<1>9. \A x \in Pri : x # p => t.pendings[x] = s.pendings[x]
  BY <1>1, <1>6
<1>10. t.pendings[p] = c
  BY <1>1, <1>6
<1>11. ASSUME NEW x \in Pri
       PROVE  /\ Len(t.pendings[x]) = Len(s.pendings[x])
              /\ \A j \in 1 .. Len(s.pendings[x]) :
                   /\ t.pendings[x][j].w = s.pendings[x][j].w
                   /\ t.pendings[x][j].events \subseteq s.pendings[x][j].events \cup revents
  <2>1. CASE x = p
    BY <1>7, <1>8, <1>10, <2>1
  <2>2. CASE x # p
    BY <1>9, <2>2
  <2> QED BY <2>1, <2>2
<1>12. \A v \in Watchers : IsPending(t, v) <=> IsPending(s, v)
  BY <1>6 DEF IsPending
<1> QED BY <1>6, <1>11, <1>12

\* The entry of a cleared watcher is the dummy's, the others are unchanged.
LEMMA ClearEffect ==
  ASSUME NEW s, Good(s), NEW w \in Watchers, NEW t, t = ClearPending(s, w)
  PROVE  /\ t.priority = s.priority
         /\ \A v \in Watchers : IsPending(t, v) <=> IsPending(s, v) /\ v # w
         /\ \A x \in Pri :
              /\ Len(t.pendings[x]) = Len(s.pendings[x])
              /\ \A j \in 1 .. Len(s.pendings[x]) :
                   \/ t.pendings[x][j].w = pending_w
                   \/ t.pendings[x][j] = s.pendings[x][j] /\ s.pendings[x][j].w # w
<1>1. CASE IsPending(s, w)
  <2> DEFINE p == s.priority[w]
             i == s.pending[w]
             e == [s.pendings[p][i] EXCEPT !.w = pending_w]
             c == [s.pendings[p] EXCEPT ![i] = e]
  <2>1. /\ p \in Pri /\ i \in Nat
        /\ s.priority \in [Watchers -> Pri]
        /\ s.pending \in [Watchers -> Nat]
        /\ s.pendings \in [Pri -> Seq(Entry)]
    BY DEF Good, QueueState
  <2>2. i \in 1 .. Len(s.pendings[p])
    BY <1>1 DEF Good, IndexToEntry
  <2>3. s.pendings[p] \in Seq(Entry)
    BY <2>1
  <2>4. s.pendings[p][i] \in Entry
    BY <2>2, <2>3
  <2>5. e.w = pending_w
    BY <2>4 DEF Entry
  <2>6. /\ t.priority = s.priority
        /\ t.pending = [s.pending EXCEPT ![w] = 0]
        /\ t.pendings = [s.pendings EXCEPT ![p] = c]
    BY <1>1, <2>1 DEF ClearPending, Good, QueueState
  <2> HIDE DEF e, p, i
  <2>7. /\ Len(c) = Len(s.pendings[p]) /\ c[i] = e
        /\ \A j \in 1 .. Len(s.pendings[p]) : j # i => c[j] = s.pendings[p][j]
    BY <2>2, <2>3
  <2> HIDE DEF c
  <2>8. \A x \in Pri : x # p => t.pendings[x] = s.pendings[x]
    BY <2>1, <2>6
  <2>9. t.pendings[p] = c
    BY <2>1, <2>6
  <2>10. ASSUME NEW x \in Pri, NEW j \in 1 .. Len(s.pendings[x]), ~(x = p /\ j = i)
         PROVE  s.pendings[x][j].w # w
    <3> SUFFICES ASSUME s.pendings[x][j].w = w PROVE FALSE
      OBVIOUS
    <3>1. w # pending_w
      BY PendingAssumption
    <3>2. s.priority[w] = x /\ s.pending[w] = j
      BY <3>1 DEF Good, EntryToIndex
    <3> QED BY <2>10, <3>2 DEF p, i
  <2>11. ASSUME NEW x \in Pri
         PROVE  /\ Len(t.pendings[x]) = Len(s.pendings[x])
                /\ \A j \in 1 .. Len(s.pendings[x]) :
                     \/ t.pendings[x][j].w = pending_w
                     \/ t.pendings[x][j] = s.pendings[x][j] /\ s.pendings[x][j].w # w
    <3>1. CASE x = p
      BY <2>5, <2>7, <2>9, <2>10, <3>1
    <3>2. CASE x # p
      BY <2>8, <2>10, <3>2
    <3> QED BY <3>1, <3>2
  <2>12. \A v \in Watchers : IsPending(t, v) <=> IsPending(s, v) /\ v # w
    BY <2>1, <2>6 DEF IsPending
  <2> QED BY <2>6, <2>11, <2>12
<1>2. CASE ~IsPending(s, w)
  <2>1. t = s
    BY <1>2 DEF ClearPending
  <2>2. ASSUME NEW x \in Pri, NEW j \in 1 .. Len(s.pendings[x]), s.pendings[x][j].w = w
        PROVE  FALSE
    <3>1. w # pending_w
      BY PendingAssumption
    <3>2. s.pending[w] = j
      BY <2>2, <3>1 DEF Good, EntryToIndex
    <3> QED BY <1>2, <3>2 DEF IsPending
  <2> QED BY <1>2, <2>1, <2>2
<1> QED BY <1>1, <1>2

\* The last entry is gone, and no other one is its watcher's.
LEMMA PopEffect ==
  ASSUME NEW s, Good(s), NEW p \in Pri, s.pendings[p] # <<>>,
         NEW t, t = PopEntry(s, p)
  PROVE  /\ t.priority = s.priority
         /\ \A v \in Watchers : IsPending(t, v) <=> IsPending(s, v) /\ v # TopEntry(s, p).w
         /\ \A x \in Pri : \A j \in 1 .. Len(t.pendings[x]) :
              /\ j \in 1 .. Len(s.pendings[x])
              /\ t.pendings[x][j] = s.pendings[x][j]
              /\ s.pendings[x][j].w # pending_w => s.pendings[x][j].w # TopEntry(s, p).w
<1> DEFINE n == Len(s.pendings[p])
           top == TopEntry(s, p)
           c == SubSeq(s.pendings[p], 1, n - 1)
           f == [x \in Watchers |-> IF x = top.w THEN 0 ELSE s.pending[x]]
<1>1. /\ s.priority \in [Watchers -> Pri]
      /\ s.pending \in [Watchers -> Nat]
      /\ s.pendings \in [Pri -> Seq(Entry)]
      /\ s.pendings[p] \in Seq(Entry)
  BY DEF Good, QueueState
<1>2. n \in Nat /\ n > 0 /\ top = s.pendings[p][n]
  BY <1>1 DEF TopEntry
<1>3. /\ Len(c) = n - 1
      /\ \A j \in 1 .. n - 1 : c[j] = s.pendings[p][j]
  BY <1>1, <1>2
<1>4. /\ t.priority = s.priority
      /\ t.pending = f
      /\ t.pendings = [s.pendings EXCEPT ![p] = c]
  <2>1. t = [s EXCEPT !.pendings = [s.pendings EXCEPT ![p] = c], !.pending = f]
    BY DEF PopEntry
  <2> HIDE DEF f, c
  <2>2. t = [priority |-> s.priority, pending |-> f,
             pendings |-> [s.pendings EXCEPT ![p] = c]]
    BY <2>1 DEF Good, QueueState
  <2> QED BY <2>2
<1>5. \A v \in Watchers : IsPending(t, v) <=> IsPending(s, v) /\ v # top.w
  BY <1>4 DEF IsPending
<1> HIDE DEF c, f, n, top
<1>6. ASSUME NEW x \in Pri, NEW j \in 1 .. Len(t.pendings[x])
      PROVE  /\ j \in 1 .. Len(s.pendings[x])
             /\ t.pendings[x][j] = s.pendings[x][j]
             /\ ~(x = p /\ j = n)
  <2>1. CASE x = p
    <3>1. t.pendings[x] = c
      BY <1>1, <1>4, <2>1
    <3> QED BY <1>2, <1>3, <2>1, <3>1 DEF n
  <2>2. CASE x # p
    BY <1>1, <1>4, <2>2
  <2> QED BY <2>1, <2>2
<1>7. ASSUME NEW x \in Pri, NEW j \in 1 .. Len(s.pendings[x]), ~(x = p /\ j = n),
             s.pendings[x][j].w # pending_w
      PROVE  s.pendings[x][j].w # top.w
  <2> SUFFICES ASSUME s.pendings[x][j].w = top.w PROVE FALSE
    OBVIOUS
  <2>1. n \in 1 .. Len(s.pendings[p])
    BY <1>2 DEF n
  <2>2. s.priority[top.w] = p /\ s.pending[top.w] = n
    BY <1>2, <1>7, <2>1 DEF Good, EntryToIndex
  <2>3. s.priority[top.w] = x /\ s.pending[top.w] = j
    BY <1>7 DEF Good, EntryToIndex
  <2> QED BY <1>7, <2>2, <2>3
<1> QED BY <1>4, <1>5, <1>6, <1>7 DEF top

-----------------------------------------------------------------------------
\* Induction and recursion

LEMMA InductOnNat ==
  ASSUME NEW X, 0 \in X, \A n \in Nat : n \in X => n + 1 \in X
  PROVE  \A n \in Nat : n \in X
<1> SUFFICES ASSUME NEW m \in Nat, m \notin X
             PROVE  FALSE
  OBVIOUS
<1> DEFINE R == StrictSubsetOrdering(Nat)
           S == FiniteSubsetsOf(Nat)
           T == {s \in S : \E n \in Nat : s = 0 .. n - 1 /\ n \notin X}
<1>1. \A n \in Nat : 0 .. n - 1 \in S
  <2>1. ASSUME NEW n \in Nat PROVE IsFiniteSet(0 .. n - 1) /\ 0 .. n - 1 \subseteq Nat
    BY FS_Interval
  <2> QED BY <2>1 DEF FiniteSubsetsOf
<1>2. T \subseteq S /\ T # {}
  BY <1>1
<1>3. PICK t \in T : \A y \in T : ~ (<<y, t>> \in R)
  <2>1. IsWellFoundedOn(R, S)
    BY FS_StrictSubsetOrderingWellFounded
  <2> HIDE DEF T, S, R
  <2> QED BY <1>2, <2>1, WFMin
<1>4. PICK x \in Nat : t = 0 .. x - 1 /\ x \notin X
  OBVIOUS
<1>5. x # 0 /\ x - 1 \in Nat
  BY <1>4
<1>6. x - 1 \notin X
  <2>1. (x - 1) + 1 = x
    BY <1>5
  <2> QED BY <1>4, <1>5, <2>1
<1> DEFINE y == 0 .. (x - 1) - 1
<1>7. y \in T
  BY <1>1, <1>5, <1>6
<1>8. y \subseteq t /\ y # t
  BY <1>4, <1>5
<1>9. <<y, t>> \in R
  <2>1. y \in S /\ t \in S
    BY <1>1, <1>5
  <2> HIDE DEF y, S, T
  <2> QED BY <1>8, <2>1 DEF StrictSubsetOrdering, FiniteSubsetsOf, S
<1> QED BY <1>3, <1>7, <1>9

-----------------------------------------------------------------------------
\* Loops over the queues

\* ev_invoke_pending finds the highest priority with an entry.
LEMMA NextPriHasEntry ==
  ASSUME NEW s, HasPending(s)
  PROVE  /\ NextPri(s) \in Pri /\ s.pendings[NextPri(s)] # <<>>
         /\ \A o \in Pri : o > NextPri(s) => s.pendings[o] = <<>>
<1> DEFINE Found(p) == p \in Pri /\ s.pendings[p] # <<>>
           X == {n \in Nat : (\E p \in Nat : p + n >= NUMPRI /\ Found(p)) =>
                   \E p \in Pri : Found(p) /\ \A o \in Pri : o > p => ~Found(o)}
<1> USE PendingAssumption
<1>1. 0 \in X
  BY DEF Pri
<1>2. ASSUME NEW n \in Nat, n \in X PROVE n + 1 \in X
  <2> SUFFICES ASSUME NEW p \in Nat, p + (n + 1) >= NUMPRI, Found(p)
               PROVE  \E r \in Pri : Found(r) /\ \A o \in Pri : o > r => ~Found(o)
    OBVIOUS
  <2>1. CASE \E o \in Pri : o > p /\ Found(o)
    <3>1. PICK o \in Pri : o > p /\ Found(o)
      BY <2>1
    <3>2. o \in Nat /\ o + n >= NUMPRI
      BY <3>1 DEF Pri
    <3> HIDE DEF Found
    <3> QED BY <1>2, <3>1, <3>2
  <2>2. CASE \A o \in Pri : o > p => ~Found(o)
    BY <2>2
  <2> QED BY <2>1, <2>2
<1>3. \A n \in Nat : n \in X
  <2> HIDE DEF X
  <2> QED BY <1>1, <1>2, InductOnNat
<1>4. PICK p \in Pri : s.pendings[p] # <<>>
  BY DEF HasPending
<1>5. \E r \in Pri : Found(r) /\ \A o \in Pri : o > r => ~Found(o)
  <2>1. p \in Nat /\ p + NUMPRI >= NUMPRI /\ NUMPRI \in X
    <3> HIDE DEF X
    <3> QED BY <1>3 DEF Pri
  <2>2. Found(p)
    BY <1>4
  <2> HIDE DEF Found
  <2> QED BY <2>1, <2>2
<1> QED BY <1>5 DEF NextPri

\* With all queues empty no watcher is pending.
LEMMA NothingPending ==
  ASSUME NEW s, Good(s), ~HasPending(s)
  PROVE  \A w \in Watchers : ~IsPending(s, w)
<1> SUFFICES ASSUME NEW w \in Watchers, IsPending(s, w) PROVE FALSE
  OBVIOUS
<1>1. s.priority[w] \in Pri /\ s.pending[w] \in 1 .. Len(s.pendings[s.priority[w]])
  BY DEF Good, QueueState, IndexToEntry
<1>2. s.pendings[s.priority[w]] = <<>>
  BY <1>1 DEF HasPending
<1> QED BY <1>1, <1>2

\* queue_events feeds one watcher after the other.
LEMMA QueueEventsChain ==
  ASSUME NEW s, NEW ws, Len(ws) \in Nat, NEW revents
  PROVE  \E f : /\ QueueEvents(s, ws, revents) = f[Len(ws)]
                /\ f[0] = s
                /\ \A n \in 1 .. Len(ws) : f[n] = FeedEvent(f[n - 1], ws[n], revents)
<1> DEFINE N == Len(ws)
           Step(g, n) == IF n = 0 THEN s ELSE FeedEvent(g[n - 1], ws[n], revents)
           X == {m \in Nat : \E g : g = [n \in 0 .. m |-> Step(g, n)]}
<1>1. N \in Nat
  OBVIOUS
<1>2. 0 \in X
  <2> DEFINE g == [n \in 0 .. 0 |-> s]
  <2>1. g = [n \in 0 .. 0 |-> Step(g, n)]
    OBVIOUS
  <2> QED BY <2>1
<1>3. ASSUME NEW m \in Nat, m \in X PROVE m + 1 \in X
  <2>1. PICK g : g = [n \in 0 .. m |-> Step(g, n)]
    BY <1>3
  <2> DEFINE h == [n \in 0 .. m + 1 |-> Step(g, n)]
  <2>2. ASSUME NEW n \in 0 .. m + 1 PROVE Step(h, n) = Step(g, n)
    <3>1. CASE n = 0
      BY <3>1
    <3>2. CASE n # 0
      <4>1. n - 1 \in 0 .. m /\ n - 1 \in 0 .. m + 1
        BY <3>2
      <4>2. h[n - 1] = g[n - 1]
        BY <2>1, <4>1
      <4> HIDE DEF h
      <4> QED BY <3>2, <4>2
    <3> QED BY <3>1, <3>2
  <2>3. h = [n \in 0 .. m + 1 |-> Step(h, n)]
    <3>1. \A n \in 0 .. m + 1 : Step(h, n) = Step(g, n)
      BY <2>2
    <3>2. h = [n \in 0 .. m + 1 |-> Step(g, n)]
      OBVIOUS
    <3> HIDE DEF h, Step
    <3> QED BY <3>1, <3>2
  <2>4. \E f : f = [n \in 0 .. m + 1 |-> Step(f, n)]
    <3> HIDE DEF h
    <3> WITNESS h
    <3> QED BY <2>3
  <2> HIDE DEF Step
  <2> QED BY <2>4
<1>4. N \in X
  <2>1. \A m \in Nat : m \in X
    <3> HIDE DEF X
    <3> QED BY <1>2, <1>3, InductOnNat
  <2> HIDE DEF X
  <2> QED BY <1>1, <2>1
<1> DEFINE feed == CHOOSE g : g = [n \in 0 .. N |-> Step(g, n)]
<1>5. feed = [n \in 0 .. N |-> Step(feed, n)]
  BY <1>4
<1>6. QueueEvents(s, ws, revents) = feed[N]
  BY DEF QueueEvents
<1> HIDE DEF feed, X
<1>7. feed[0] = s /\ \A n \in 1 .. N : feed[n] = FeedEvent(feed[n - 1], ws[n], revents)
  <2> HIDE DEF Step
  <2>1. \A n \in 0 .. N : feed[n] = Step(feed, n)
    BY <1>5
  <2>2. 0 \in 0 .. N /\ \A n \in 1 .. N : n \in 0 .. N /\ n # 0
    BY <1>1
  <2> QED BY <2>1, <2>2 DEF Step
<1> QED BY <1>6, <1>7

\* What happens to the entries of the watchers

\* The events a watcher is queued with
EventsAt(s, v) ==
  IF IsPending(s, v) THEN s.pendings[s.priority[v]][s.pending[v]].events ELSE {}

\* t is s with the watchers of S fed revents: what was pending is where it was,
\* what was not comes after it.
FedTo(s, t, S, revents, v) ==
  /\ IsPending(s, v) => t.pending[v] = s.pending[v]
  /\ v \in S => IsPending(t, v) /\ EventsAt(t, v) = EventsAt(s, v) \cup revents
  /\ v \notin S => t.pending[v] = s.pending[v] /\ EventsAt(t, v) = EventsAt(s, v)
  /\ v \in S /\ ~IsPending(s, v) => t.pending[v] > Len(s.pendings[s.priority[v]])

Grown(s, t, S, revents) ==
  /\ Good(t) /\ t.priority = s.priority
  /\ \A v \in Watchers : FedTo(s, t, S, revents, v)
  /\ \A p \in Pri : Len(s.pendings[p]) <= Len(t.pendings[p])

\* t is s without the entry of w.
Shrunk(s, t, w) ==
  /\ Good(t) /\ t.priority = s.priority
  /\ w \in Watchers => t.pending[w] = 0
  /\ \A v \in Watchers : v # w =>
       t.pending[v] = s.pending[v] /\ EventsAt(t, v) = EventsAt(s, v)

\* The entry of a watcher that is pending
LEMMA EntryAt ==
  ASSUME NEW s, Good(s), NEW v \in Watchers
  PROVE  /\ s.priority[v] \in Pri /\ s.pending[v] \in Nat
         /\ s.pendings[s.priority[v]] \in Seq(Entry)
         /\ Len(s.pendings[s.priority[v]]) \in Nat
         /\ IsPending(s, v) =>
              /\ s.pending[v] \in 1 .. Len(s.pendings[s.priority[v]])
              /\ s.pendings[s.priority[v]][s.pending[v]] \in Entry
              /\ s.pendings[s.priority[v]][s.pending[v]].w = v
              /\ s.pendings[s.priority[v]] # <<>>
              /\ EventsAt(s, v) = s.pendings[s.priority[v]][s.pending[v]].events
         /\ ~IsPending(s, v) => s.pending[v] = 0 /\ EventsAt(s, v) = {}
<1>1. /\ s.priority[v] \in Pri /\ s.pending[v] \in Nat
      /\ s.pendings[s.priority[v]] \in Seq(Entry)
  BY DEF Good, QueueState
<1>2. IsPending(s, v) =>
        /\ s.pending[v] \in 1 .. Len(s.pendings[s.priority[v]])
        /\ s.pendings[s.priority[v]][s.pending[v]].w = v
  BY DEF Good, IndexToEntry
<1>3. Len(s.pendings[s.priority[v]]) \in Nat
  BY <1>1
<1>4. IsPending(s, v) =>
        /\ s.pendings[s.priority[v]][s.pending[v]] \in Entry
        /\ s.pendings[s.priority[v]] # <<>>
  BY <1>1, <1>2
<1> QED BY <1>1, <1>2, <1>3, <1>4 DEF EventsAt, IsPending

\* The entry a pending watcher's index leads to is the watcher's own
OwnEntry(s, v) == s.pendings[s.priority[v]][s.pending[v]].w = v

LEMMA PendingOwnsEntry ==
  ASSUME NEW s, Good(s), NEW v \in Watchers, IsPending(s, v)
  PROVE  OwnEntry(s, v)
BY EntryAt DEF OwnEntry

LEMMA FeedGrows ==
  ASSUME NEW s, Good(s), NEW w \in Watchers, NEW revents \in SUBSET Flags,
         NEW t, t = FeedEvent(s, w, revents)
  PROVE  Grown(s, t, {w}, revents)
<1> DEFINE p == s.priority[w]
           i == s.pending[w]
<1>1. /\ p \in Pri /\ i \in Nat
      /\ s.priority \in [Watchers -> Pri]
      /\ s.pending \in [Watchers -> Nat]
      /\ s.pendings \in [Pri -> Seq(Entry)]
  BY DEF Good, QueueState
<1>2. Good(t)
  BY FeedGood
<1>3. CASE IsPending(s, w)
  <2> DEFINE e == [s.pendings[p][i] EXCEPT !.events = @ \cup revents]
             c == [s.pendings[p] EXCEPT ![i] = e]
  <2>1. i \in 1 .. Len(s.pendings[p]) /\ s.pendings[p][i] \in Entry
    BY <1>3, EntryAt
  <2>2. e.events = s.pendings[p][i].events \cup revents
    BY <2>1 DEF Entry
  <2>3. /\ t.priority = s.priority
        /\ t.pending = s.pending
        /\ t.pendings = [s.pendings EXCEPT ![p] = c]
    BY <1>1, <1>3 DEF FeedEvent, Good, QueueState
  <2> HIDE DEF e, i, p
  <2>4. /\ Len(c) = Len(s.pendings[p]) /\ c[i] = e
        /\ \A j \in 1 .. Len(s.pendings[p]) : j # i => c[j] = s.pendings[p][j]
    BY <1>1, <2>1
  <2> HIDE DEF c
  <2>5. t.pendings[p] = c /\ \A x \in Pri : x # p => t.pendings[x] = s.pendings[x]
    BY <1>1, <2>3
  <2>6. \A x \in Pri : Len(s.pendings[x]) = Len(t.pendings[x]) /\ Len(s.pendings[x]) \in Nat
    BY <1>1, <2>4, <2>5
  <2>7. ASSUME NEW v \in Watchers, v # w PROVE EventsAt(t, v) = EventsAt(s, v)
    <3>1. CASE IsPending(s, v)
      <4>1. /\ s.priority[v] \in Pri
            /\ s.pending[v] \in 1 .. Len(s.pendings[s.priority[v]])
            /\ s.pendings[s.priority[v]][s.pending[v]].w = v
        BY ZenonT(40), <3>1, EntryAt
      <4>2. s.pendings[p][i].w = w
        BY ZenonT(40), <1>3, EntryAt DEF p, i
      <4>3. t.pendings[s.priority[v]][s.pending[v]] = s.pendings[s.priority[v]][s.pending[v]]
        BY <2>4, <2>5, <2>7, <4>1, <4>2
      <4> QED BY <2>3, <3>1, <4>3 DEF EventsAt, IsPending
    <3>2. CASE ~IsPending(s, v)
      BY <2>3, <3>2 DEF EventsAt, IsPending
    <3> QED BY <3>1, <3>2
  <2>8. EventsAt(t, w) = EventsAt(s, w) \cup revents /\ IsPending(t, w)
    BY <1>3, <2>2, <2>3, <2>4, <2>5 DEF EventsAt, IsPending, p, i
  <2>9. \A v \in Watchers : FedTo(s, t, {w}, revents, v)
    BY <1>3, <2>3, <2>7, <2>8 DEF FedTo
  <2>10. \A x \in Pri : Len(s.pendings[x]) <= Len(t.pendings[x])
    BY <2>6
  <2> QED BY <1>2, <2>3, <2>9, <2>10 DEF Grown
<1>4. CASE ~IsPending(s, w)
  <2> DEFINE n == Len(s.pendings[p])
             e == [w |-> w, events |-> revents]
             c == Append(s.pendings[p], e)
  <2>0. e \in Entry
    BY DEF Entry
  <2>1. s.pendings[p] \in Seq(Entry) /\ n \in Nat /\ e \in Entry
    BY <1>1, <2>0
  <2>2. /\ Len(c) = n + 1 /\ c[n + 1] = e
        /\ \A j \in 1 .. n : c[j] = s.pendings[p][j]
    BY SMTT(40), <2>1
  <2>3. /\ t.priority = s.priority
        /\ t.pending = [s.pending EXCEPT ![w] = n + 1]
        /\ t.pendings = [s.pendings EXCEPT ![p] = c]
    BY <1>1, <1>4 DEF FeedEvent, Good, QueueState
  <2>4. e.events = revents
    OBVIOUS
  <2> HIDE DEF e, c, n, p
  <2>5. t.pendings[p] = c /\ \A x \in Pri : x # p => t.pendings[x] = s.pendings[x]
    BY <1>1, <2>3
  <2>6. \A x \in Pri : Len(s.pendings[x]) <= Len(t.pendings[x])
    <3> SUFFICES ASSUME NEW x \in Pri PROVE Len(s.pendings[x]) <= Len(t.pendings[x])
      OBVIOUS
    <3>1. Len(s.pendings[x]) \in Nat
      BY <1>1
    <3> QED BY <2>1, <2>2, <2>5, <3>1 DEF n
  <2>7. t.pending[w] = n + 1 /\ \A v \in Watchers : v # w => t.pending[v] = s.pending[v]
    BY <1>1, <2>3
  <2>8. ASSUME NEW v \in Watchers, v # w PROVE EventsAt(t, v) = EventsAt(s, v)
    <3>1. CASE IsPending(s, v)
      <4>1. /\ s.priority[v] \in Pri
            /\ s.pending[v] \in 1 .. Len(s.pendings[s.priority[v]])
        BY <3>1, EntryAt
      <4>2. t.pendings[s.priority[v]][s.pending[v]] = s.pendings[s.priority[v]][s.pending[v]]
        BY <2>2, <2>5, <4>1 DEF n
      <4> QED BY <2>3, <2>7, <2>8, <3>1, <4>2 DEF EventsAt, IsPending
    <3>2. CASE ~IsPending(s, v)
      BY <2>7, <2>8, <3>2 DEF EventsAt, IsPending
    <3> QED BY <3>1, <3>2
  <2>9. IsPending(t, w) /\ EventsAt(t, w) = revents /\ EventsAt(s, w) = {}
    BY <1>4, <2>1, <2>2, <2>3, <2>4, <2>5, <2>7 DEF EventsAt, IsPending, p
  <2>10. t.pending[w] > Len(s.pendings[s.priority[w]])
    <3>1. n = Len(s.pendings[s.priority[w]])
      BY DEF n, p
    <3>2. n \in Nat
      BY <2>1
    <3> QED BY SMTT(40), <2>7, <3>1, <3>2
  <2>11. \A v \in Watchers : FedTo(s, t, {w}, revents, v)
    BY <1>4, <2>7, <2>8, <2>9, <2>10 DEF FedTo
  <2> QED BY <1>2, <2>3, <2>6, <2>11 DEF Grown
<1> QED BY <1>3, <1>4

\* Feeding one after the other
LEMMA GrownTrans ==
  ASSUME NEW s, NEW t, NEW u, NEW S, NEW T, NEW revents, Good(s),
         Grown(s, t, S, revents), Grown(t, u, T, revents)
  PROVE  Grown(s, u, S \cup T, revents)
<1>1. Good(u) /\ u.priority = s.priority
  BY DEF Grown
<1>2. ASSUME NEW p \in Pri
      PROVE  /\ {Len(s.pendings[p]), Len(t.pendings[p]), Len(u.pendings[p])} \subseteq Nat
             /\ Len(s.pendings[p]) <= Len(t.pendings[p])
             /\ Len(t.pendings[p]) <= Len(u.pendings[p])
  <2>1. \A x \in {s, t, u} : x.pendings[p] \in Seq(Entry)
    BY DEF Grown, Good, QueueState
  <2> QED BY <2>1 DEF Grown
<1>3. ASSUME NEW v \in Watchers PROVE FedTo(s, u, S \cup T, revents, v)
  <2>1. FedTo(s, t, S, revents, v) /\ FedTo(t, u, T, revents, v)
    BY DEF Grown
  <2>2. s.priority[v] \in Pri /\ t.priority = s.priority
    BY EntryAt DEF Grown
  <2>3. s.pending[v] \in Nat /\ t.pending[v] \in Nat /\ u.pending[v] \in Nat
    BY EntryAt DEF Grown
  <2>4. IsPending(s, v) => IsPending(t, v) /\ u.pending[v] = s.pending[v]
    BY <2>1 DEF FedTo, IsPending
  <2>5. v \in S \cup T =>
          IsPending(u, v) /\ EventsAt(u, v) = EventsAt(s, v) \cup revents
    BY <2>1 DEF FedTo, IsPending
  <2>6. v \notin S \cup T => u.pending[v] = s.pending[v] /\ EventsAt(u, v) = EventsAt(s, v)
    BY <2>1 DEF FedTo
  <2>7. v \in S \cup T /\ ~IsPending(s, v) => u.pending[v] > Len(s.pendings[s.priority[v]])
    <3>1. CASE v \in S
      BY <2>1, <2>2, <3>1 DEF FedTo
    <3>2. CASE v \notin S
      <4> SUFFICES ASSUME v \in T, ~IsPending(s, v)
                   PROVE  u.pending[v] > Len(s.pendings[s.priority[v]])
        BY <3>2
      <4>1. ~IsPending(t, v)
        BY <2>1, <3>2 DEF FedTo, IsPending
      <4>2. u.pending[v] > Len(t.pendings[s.priority[v]])
        BY <2>1, <2>2, <4>1 DEF FedTo
      <4>3. /\ Len(s.pendings[s.priority[v]]) \in Nat /\ Len(t.pendings[s.priority[v]]) \in Nat
            /\ Len(s.pendings[s.priority[v]]) <= Len(t.pendings[s.priority[v]])
        BY <1>2, <2>2
      <4> QED BY SMTT(40), <2>3, <4>2, <4>3
    <3> QED BY <3>1, <3>2
  <2> QED BY <2>4, <2>5, <2>6, <2>7 DEF FedTo
<1>4. \A p \in Pri : Len(s.pendings[p]) <= Len(u.pendings[p])
  BY SMTT(40), <1>2
<1> QED BY <1>1, <1>3, <1>4 DEF Grown

LEMMA GrownSame ==
  ASSUME NEW s, Good(s), NEW revents
  PROVE  Grown(s, s, {}, revents)
<1>1. ASSUME NEW p \in Pri PROVE Len(s.pendings[p]) <= Len(s.pendings[p])
  <2>1. s.pendings[p] \in Seq(Entry)
    BY DEF Good, QueueState
  <2> QED BY <2>1
<1> QED BY <1>1 DEF Grown, FedTo

\* A loop over ws that feeds those that are in S
FeedsThose(f, s, N, ws, S, revents) ==
  /\ f[0] = s
  /\ \A n \in 1 .. N :
       /\ ws[n] \in Watchers
       /\ ws[n] \in S => f[n] = FeedEvent(f[n - 1], ws[n], revents)
       /\ ws[n] \notin S => f[n] = f[n - 1]

Those(ws, N, S) == {ws[i] : i \in 1 .. N} \cap S

LEMMA ChainGrows ==
  ASSUME NEW s, Good(s), NEW N \in Nat, NEW ws, NEW S, NEW revents \in SUBSET Flags,
         NEW f, FeedsThose(f, s, N, ws, S, revents)
  PROVE  Grown(s, f[N], Those(ws, N, S), revents)
<1> USE DEF FeedsThose, Those
<1> DEFINE Some(m) == {ws[i] : i \in 1 .. m} \cap S
           X == {m \in Nat : m <= N => Grown(s, f[m], Some(m), revents)}
<1>1. 0 \in X
  <2>1. Some(0) = {}
    OBVIOUS
  <2> HIDE DEF Some
  <2> QED BY <2>1, GrownSame
<1>2. ASSUME NEW m \in Nat, m \in X PROVE m + 1 \in X
  <2> SUFFICES ASSUME m + 1 <= N PROVE Grown(s, f[m + 1], Some(m + 1), revents)
    OBVIOUS
  <2>1. Grown(s, f[m], Some(m), revents) /\ Good(f[m])
    BY <1>2 DEF Grown
  <2>2. m + 1 \in 1 .. N /\ (m + 1) - 1 = m
    OBVIOUS
  <2>3. CASE ws[m + 1] \in S
    <3>1. Some(m + 1) = Some(m) \cup {ws[m + 1]}
      <4>1. 1 .. m + 1 = (1 .. m) \cup {m + 1}
        OBVIOUS
      <4> QED BY <2>3, <4>1
    <3>2. f[m + 1] = FeedEvent(f[m], ws[m + 1], revents) /\ ws[m + 1] \in Watchers
      BY <2>2, <2>3
    <3>3. Grown(f[m], f[m + 1], {ws[m + 1]}, revents)
      BY <2>1, <3>2, FeedGrows
    <3> HIDE DEF Some, FeedsThose, Those
    <3> QED BY <2>1, <3>1, <3>3, GrownTrans
  <2>4. CASE ws[m + 1] \notin S
    <3>1. Some(m + 1) = Some(m)
      <4>1. 1 .. m + 1 = (1 .. m) \cup {m + 1}
        OBVIOUS
      <4> QED BY <2>4, <4>1
    <3>2. f[m + 1] = f[m]
      BY <2>2, <2>4
    <3> HIDE DEF Some
    <3> QED BY <2>1, <3>1, <3>2
  <2> QED BY <2>3, <2>4
<1>3. N \in X
  <2>1. \A m \in Nat : m \in X
    <3> HIDE DEF X
    <3> QED BY <1>1, <1>2, InductOnNat
  <2> HIDE DEF X
  <2> QED BY <2>1
<1> QED BY <1>3

\* queue_events
LEMMA QueueEventsGrows ==
  ASSUME NEW s, Good(s), NEW ws \in Seq(Watchers), NEW revents \in SUBSET Flags,
         NEW t, t = QueueEvents(s, ws, revents)
  PROVE  Grown(s, t, {ws[i] : i \in 1 .. Len(ws)}, revents)
<1> DEFINE S == {ws[i] : i \in 1 .. Len(ws)}
<1>1. Len(ws) \in Nat /\ \A n \in 1 .. Len(ws) : ws[n] \in Watchers
  OBVIOUS
<1>2. PICK f : /\ t = f[Len(ws)]
               /\ f[0] = s
               /\ \A n \in 1 .. Len(ws) : f[n] = FeedEvent(f[n - 1], ws[n], revents)
  BY <1>1, QueueEventsChain
<1>3. \A n \in 1 .. Len(ws) : ws[n] \in S
  OBVIOUS
<1>4. Grown(s, f[Len(ws)], S, revents)
  <2>1. FeedsThose(f, s, Len(ws), ws, S, revents)
    BY <1>1, <1>2, <1>3 DEF FeedsThose
  <2>2. S = Those(ws, Len(ws), S)
    BY DEF Those
  <2> HIDE DEF S
  <2> QED BY <1>1, <1>2, <2>1, <2>2, ChainGrows
<1> QED BY <1>2, <1>4

\* clear_pending
LEMMA ClearShrinks ==
  ASSUME NEW s, Good(s), NEW w \in Watchers, NEW t, t = ClearPending(s, w)
  PROVE  Shrunk(s, t, w)
<1>1. Good(t)
  BY ClearGood
<1>2. /\ t.priority = s.priority
      /\ t.pending[w] = 0
      /\ \A v \in Watchers : v # w => t.pending[v] = s.pending[v]
  BY DEF ClearPending, Good, QueueState, IsPending
<1>3. ASSUME NEW v \in Watchers, v # w PROVE EventsAt(t, v) = EventsAt(s, v)
  <2>1. CASE IsPending(t, v)
    <3>1. /\ s.priority[v] \in Pri
          /\ s.pending[v] \in 1 .. Len(s.pendings[s.priority[v]])
      BY ZenonT(40), <1>2, <1>3, <2>1, EntryAt DEF IsPending
    <3>2. t.pendings[t.priority[v]][t.pending[v]].w = v /\ v # pending_w
      <4>1. t.pendings[t.priority[v]][t.pending[v]].w = v
        <5>1. Good(t) /\ v \in Watchers /\ IsPending(t, v)
          BY <1>1, <1>3, <2>1
        <5>2. OwnEntry(t, v)
          BY <5>1, PendingOwnsEntry
        <5> QED BY <5>2 DEF OwnEntry
      <4>2. v # pending_w
        BY PendingAssumption
      <4> QED BY <4>1, <4>2
    <3>3. \A x \in Pri : \A j \in 1 .. Len(s.pendings[x]) :
            t.pendings[x][j].w = pending_w \/ t.pendings[x][j] = s.pendings[x][j]
      BY ClearEffect
    <3>4. t.pendings[s.priority[v]][s.pending[v]] = s.pendings[s.priority[v]][s.pending[v]]
      BY <1>2, <1>3, <3>1, <3>2, <3>3
    <3> QED BY <1>2, <1>3, <3>4 DEF EventsAt, IsPending
  <2>2. CASE ~IsPending(t, v)
    BY <1>2, <1>3, <2>2 DEF EventsAt, IsPending
  <2> QED BY <2>1, <2>2
<1> QED BY <1>1, <1>2, <1>3 DEF Shrunk

\* ev_invoke_pending takes an entry.
LEMMA PopShrinks ==
  ASSUME NEW s, Good(s), NEW p \in Pri, s.pendings[p] # <<>>,
         NEW t, t = PopEntry(s, p)
  PROVE  /\ Shrunk(s, t, TopEntry(s, p).w)
         /\ TopEntry(s, p) \in Entry
         /\ TopEntry(s, p).w \in Watchers =>
              /\ IsPending(s, TopEntry(s, p).w)
              /\ s.priority[TopEntry(s, p).w] = p
              /\ s.pending[TopEntry(s, p).w] = Len(s.pendings[p])
              /\ EventsAt(s, TopEntry(s, p).w) = TopEntry(s, p).events
<1> DEFINE top == TopEntry(s, p)
           n == Len(s.pendings[p])
<1>1. Good(t) /\ top \in Entry
  BY PopGood
<1>2. t.priority = s.priority /\ t.pending = [x \in Watchers |-> IF x = top.w THEN 0 ELSE s.pending[x]]
  <2> DEFINE f == [x \in Watchers |-> IF x = top.w THEN 0 ELSE s.pending[x]]
             c == SubSeq(s.pendings[p], 1, n - 1)
  <2>1. t = [s EXCEPT !.pendings = [s.pendings EXCEPT ![p] = c], !.pending = f]
    BY DEF PopEntry
  <2> HIDE DEF f, c
  <2>2. t = [priority |-> s.priority, pending |-> f,
             pendings |-> [s.pendings EXCEPT ![p] = c]]
    BY <2>1 DEF Good, QueueState
  <2> QED BY <2>2 DEF f
<1> HIDE DEF top
<1>3. /\ top.w \in Watchers => t.pending[top.w] = 0
      /\ \A v \in Watchers : v # top.w => t.pending[v] = s.pending[v]
  BY <1>2
<1>4. ASSUME NEW v \in Watchers, v # top.w PROVE EventsAt(t, v) = EventsAt(s, v)
  <2>1. CASE IsPending(t, v)
    <3>1. t.priority[v] \in Pri /\ t.pending[v] \in 1 .. Len(t.pendings[t.priority[v]])
      BY <1>1, <2>1, EntryAt
    <3>2. \A x \in Pri : \A j \in 1 .. Len(t.pendings[x]) : t.pendings[x][j] = s.pendings[x][j]
      BY PopEffect
    <3>3. t.pendings[t.priority[v]][t.pending[v]] = s.pendings[t.priority[v]][t.pending[v]]
      BY <3>1, <3>2
    <3> QED BY <1>2, <1>3, <1>4, <3>3 DEF EventsAt, IsPending
  <2>2. CASE ~IsPending(t, v)
    BY <1>3, <1>4, <2>2 DEF EventsAt, IsPending
  <2> QED BY <2>1, <2>2
<1>5. top.w \in Watchers =>
        /\ IsPending(s, top.w) /\ s.priority[top.w] = p /\ s.pending[top.w] = n
        /\ EventsAt(s, top.w) = top.events
  <2> SUFFICES ASSUME top.w \in Watchers
               PROVE  /\ IsPending(s, top.w) /\ s.priority[top.w] = p /\ s.pending[top.w] = n
                      /\ EventsAt(s, top.w) = top.events
    OBVIOUS
  <2>1. n \in Nat /\ n > 0
    <3>1. s.pendings[p] \in Seq(Entry)
      BY DEF Good, QueueState
    <3> QED BY <3>1
  <2>2. top.w # pending_w /\ n \in 1 .. Len(s.pendings[p]) /\ top = s.pendings[p][n]
    BY <2>1, PendingAssumption DEF top, TopEntry
  <2>3. s.priority[top.w] = p /\ s.pending[top.w] = n
    BY <2>2 DEF Good, EntryToIndex
  <2> QED BY <2>1, <2>2, <2>3 DEF IsPending, EventsAt
<1> QED BY <1>1, <1>2, <1>3, <1>4, <1>5 DEF Shrunk, top

-----------------------------------------------------------------------------
\* The routes of upheap and downheap

\* next leads from place to place, with a falling rank.
Descends(next, rank, max) ==
  /\ next = [i \in DOMAIN next |-> next[i]]
  /\ max \in Nat
  /\ rank \in [DOMAIN next -> 0 .. max]
  /\ \A i \in DOMAIN next :
       next[i] = 0 \/ (next[i] \in DOMAIN next /\ rank[next[i]] < rank[i])

\* p is the route from k on.
IsRoute(p, next, rank, k) ==
  /\ p \in Seq(DOMAIN next) /\ Len(p) >= 1 /\ p[1] = k
  /\ \A j \in 1 .. Len(p) - 1 : next[p[j]] = p[j + 1] /\ next[p[j]] # 0
  /\ next[p[Len(p)]] = 0
  /\ \A j, l \in 1 .. Len(p) : j < l => rank[p[l]] < rank[p[j]]

\* The recursion of Route has a solution.
LEMMA RouteExists ==
  ASSUME NEW next, NEW rank, NEW max, Descends(next, rank, max)
  PROVE  \E g : g = [i \in DOMAIN next |->
                       IF next[i] = 0 THEN <<i>> ELSE <<i>> \o g[next[i]]]
<1> DEFINE Step(g, i) == IF next[i] = 0 THEN <<i>> ELSE <<i>> \o g[next[i]]
           Below(m) == {i \in DOMAIN next : rank[i] < m}
           X == {m \in Nat : \E g : g = [i \in Below(m) |-> Step(g, i)]}
<1>1. 0 \in X
  <2>1. Below(0) = {}
    BY DEF Descends
  <2> DEFINE g0 == [i \in Below(0) |-> <<>>]
  <2>2. g0 = [i \in Below(0) |-> Step(g0, i)]
    BY <2>1
  <2> QED BY <2>2
<1>2. ASSUME NEW m \in Nat, m \in X PROVE m + 1 \in X
  <2>1. PICK g : g = [i \in Below(m) |-> Step(g, i)]
    BY <1>2
  <2> DEFINE h == [i \in Below(m + 1) |-> Step(g, i)]
  <2>2. ASSUME NEW i \in Below(m + 1) PROVE Step(h, i) = Step(g, i)
    <3>1. CASE next[i] = 0
      BY <3>1
    <3>2. CASE next[i] # 0
      <4>1. next[i] \in Below(m) /\ next[i] \in Below(m + 1)
        BY <2>2, <3>2 DEF Descends
      <4>2. h[next[i]] = g[next[i]]
        BY <2>1, <4>1
      <4> HIDE DEF h
      <4> QED BY <3>2, <4>2
    <3> QED BY <3>1, <3>2
  <2>3. h = [i \in Below(m + 1) |-> Step(h, i)]
    <3>1. \A i \in Below(m + 1) : Step(h, i) = Step(g, i)
      BY <2>2
    <3>2. h = [i \in Below(m + 1) |-> Step(g, i)]
      OBVIOUS
    <3> HIDE DEF h, Step, Below
    <3> QED BY <3>1, <3>2
  <2>4. \E f : f = [i \in Below(m + 1) |-> Step(f, i)]
    <3> HIDE DEF h, Below
    <3> WITNESS h
    <3> QED BY <2>3
  <2> HIDE DEF Step, Below
  <2> QED BY <2>4
<1>3. max + 1 \in X
  <2>1. \A m \in Nat : m \in X
    <3> HIDE DEF X
    <3> QED BY <1>1, <1>2, InductOnNat
  <2> HIDE DEF X
  <2> QED BY <2>1 DEF Descends
<1>4. Below(max + 1) = DOMAIN next
  BY DEF Descends
<1>5. PICK g : g = [i \in Below(max + 1) |-> Step(g, i)]
  BY <1>3
<1> QED BY <1>4, <1>5

\* One place before a route is a route.
LEMMA RouteGrows ==
  ASSUME NEW next, NEW rank, NEW max, Descends(next, rank, max),
         NEW i \in DOMAIN next, next[i] # 0,
         NEW q, IsRoute(q, next, rank, next[i])
  PROVE  IsRoute(<<i>> \o q, next, rank, i)
<1> DEFINE p == <<i>> \o q
<1>1. q \in Seq(DOMAIN next) /\ Len(q) \in Nat /\ Len(q) >= 1 /\ q[1] = next[i]
  BY DEF IsRoute
<1>2. /\ p \in Seq(DOMAIN next) /\ Len(p) = Len(q) + 1 /\ p[1] = i
      /\ \A j \in 1 .. Len(q) : p[j + 1] = q[j]
  BY <1>1
<1> HIDE DEF p
<1>3. ASSUME NEW j \in 1 .. Len(p) - 1 PROVE next[p[j]] = p[j + 1] /\ next[p[j]] # 0
  <2>1. CASE j = 1
    BY <1>1, <1>2, <2>1
  <2>2. CASE j # 1
    <3>1. j - 1 \in 1 .. Len(q) - 1 /\ p[(j - 1) + 1] = q[j - 1] /\ p[j + 1] = q[j]
      BY <1>1, <1>2, <2>2
    <3>2. next[q[j - 1]] = q[(j - 1) + 1] /\ next[q[j - 1]] # 0
      BY <3>1 DEF IsRoute
    <3>3. (j - 1) + 1 = j
      OBVIOUS
    <3> QED BY <3>1, <3>2, <3>3
  <2> QED BY <2>1, <2>2
<1>4. next[p[Len(p)]] = 0
  <2>1. p[Len(q) + 1] = q[Len(q)]
    BY <1>1, <1>2
  <2> QED BY <1>2, <2>1 DEF IsRoute
<1>5. rank[q[1]] < rank[i] /\ rank[i] \in Nat
  BY <1>1 DEF Descends
<1>6. ASSUME NEW j \in 1 .. Len(q) PROVE rank[q[j]] \in Nat /\ rank[q[j]] <= rank[q[1]]
  <2>1. q[j] \in DOMAIN next /\ q[1] \in DOMAIN next
    BY <1>1
  <2>2. rank[q[j]] \in Nat /\ rank[q[1]] \in Nat
    BY <2>1 DEF Descends
  <2>3. j = 1 \/ rank[q[j]] < rank[q[1]]
    BY <1>1 DEF IsRoute
  <2> QED BY <2>2, <2>3
<1>7. ASSUME NEW j \in 1 .. Len(p), NEW l \in 1 .. Len(p), j < l
      PROVE  rank[p[l]] < rank[p[j]]
  <2>1. l - 1 \in 1 .. Len(q) /\ (l - 1) + 1 = l
    BY <1>1, <1>2, <1>7
  <2>2. p[l] = q[l - 1]
    BY <1>2, <2>1
  <2>3. CASE j = 1
    BY <1>2, <1>5, <1>6, <2>1, <2>2, <2>3
  <2>4. CASE j # 1
    <3>1. j - 1 \in 1 .. Len(q) /\ (j - 1) + 1 = j /\ j - 1 < l - 1
      BY <1>1, <1>2, <1>7, <2>4
    <3>2. p[j] = q[j - 1]
      BY <1>2, <3>1
    <3> QED BY <2>1, <2>2, <3>1, <3>2 DEF IsRoute
  <2> QED BY <2>3, <2>4
<1>8. Len(p) >= 1
  BY <1>1, <1>2
<1> QED BY <1>2, <1>3, <1>4, <1>7, <1>8 DEF IsRoute, p

LEMMA RouteIsRoute ==
  ASSUME NEW next, NEW rank, NEW max, Descends(next, rank, max), NEW k \in DOMAIN next
  PROVE  IsRoute(Route(next, k), next, rank, k)
<1> DEFINE route == CHOOSE g : g = [i \in DOMAIN next |->
                                  IF next[i] = 0 THEN <<i>> ELSE <<i>> \o g[next[i]]]
<1>1. route = [i \in DOMAIN next |-> IF next[i] = 0 THEN <<i>> ELSE <<i>> \o route[next[i]]]
  BY RouteExists
<1>2. Route(next, k) = route[k]
  BY DEF Route
<1> HIDE DEF route
<1> DEFINE X == {m \in Nat : \A i \in DOMAIN next :
                               rank[i] < m => IsRoute(route[i], next, rank, i)}
<1>3. 0 \in X
  BY DEF Descends
<1>4. ASSUME NEW m \in Nat, m \in X PROVE m + 1 \in X
  <2> SUFFICES ASSUME NEW i \in DOMAIN next, rank[i] < m + 1
               PROVE  IsRoute(route[i], next, rank, i)
    OBVIOUS
  <2>1. CASE next[i] = 0
    <3>1. route[i] = <<i>>
      BY <1>1, <2>1
    <3> QED BY <2>1, <3>1 DEF IsRoute
  <2>2. CASE next[i] # 0
    <3>1. route[i] = <<i>> \o route[next[i]]
      BY <1>1, <2>2
    <3>2. next[i] \in DOMAIN next /\ rank[next[i]] < m
      BY <2>2 DEF Descends
    <3>3. IsRoute(route[next[i]], next, rank, next[i])
      BY <1>4, <3>2
    <3> QED BY <2>2, <3>1, <3>3, RouteGrows
  <2> QED BY <2>1, <2>2
<1>5. max + 1 \in X
  <2>1. \A m \in Nat : m \in X
    <3> HIDE DEF X
    <3> QED BY <1>3, <1>4, InductOnNat
  <2> HIDE DEF X
  <2> QED BY <2>1 DEF Descends
<1>6. rank[k] < max + 1
  BY DEF Descends
<1> QED BY <1>2, <1>5, <1>6

-----------------------------------------------------------------------------
\* Parents and children

LEMMA DivMod ==
  ASSUME NEW a \in Int, NEW m \in Nat \ {0}
  PROVE  /\ a \div m \in Int /\ a % m \in 0 .. m - 1
         /\ a = (m * (a \div m)) + (a % m)
  OBVIOUS

\* A quotient is known by its multiple.
LEMMA QuotientIs ==
  ASSUME NEW m \in Nat \ {0}, NEW a \in Int, NEW e \in Int
  PROVE  a \div m = e <=> m * e <= a /\ a < m * (e + 1)
<1>1. a % m \in 0 .. m - 1 /\ a \div m \in Int /\ a = (m * (a \div m)) + (a % m)
  BY DivMod
<1>2. PICK d \in Int : d = a \div m
  BY <1>1
<1>3. PICK r \in 0 .. m - 1 : r = a % m
  BY <1>1
<1>4. a = (m * d) + r
  BY <1>1, <1>2, <1>3
<1>5. d = e => m * e <= a /\ a < m * (e + 1)
  BY <1>4
<1>6. ASSUME m * e <= a, a < m * (e + 1) PROVE d = e
  <2>1. d >= e + 1 => m * d >= m * (e + 1)
    OBVIOUS
  <2>2. d + 1 <= e => m * (d + 1) <= m * e
    OBVIOUS
  <2>3. a < m * (d + 1) /\ m * d <= a
    BY <1>4
  <2>4. m * d \in Int /\ m * (d + 1) \in Int /\ m * e \in Int /\ m * (e + 1) \in Int
    OBVIOUS
  <2>5. ~(d >= e + 1)
    BY <1>6, <2>1, <2>3, <2>4
  <2>6. ~(d + 1 <= e)
    BY <1>6, <2>2, <2>3, <2>4
  <2> QED BY <2>5, <2>6
<1> QED BY <1>2, <1>5, <1>6

\* The parent of a place is before it.
LEMMA ParentIsBefore ==
  ASSUME NEW i \in Nat, i >= 2
  PROVE  Parent(i) \in 1 .. i - 1
<1>1. PICK m \in Nat \ {0, 1} : m = DHEAP
  BY HeapAssumption
<1>2. PICK e \in Int : e = (i - 2) \div m
  BY DivMod
<1>3. m * e <= i - 2 /\ i - 2 < m * (e + 1)
  BY <1>2, QuotientIs
<1>4. e >= 0
  <2>1. e + 1 <= 0 => m * (e + 1) <= 0
    OBVIOUS
  <2>2. m * (e + 1) \in Int
    OBVIOUS
  <2> QED BY <1>3, <2>1, <2>2
<1>5. e <= m * e
  BY <1>4
<1>6. m * e \in Int
  OBVIOUS
<1>7. Parent(i) = e + 1
  BY <1>1, <1>2 DEF Parent
<1> QED BY <1>3, <1>4, <1>5, <1>6, <1>7

\* The children of a place are those whose parent it is.
LEMMA ChildrenHaveParent ==
  ASSUME NEW h, Len(h) \in Nat, NEW i \in 1 .. Len(h)
  PROVE  Children(h, i) = {c \in 2 .. Len(h) : Parent(c) = i}
<1>1. PICK m \in Nat \ {0, 1} : m = DHEAP
  BY HeapAssumption
<1>2. m * (i - 1) \in Nat /\ m * i \in Nat
  OBVIOUS
<1>3. ASSUME NEW c \in Nat
      PROVE  c \in m * (i - 1) + 2 .. m * i + 1 <=> c >= 2 /\ (c - 2) \div m = i - 1
  <2>1. (c - 2) \div m = i - 1 <=> m * (i - 1) <= c - 2 /\ c - 2 < m * ((i - 1) + 1)
    BY SMTT(40), QuotientIs
  <2>2. (i - 1) + 1 = i
    OBVIOUS
  <2>3. (c - 2) \div m = i - 1 <=> m * (i - 1) <= c - 2 /\ c - 2 < m * i
    BY <2>1, <2>2
  <2> QED BY <1>2, <2>3
<1>4. ASSUME NEW c \in Nat
      PROVE  Parent(c) = i <=> (c - 2) \div m = i - 1
  <2>1. (c - 2) \div m \in Int
    BY DivMod
  <2>2. Parent(c) = (c - 2) \div m + 1
    BY <1>1 DEF Parent
  <2> QED BY <2>1, <2>2
<1>5. Children(h, i) = {c \in m * (i - 1) + 2 .. m * i + 1 : c <= Len(h)}
  BY <1>1 DEF Children
<1>6. \A c : c \in Children(h, i) <=>
              c \in m * (i - 1) + 2 .. m * i + 1 /\ c <= Len(h)
  BY <1>5
<1>7. ASSUME NEW c PROVE c \in Children(h, i) <=> c \in 2 .. Len(h) /\ Parent(c) = i
  <2>1. c \in Children(h, i) => c \in Nat
    BY <1>2, <1>6
  <2>2. c \in 2 .. Len(h) => c \in Nat
    OBVIOUS
  <2>3. ASSUME c \in Nat
        PROVE  c \in Children(h, i) <=> c \in 2 .. Len(h) /\ Parent(c) = i
    <3> DEFINE I == m * (i - 1) + 2 .. m * i + 1
               Q == (c - 2) \div m = i - 1
    <3>1. c \in I <=> c >= 2 /\ Q
      BY <1>3, <2>3
    <3>2. Parent(c) = i <=> Q
      BY <1>4, <2>3
    <3>3. c \in Children(h, i) <=> c \in I /\ c <= Len(h)
      BY <1>6
    <3> HIDE DEF I, Q
    <3>4. c \in 2 .. Len(h) <=> c >= 2 /\ c <= Len(h)
      BY <2>3
    <3> QED BY <3>1, <3>2, <3>3, <3>4
  <2> QED BY <2>1, <2>2, <2>3
<1> QED BY <1>7

\* Of the values at the places of an interval there is a first least one.
LEMMA LeastExists ==
  ASSUME NEW a \in Int, NEW f, \A i \in Int : f[i] \in Int,
         NEW m \in Nat
  PROVE  \E c \in a .. a + m : \A d \in a .. a + m :
            f[c] < f[d] \/ (f[c] = f[d] /\ c <= d)
<1> DEFINE Least(n, c) == \A d \in a .. a + n : f[c] < f[d] \/ (f[c] = f[d] /\ c <= d)
           X == {n \in Nat : \E c \in a .. a + n : Least(n, c)}
<1>1. 0 \in X
  <2>1. a \in a .. a + 0 /\ \A d \in a .. a + 0 : d = a
    OBVIOUS
  <2> QED BY <2>1
<1>2. ASSUME NEW n \in Nat, n \in X PROVE n + 1 \in X
  <2>1. PICK c \in a .. a + n : Least(n, c)
    BY <1>2
  <2>2. \A d \in a .. a + (n + 1) : d \in a .. a + n \/ d = a + (n + 1)
    OBVIOUS
  <2>3. CASE f[c] <= f[a + (n + 1)]
    <3>1. Least(n + 1, c)
      BY <2>1, <2>2, <2>3
    <3>2. c \in a .. a + (n + 1)
      OBVIOUS
    <3> QED BY <3>1, <3>2
  <2>4. CASE f[a + (n + 1)] < f[c]
    <3>1. Least(n + 1, a + (n + 1))
      BY <2>1, <2>2, <2>4
    <3>2. a + (n + 1) \in a .. a + (n + 1)
      OBVIOUS
    <3> QED BY <3>1, <3>2
  <2> QED BY <2>3, <2>4
<1>3. \A n \in Nat : n \in X
  <2> HIDE DEF X
  <2> QED BY <1>1, <1>2, InductOnNat
<1> QED BY <1>3

\* Heaps of timers: the elements have a watcher and a time.
Times(h) == \A i \in 1 .. Len(h) : h[i].at \in Int

\* The smallest child is a child, and no other is smaller.
LEMMA MinChildIsLeast ==
  ASSUME NEW h, Len(h) \in Nat, Times(h), NEW i \in 1 .. Len(h), Children(h, i) # {}
  PROVE  /\ MinChild(h, i) \in Children(h, i)
         /\ \A d \in Children(h, i) : h[MinChild(h, i)].at <= h[d].at
<1>1. PICK m \in Nat \ {0, 1} : m = DHEAP
  BY HeapAssumption
<1> DEFINE a == m * (i - 1) + 2
           b == IF m * i + 1 <= Len(h) THEN m * i + 1 ELSE Len(h)
           f == [j \in Int |-> IF j \in 1 .. Len(h) THEN h[j].at ELSE 0]
<1>2. a \in Nat /\ b \in Int /\ a >= 2 /\ m * i + 1 \in Nat
  OBVIOUS
<1>3. Children(h, i) = a .. b
  <2>1. Children(h, i) = {c \in a .. m * i + 1 : c <= Len(h)}
    BY <1>1 DEF Children
  <2> HIDE DEF a
  <2> QED BY <1>2, <2>1
<1>4. a <= b /\ b - a \in Nat /\ a + (b - a) = b
  <2> HIDE DEF a, b
  <2> QED BY <1>2, <1>3
<1>5. \A j \in Int : f[j] \in Int
  BY DEF Times
<1>6. PICK c \in a .. b : \A d \in a .. b : f[c] < f[d] \/ (f[c] = f[d] /\ c <= d)
  <2> HIDE DEF a, b, f
  <2>1. PICK n \in Nat : n = b - a
    BY <1>4
  <2>2. a \in Int
    BY <1>2
  <2>3. \E c \in a .. a + n : \A d \in a .. a + n :
            f[c] < f[d] \/ (f[c] = f[d] /\ c <= d)
    BY <1>5, <2>2, LeastExists
  <2> QED BY <1>4, <2>1, <2>3
<1>7. \A d \in a .. b : d \in 1 .. Len(h) /\ f[d] = h[d].at
  <2>1. b <= Len(h)
    BY <1>2
  <2>2. \A d \in a .. b : d \in 1 .. Len(h)
    <3> HIDE DEF a, b
    <3> QED BY <1>2, <2>1
  <2> QED BY <2>2
<1> HIDE DEF a, b, f
<1>8. \A d \in Children(h, i) : h[c].at < h[d].at \/ (h[c].at = h[d].at /\ c <= d)
  BY <1>3, <1>6, <1>7
<1>9. /\ MinChild(h, i) \in Children(h, i)
      /\ \A d \in Children(h, i) :
           h[MinChild(h, i)].at < h[d].at \/ (h[MinChild(h, i)].at = h[d].at /\ MinChild(h, i) <= d)
  BY <1>3, <1>6, <1>8 DEF MinChild
<1>10. \A d \in Children(h, i) : h[d].at \in Int
  BY <1>3, <1>7 DEF Times
<1> QED BY <1>9, <1>10

\* Both ways of moving an element come to an end.
LEMMA DownDescends ==
  ASSUME NEW h, Len(h) \in Nat, Times(h), NEW at
  PROVE  Descends(Down(h, at), [i \in 1 .. Len(h) |-> Len(h) - i], Len(h))
<1> DEFINE next == Down(h, at)
<1>1. DOMAIN next = 1 .. Len(h) /\ next = [i \in DOMAIN next |-> next[i]]
  BY DEF Down
<1>2. ASSUME NEW i \in 1 .. Len(h), next[i] # 0
      PROVE  next[i] \in 1 .. Len(h) /\ next[i] > i
  <2>1. Children(h, i) # {} /\ next[i] = MinChild(h, i)
    BY <1>2 DEF Down
  <2>2. next[i] \in Children(h, i)
    BY <2>1, MinChildIsLeast
  <2>3. next[i] \in 2 .. Len(h) /\ Parent(next[i]) = i
    BY <2>2, ChildrenHaveParent
  <2>4. Parent(next[i]) \in 1 .. next[i] - 1
    BY <2>3, ParentIsBefore
  <2> QED BY <2>3, <2>4
<1> HIDE DEF next
<1> QED BY <1>1, <1>2 DEF Descends, next

LEMMA UpDescends ==
  ASSUME NEW h, Len(h) \in Nat, NEW at
  PROVE  Descends(Up(h, at), [i \in 1 .. Len(h) |-> i], Len(h))
<1> DEFINE next == Up(h, at)
<1>1. DOMAIN next = 1 .. Len(h) /\ next = [i \in DOMAIN next |-> next[i]]
  BY DEF Up
<1>2. ASSUME NEW i \in 1 .. Len(h), next[i] # 0
      PROVE  next[i] \in 1 .. Len(h) /\ next[i] < i
  <2>1. i # 1 /\ next[i] = Parent(i)
    BY <1>2 DEF Up
  <2>2. Parent(i) \in 1 .. i - 1
    BY <2>1, ParentIsBefore
  <2> QED BY <2>1, <2>2
<1> HIDE DEF next
<1> QED BY <1>1, <1>2 DEF Descends, next

-----------------------------------------------------------------------------
\* Moving elements along a route

\* ANHE, an element: a watcher and its time
Anhe(W) == [w : W, at : Int]

\* A heap of watchers of W, of which each has at most one element
HeapState(s, W) ==
  /\ s \in [heap : Seq(Anhe(W)), active : [W -> Nat]]
  /\ \A i, j \in 1 .. Len(s.heap) : s.heap[i].w = s.heap[j].w => i = j

Elements(h) == {h[i] : i \in 1 .. Len(h)}

Watched(h) == {h[i].w : i \in 1 .. Len(h)}

\* The elements on the path have moved one place towards its start, the first
\* of them to its end.
Moves(h, g, path) ==
  /\ Len(g) = Len(h)
  /\ \A i \in 1 .. Len(h) : (\A j \in 1 .. Len(path) : path[j] # i) => g[i] = h[i]
  /\ \A j \in 1 .. Len(path) - 1 : g[path[j]] = h[path[j + 1]]
  /\ g[path[Len(path)]] = h[path[1]]

IsPath(h, path) ==
  /\ path \in Seq(1 .. Len(h)) /\ Len(path) \in Nat /\ Len(path) >= 1
  /\ \A j, l \in 1 .. Len(path) : path[j] = path[l] => j = l

LEMMA FunctionIsSeq ==
  ASSUME NEW n \in Nat, NEW S, NEW f \in [1 .. n -> S]
  PROVE  f \in Seq(S) /\ Len(f) = n
OBVIOUS

\* Shift moves the elements along the path and keeps every element; and an
\* element it has moved is known by the new place.
LEMMA ShiftMoves ==
  ASSUME NEW W, NEW s, HeapState(s, W), NEW path, IsPath(s.heap, path),
         NEW t, t = Shift(s, path)
  PROVE  /\ HeapState(t, W)
         /\ Moves(s.heap, t.heap, path)
         /\ Elements(t.heap) = Elements(s.heap)
         /\ \A j \in 1 .. Len(path) : t.active[t.heap[path[j]].w] = path[j]
         /\ \A w \in W : (\A j \in 1 .. Len(path) : t.heap[path[j]].w # w)
              => t.active[w] = s.active[w]
<1> DEFINE N == Len(s.heap)
           n == Len(path)
           Place(i) == CHOOSE j \in 1 .. n : path[j] = i
           OnPath(i) == \E j \in 1 .. n : path[j] = i
           heap == [i \in 1 .. N |->
                 IF ~OnPath(i) THEN s.heap[i]
                 ELSE IF Place(i) = n THEN s.heap[path[1]]
                 ELSE s.heap[path[Place(i) + 1]]]
           Moved(w) == {j \in 1 .. n : heap[path[j]].w = w}
           from == [i \in 1 .. N |-> IF ~OnPath(i) THEN i
                                     ELSE IF Place(i) = n THEN path[1]
                                     ELSE path[Place(i) + 1]]
           active == [w \in DOMAIN s.active |->
                     IF Moved(w) = {} THEN s.active[w]
                     ELSE path[CHOOSE j \in Moved(w) : TRUE]]
<1>1. t = [heap |-> heap, active |-> active]
  BY DEF Shift
<1>2. t.heap = heap /\ t.active = active
  <2> HIDE DEF heap, active
  <2> QED BY <1>1
<1>3. /\ s.heap \in Seq(Anhe(W)) /\ N \in Nat
      /\ s.active \in [W -> Nat]
  BY DEF HeapState
<1>4. n \in Nat /\ n >= 1 /\ \A j \in 1 .. n : path[j] \in 1 .. N
  BY DEF IsPath
<1>5. \A j \in 1 .. n : OnPath(path[j]) /\ Place(path[j]) = j
  BY DEF IsPath
<1>6. \A j \in 1 .. n : from[path[j]] = IF j = n THEN path[1] ELSE path[j + 1]
  BY <1>4, <1>5
<1>7. \A i \in 1 .. N : ~OnPath(i) => from[i] = i
  OBVIOUS
<1>8. \A i \in 1 .. N : from[i] \in 1 .. N
  <2>1. ASSUME NEW i \in 1 .. N, OnPath(i) PROVE from[i] \in 1 .. N
    <3>1. PICK j \in 1 .. n : path[j] = i
      BY <2>1
    <3> HIDE DEF from
    <3> QED BY <1>4, <1>6, <3>1
  <2> HIDE DEF from
  <2> QED BY <1>7, <2>1
<1>9. \A i \in 1 .. N : heap[i] = s.heap[from[i]]
  OBVIOUS
<1>10. heap \in Seq(Anhe(W)) /\ Len(heap) = N
  <2>1. heap = [i \in 1 .. N |-> s.heap[from[i]]]
    OBVIOUS
  <2> HIDE DEF heap, from
  <2>2. s.heap \in Seq(Anhe(W))
    BY <1>3
  <2>3. \A i \in 1 .. N : s.heap[from[i]] \in Anhe(W)
    BY <1>8, <2>2
  <2>4. heap \in [1 .. N -> Anhe(W)]
    BY <2>1, <2>3
  <2>5. heap \in Seq(Anhe(W)) /\ Len(heap) = N
    BY <1>3, <2>4, FunctionIsSeq
  <2> QED BY <2>5
<1>11. \A i \in 1 .. N : ~OnPath(i) => ~OnPath(from[i])
  <2> HIDE DEF from
  <2> QED BY <1>7
<1>12. \A j \in 1 .. n : OnPath(from[path[j]])
  <2>1. \A j \in 1 .. n : j # n => j + 1 \in 1 .. n
    BY <1>4
  <2> HIDE DEF from
  <2> QED BY <1>4, <1>6, <2>1
<1>13. ASSUME NEW i \in 1 .. N, NEW j \in 1 .. N, from[i] = from[j]
       PROVE  i = j
  <2> HIDE DEF from
  <2>1. CASE OnPath(i) /\ OnPath(j)
    <3>1. PICK a \in 1 .. n : path[a] = i
      BY <2>1
    <3>2. PICK b \in 1 .. n : path[b] = j
      BY <2>1
    <3> DEFINE Succ(c) == IF c = n THEN 1 ELSE c + 1
    <3>3. Succ(a) \in 1 .. n /\ Succ(b) \in 1 .. n /\ (Succ(a) = Succ(b) => a = b)
      BY <1>4
    <3>4. path[Succ(a)] = path[Succ(b)]
      BY <1>6, <1>13, <3>1, <3>2
    <3> HIDE DEF Succ
    <3>5. Succ(a) = Succ(b)
      BY <3>3, <3>4 DEF IsPath
    <3> QED BY <3>1, <3>2, <3>3, <3>5
  <2>2. CASE ~OnPath(i) /\ ~OnPath(j)
    BY <1>7, <1>13, <2>2
  <2>3. \A x \in 1 .. N : OnPath(x) => OnPath(from[x])
    BY <1>12
  <2> HIDE DEF OnPath
  <2>4. OnPath(i) <=> OnPath(j)
    BY <1>11, <1>13, <2>3
  <2> QED BY <2>1, <2>2, <2>4
<1>14. \A j \in 1 .. N : \E i \in 1 .. N : from[i] = j
  <2> SUFFICES ASSUME NEW j \in 1 .. N PROVE \E i \in 1 .. N : from[i] = j
    OBVIOUS
  <2> HIDE DEF from
  <2>1. CASE ~OnPath(j)
    BY <1>7, <2>1
  <2>2. CASE OnPath(j)
    <3>1. PICK a \in 1 .. n : path[a] = j
      BY <2>2
    <3>2. CASE a = 1
      <4>1. n \in 1 .. n /\ from[path[n]] = j
        BY <1>4, <1>6, <3>1, <3>2
      <4> QED BY <1>4, <4>1
    <3>3. CASE a # 1
      <4>1. a - 1 \in 1 .. n /\ a - 1 # n /\ (a - 1) + 1 = a
        BY <1>4, <3>3
      <4>2. from[path[a - 1]] = j
        BY <1>6, <3>1, <4>1
      <4> QED BY <1>4, <4>1, <4>2
    <3> QED BY <3>2, <3>3
  <2> QED BY <2>1, <2>2
<1>15. \A i, j \in 1 .. N : heap[i].w = heap[j].w => i = j
  <2> HIDE DEF heap, from
  <2>1. \A i, j \in 1 .. N : s.heap[i].w = s.heap[j].w => i = j
    BY DEF HeapState
  <2>2. ASSUME NEW i \in 1 .. N, NEW j \in 1 .. N, heap[i].w = heap[j].w PROVE i = j
    <3>1. s.heap[from[i]].w = s.heap[from[j]].w
      BY <1>9, <2>2
    <3>2. from[i] = from[j]
      BY <1>8, <2>1, <3>1
    <3> QED BY <1>13, <3>2
  <2> QED BY <2>2
<1>16. \A j \in 1 .. n : active[heap[path[j]].w] = path[j]
  <2> SUFFICES ASSUME NEW j \in 1 .. n PROVE active[heap[path[j]].w] = path[j]
    OBVIOUS
  <2> DEFINE v == heap[path[j]].w
  <2>1. v \in W
    <3> HIDE DEF heap
    <3>1. heap[path[j]] \in Anhe(W)
      <4>1. heap \in Seq(Anhe(W)) /\ path[j] \in 1 .. Len(heap)
        BY <1>4, <1>10
      <4>2. heap[path[j]] \in Anhe(W)
        BY <4>1
      <4> QED BY <4>2
    <3> QED BY <3>1 DEF Anhe
  <2>2. j \in Moved(v) /\ \A l \in Moved(v) : path[l] = path[j]
    <3> HIDE DEF heap
    <3> QED BY <1>4, <1>15
  <2>3. active[v] = path[CHOOSE l \in Moved(v) : TRUE]
    <3> HIDE DEF Moved, heap, v
    <3> QED BY <1>3, <2>1, <2>2
  <2>4. (CHOOSE l \in Moved(v) : TRUE) \in Moved(v)
    <3> HIDE DEF Moved, v
    <3> QED BY <2>2
  <2> HIDE DEF Moved, active
  <2> QED BY <2>2, <2>3, <2>4
<1>17. \A w \in W : (\A j \in 1 .. n : heap[path[j]].w # w) => active[w] = s.active[w]
  <2> HIDE DEF heap
  <2> QED BY <1>3
<1>18. active \in [W -> Nat]
  <2>1. ASSUME NEW w \in W PROVE active[w] \in Nat
    <3>1. CASE Moved(w) = {}
      BY <1>3, <3>1
    <3>2. CASE Moved(w) # {}
      <4>1. (CHOOSE l \in Moved(w) : TRUE) \in 1 .. n
        <5> HIDE DEF heap
        <5> QED BY <3>2
      <4>2. active[w] = path[CHOOSE l \in Moved(w) : TRUE]
        <5> HIDE DEF Moved
        <5> QED BY <1>3, <3>2
      <4> HIDE DEF Moved, active
      <4> QED BY <1>3, <1>4, <4>1, <4>2
    <3> QED BY <3>1, <3>2
  <2>2. DOMAIN active = W /\ active = [w \in DOMAIN active |-> active[w]]
    <3> HIDE DEF Moved
    <3> QED BY <1>3
  <2> HIDE DEF active
  <2> QED BY <2>1, <2>2
<1> HIDE DEF heap, active, from
<1>19. HeapState(t, W)
  BY <1>1, <1>10, <1>15, <1>18 DEF HeapState
<1>20. Moves(s.heap, heap, path)
  <2>1. \A i \in 1 .. N : (\A j \in 1 .. n : path[j] # i) => heap[i] = s.heap[i]
    BY <1>7, <1>9
  <2>2. ASSUME NEW j \in 1 .. n - 1 PROVE heap[path[j]] = s.heap[path[j + 1]]
    <3>1. j \in 1 .. n /\ j # n
      BY <1>4
    <3> QED BY <1>4, <1>6, <1>9, <3>1
  <2>3. heap[path[n]] = s.heap[path[1]]
    BY <1>4, <1>6, <1>9
  <2> QED BY <1>10, <2>1, <2>2, <2>3 DEF Moves
<1>21. Elements(heap) = Elements(s.heap)
  <2>1. \A i \in 1 .. N : heap[i] \in Elements(s.heap)
    BY <1>8, <1>9 DEF Elements
  <2>2. \A j \in 1 .. N : s.heap[j] \in Elements(heap)
    <3> SUFFICES ASSUME NEW j \in 1 .. N PROVE s.heap[j] \in Elements(heap)
      OBVIOUS
    <3>1. PICK i \in 1 .. N : from[i] = j
      BY <1>14
    <3> QED BY <1>9, <1>10, <3>1 DEF Elements
  <2> QED BY <1>10, <2>1, <2>2 DEF Elements
<1> QED BY <1>2, <1>16, <1>17, <1>19, <1>20, <1>21

-----------------------------------------------------------------------------
\* The order of the elements

\* Where an element sinks to: every place on the way holds the smallest of its
\* children that is earlier, the last one has no earlier child.
LEMMA DownRoute ==
  ASSUME NEW h, Len(h) \in Nat, Times(h), NEW k \in 1 .. Len(h), NEW at \in Int,
         NEW p, p = Route(Down(h, at), k)
  PROVE  /\ IsPath(h, p) /\ p[1] = k
         /\ \A j, l \in 1 .. Len(p) : j < l => p[j] < p[l]
         /\ \A j \in 1 .. Len(p) - 1 :
              /\ Parent(p[j + 1]) = p[j] /\ h[p[j + 1]].at < at
              /\ \A d \in 2 .. Len(h) : Parent(d) = p[j] => h[p[j + 1]].at <= h[d].at
         /\ \A d \in 2 .. Len(h) : Parent(d) = p[Len(p)] => at <= h[d].at
<1> DEFINE next == Down(h, at)
           rank == [i \in 1 .. Len(h) |-> Len(h) - i]
<1>1. Descends(next, rank, Len(h))
  BY DownDescends
<1>2. DOMAIN next = 1 .. Len(h)
  BY DEF Down
<1>3. IsRoute(p, next, rank, k)
  <2> HIDE DEF next, rank
  <2>1. p = Route(next, k)
    BY DEF next
  <2> QED BY <1>1, <1>2, <2>1, RouteIsRoute
<1>4. p \in Seq(1 .. Len(h)) /\ Len(p) \in Nat /\ Len(p) >= 1 /\ p[1] = k
  <2> HIDE DEF next, rank
  <2> QED BY <1>2, <1>3 DEF IsRoute
<1>5. \A j \in 1 .. Len(p) : p[j] \in 1 .. Len(h)
  BY <1>4
<1>6. \A j, l \in 1 .. Len(p) : j < l => p[j] < p[l]
  <2> HIDE DEF next
  <2>1. \A j, l \in 1 .. Len(p) : j < l => rank[p[l]] < rank[p[j]]
    BY <1>3 DEF IsRoute
  <2>2. \A j \in 1 .. Len(p) : rank[p[j]] = Len(h) - p[j]
    BY <1>5
  <2> HIDE DEF rank
  <2> QED BY <1>5, <2>1, <2>2
<1>7. \A j, l \in 1 .. Len(p) : p[j] = p[l] => j = l
  BY <1>4, <1>5, <1>6
<1>8. ASSUME NEW i \in 1 .. Len(h), next[i] # 0
      PROVE  /\ Children(h, i) # {} /\ next[i] = MinChild(h, i)
             /\ ~(at <= h[next[i]].at)
  BY <1>8 DEF Down
<1>9. ASSUME NEW i \in 1 .. Len(h), next[i] = 0
      PROVE  Children(h, i) = {} \/ at <= h[MinChild(h, i)].at
  <2>1. ASSUME Children(h, i) # {} PROVE MinChild(h, i) # 0
    <3>1. MinChild(h, i) \in 2 .. Len(h)
      BY <2>1, MinChildIsLeast, ChildrenHaveParent
    <3> QED BY <3>1
  <2> QED BY <1>9, <2>1 DEF Down
<1> HIDE DEF next, rank
<1>10. ASSUME NEW j \in 1 .. Len(p) - 1
       PROVE  /\ Parent(p[j + 1]) = p[j] /\ h[p[j + 1]].at < at
              /\ \A d \in 2 .. Len(h) : Parent(d) = p[j] => h[p[j + 1]].at <= h[d].at
  <2>1. j \in 1 .. Len(p) /\ j + 1 \in 1 .. Len(p)
    BY <1>4
  <2>2. p[j] \in 1 .. Len(h) /\ p[j + 1] \in 1 .. Len(h)
    BY <1>5, <2>1
  <2>3. next[p[j]] = p[j + 1] /\ next[p[j]] # 0
    BY <1>3 DEF IsRoute
  <2>4. Children(h, p[j]) # {} /\ p[j + 1] = MinChild(h, p[j]) /\ ~(at <= h[p[j + 1]].at)
    BY <1>8, <2>2, <2>3
  <2>5. /\ p[j + 1] \in Children(h, p[j])
        /\ \A d \in Children(h, p[j]) : h[p[j + 1]].at <= h[d].at
    BY <2>2, <2>4, MinChildIsLeast
  <2>6. h[p[j + 1]].at \in Int
    BY <2>2 DEF Times
  <2> QED BY SMTT(40), <2>2, <2>4, <2>5, <2>6, ChildrenHaveParent
<1>11. ASSUME NEW d \in 2 .. Len(h), Parent(d) = p[Len(p)]
       PROVE  at <= h[d].at
  <2> DEFINE i == p[Len(p)]
  <2>1. i \in 1 .. Len(h) /\ next[i] = 0
    BY <1>3, <1>4, <1>5 DEF IsRoute
  <2> HIDE DEF i
  <2>2. d \in Children(h, i)
    BY <1>11, <2>1, ChildrenHaveParent DEF i
  <2>3. at <= h[MinChild(h, i)].at
    BY <1>9, <2>1, <2>2
  <2>4. MinChild(h, i) \in Children(h, i) /\ h[MinChild(h, i)].at <= h[d].at
    BY <2>1, <2>2, MinChildIsLeast
  <2>5. MinChild(h, i) \in 1 .. Len(h) /\ d \in 1 .. Len(h)
    BY <2>1, <2>4, ChildrenHaveParent
  <2>6. h[MinChild(h, i)].at \in Int /\ h[d].at \in Int
    BY <2>5 DEF Times
  <2> QED BY <2>3, <2>4, <2>6
<1> QED BY <1>4, <1>6, <1>7, <1>10, <1>11 DEF IsPath

\* A path from a place up to one whose parent is not later than at
GoesUp(h, p, k, at) ==
  /\ IsPath(h, p) /\ p[1] = k
  /\ \A j, l \in 1 .. Len(p) : j < l => p[l] < p[j]
  /\ \A j \in 1 .. Len(p) - 1 :
       p[j] # 1 /\ Parent(p[j]) = p[j + 1] /\ at < h[p[j + 1]].at
  /\ p[Len(p)] # 1 => h[Parent(p[Len(p)])].at <= at

\* Where an element rises to: every place on the way is the parent of the one
\* before it and holds a later element, the last one has no later parent.
LEMMA UpRoute ==
  ASSUME NEW h, Len(h) \in Nat, Times(h), NEW k \in 1 .. Len(h), NEW at \in Int,
         NEW p, p = Route(Up(h, at), k)
  PROVE  GoesUp(h, p, k, at)
<1> DEFINE next == Up(h, at)
           rank == [i \in 1 .. Len(h) |-> i]
<1>1. Descends(next, rank, Len(h))
  BY UpDescends
<1>2. DOMAIN next = 1 .. Len(h)
  BY DEF Up
<1>3. IsRoute(p, next, rank, k)
  <2> HIDE DEF next, rank
  <2>1. p = Route(next, k)
    BY DEF next
  <2> QED BY <1>1, <1>2, <2>1, RouteIsRoute
<1>4. p \in Seq(1 .. Len(h)) /\ Len(p) \in Nat /\ Len(p) >= 1 /\ p[1] = k
  <2> HIDE DEF next, rank
  <2> QED BY <1>2, <1>3 DEF IsRoute
<1>5. \A j \in 1 .. Len(p) : p[j] \in 1 .. Len(h)
  BY <1>4
<1>6. \A j, l \in 1 .. Len(p) : j < l => p[l] < p[j]
  <2> HIDE DEF next
  <2>1. \A j, l \in 1 .. Len(p) : j < l => rank[p[l]] < rank[p[j]]
    BY <1>3 DEF IsRoute
  <2>2. \A j \in 1 .. Len(p) : rank[p[j]] = p[j]
    BY <1>5
  <2> HIDE DEF rank
  <2> QED BY <2>1, <2>2
<1>7. \A j, l \in 1 .. Len(p) : p[j] = p[l] => j = l
  BY <1>4, <1>5, <1>6
<1>8. ASSUME NEW i \in 1 .. Len(h), next[i] # 0
      PROVE  i # 1 /\ next[i] = Parent(i) /\ ~(h[next[i]].at <= at)
  BY <1>8 DEF Up
<1>9. ASSUME NEW i \in 1 .. Len(h), next[i] = 0, i # 1
      PROVE  h[Parent(i)].at <= at
  <2>1. Parent(i) # 0
    BY <1>9, ParentIsBefore
  <2> QED BY <1>9, <2>1 DEF Up
<1> HIDE DEF next, rank
<1>10. ASSUME NEW j \in 1 .. Len(p) - 1
       PROVE  p[j] # 1 /\ Parent(p[j]) = p[j + 1] /\ at < h[p[j + 1]].at
  <2>1. j \in 1 .. Len(p) /\ j + 1 \in 1 .. Len(p)
    BY <1>4
  <2>2. p[j] \in 1 .. Len(h) /\ p[j + 1] \in 1 .. Len(h)
    BY <1>5, <2>1
  <2>3. next[p[j]] = p[j + 1] /\ next[p[j]] # 0
    BY <1>3 DEF IsRoute
  <2>4. h[p[j + 1]].at \in Int
    BY <2>2 DEF Times
  <2> QED BY <1>8, <2>2, <2>3, <2>4
<1>11. p[Len(p)] # 1 => h[Parent(p[Len(p)])].at <= at
  <2>1. p[Len(p)] \in 1 .. Len(h) /\ next[p[Len(p)]] = 0
    BY <1>3, <1>4, <1>5 DEF IsRoute
  <2> QED BY <1>9, <2>1
<1> QED BY <1>4, <1>6, <1>7, <1>10, <1>11 DEF GoesUp, IsPath

\* Only the element in place k may be out of order.
OrderedBut(h, k) ==
  \A i \in 2 .. Len(h) :
    /\ i # k /\ Parent(i) # k => h[Parent(i)].at <= h[i].at
    /\ k # 1 /\ Parent(i) = k => h[Parent(k)].at <= h[i].at

InHeapOrder(h) == \A i \in 2 .. Len(h) : h[Parent(i)].at <= h[i].at

NotEarly(h, k) == k # 1 => h[Parent(k)].at <= h[k].at

\* An element that is not too early for its place sinks to where it belongs.
LEMMA DownOrders ==
  ASSUME NEW h, Len(h) \in Nat, Times(h), NEW k \in 1 .. Len(h),
         OrderedBut(h, k), NotEarly(h, k),
         NEW p, p = Route(Down(h, h[k].at), k), NEW g, Moves(h, g, p)
  PROVE  InHeapOrder(g)
<1> DEFINE n == Len(p)
<1>1. h[k].at \in Int /\ \A i \in 1 .. Len(h) : h[i].at \in Int
  BY DEF Times
<1>2. /\ IsPath(h, p) /\ p[1] = k
      /\ \A j, l \in 1 .. n : j < l => p[j] < p[l]
      /\ \A j \in 1 .. n - 1 :
           /\ Parent(p[j + 1]) = p[j] /\ h[p[j + 1]].at < h[k].at
           /\ \A d \in 2 .. Len(h) : Parent(d) = p[j] => h[p[j + 1]].at <= h[d].at
      /\ \A d \in 2 .. Len(h) : Parent(d) = p[n] => h[k].at <= h[d].at
  BY <1>1, DownRoute
<1>3. /\ n \in Nat /\ n >= 1 /\ Len(g) = Len(h)
      /\ \A j \in 1 .. n : p[j] \in 1 .. Len(h)
  <2>1. p \in Seq(1 .. Len(h)) /\ Len(p) \in Nat /\ Len(p) >= 1
    BY <1>2 DEF IsPath
  <2>2. Len(g) = Len(h)
    BY DEF Moves
  <2> QED BY <2>1, <2>2
<1>4. /\ \A i \in 1 .. Len(h) : (\A j \in 1 .. n : p[j] # i) => g[i] = h[i]
      /\ \A j \in 1 .. n - 1 : g[p[j]] = h[p[j + 1]]
      /\ g[p[n]] = h[k]
  BY <1>2 DEF Moves
<1> SUFFICES ASSUME NEW i \in 2 .. Len(h)
             PROVE  g[Parent(i)].at <= g[i].at
  BY <1>3 DEF InHeapOrder
<1> DEFINE q == Parent(i)
<1>5. q \in 1 .. i - 1 /\ q \in 1 .. Len(h) /\ i \in 1 .. Len(h)
  BY ParentIsBefore
<1> HIDE DEF q, n
<1>6. CASE \A j \in 1 .. n : p[j] # i
  <2>1. g[i] = h[i]
    BY <1>4, <1>5, <1>6
  <2>2. CASE \A j \in 1 .. n : p[j] # q
    <3>1. i # k /\ q # k
      BY <1>2, <1>3, <1>6, <2>2
    <3>2. g[q] = h[q]
      BY <1>4, <1>5, <2>2
    <3> QED BY <2>1, <3>1, <3>2 DEF OrderedBut, q
  <2>3. ASSUME NEW j \in 1 .. n, p[j] = q PROVE g[q].at <= g[i].at
    <3>1. CASE j = n
      BY <1>2, <1>4, <2>1, <2>3, <3>1 DEF q
    <3>2. CASE j # n
      <4>1. j \in 1 .. n - 1
        BY <1>3, <3>2
      <4> QED BY <1>2, <1>4, <2>1, <2>3, <4>1 DEF q
    <3> QED BY <3>1, <3>2
  <2> QED BY <2>2, <2>3 DEF q
<1>7. ASSUME NEW j \in 1 .. n, p[j] = i PROVE g[q].at <= g[i].at
  <2>1. CASE j = 1
    <3>1. i = k /\ k # 1
      BY <1>2, <1>7, <2>1
    <3>2. \A l \in 1 .. n : p[l] # q
      <4>1. \A l \in 1 .. n : l = 1 \/ p[1] < p[l]
        BY <1>2, <1>3
      <4> QED BY <1>3, <1>5, <1>7, <2>1, <4>1
    <3>3. g[q] = h[q]
      BY <1>4, <1>5, <3>2
    <3>4. CASE n = 1
      BY <1>2, <1>4, <2>1, <3>1, <3>3, <3>4 DEF q, NotEarly
    <3>5. CASE n # 1
      <4>1. 1 \in 1 .. n - 1 /\ 1 + 1 = 2 /\ 2 \in 1 .. n
        BY <1>3, <3>5
      <4>2. g[k] = h[p[2]] /\ Parent(p[2]) = k
        BY <1>2, <1>4, <4>1
      <4>3. p[2] \in 2 .. Len(h)
        <5>1. p[1] < p[2] /\ p[1] \in 1 .. Len(h) /\ p[2] \in 1 .. Len(h)
          BY <1>2, <1>3, <4>1
        <5> QED BY <5>1
      <4>4. h[Parent(k)].at <= h[p[2]].at
        BY <3>1, <4>2, <4>3 DEF OrderedBut
      <4> QED BY <3>1, <3>3, <4>2, <4>4 DEF q
    <3> QED BY <3>4, <3>5
  <2>2. CASE j # 1
    <3>1. j - 1 \in 1 .. n - 1 /\ (j - 1) + 1 = j
      BY <1>3, <2>2
    <3>2. q = p[j - 1] /\ g[q] = h[i] /\ h[i].at < h[k].at
      BY <1>2, <1>4, <1>7, <3>1 DEF q
    <3>3. CASE j = n
      BY <1>1, <1>4, <1>5, <1>7, <3>2, <3>3
    <3>4. CASE j # n
      <4>1. j \in 1 .. n - 1 /\ j + 1 \in 1 .. n
        BY <1>3, <3>4
      <4>2. g[i] = h[p[j + 1]] /\ Parent(p[j + 1]) = i
        BY <1>2, <1>4, <1>7, <4>1
      <4>3. p[1] < p[j] /\ p[j] < p[j + 1] /\ p[1] \in 1 .. Len(h) /\ p[j + 1] \in 1 .. Len(h)
        <5>1. 1 \in 1 .. n /\ 1 < j /\ j < j + 1
          BY <1>3, <2>2
        <5> QED BY <1>2, <1>3, <4>1, <5>1
      <4>4. p[j + 1] \in 2 .. Len(h) /\ i # k /\ p[j + 1] # k
        BY <1>2, <1>5, <1>7, <4>3
      <4>5. h[i].at <= h[p[j + 1]].at
        BY <4>2, <4>4 DEF OrderedBut
      <4> QED BY <3>2, <4>2, <4>5
    <3> QED BY <3>3, <3>4
  <2> QED BY <2>1, <2>2
<1> QED BY <1>6, <1>7 DEF q

\* Of the first m elements, only the one in place k may be out of order, and it
\* is not later than its children.
MayRise(h, k, m) ==
  \A i \in 2 .. m :
    /\ i # k /\ Parent(i) # k => h[Parent(i)].at <= h[i].at
    /\ k # 1 /\ Parent(i) = k => h[Parent(k)].at <= h[i].at
    /\ Parent(i) = k => h[k].at <= h[i].at

\* An element that is not too late for its place rises to where it belongs,
\* which reheap does with the first m elements in order.
LEMMA UpOrders ==
  ASSUME NEW h, Len(h) \in Nat, Times(h), NEW m \in 1 .. Len(h), NEW k \in 1 .. m,
         MayRise(h, k, m),
         NEW p, p = Route(Up(h, h[k].at), k), NEW g, Moves(h, g, p)
  PROVE  \A i \in 2 .. m : g[Parent(i)].at <= g[i].at
<1> DEFINE n == Len(p)
<1>1. k \in 1 .. Len(h) /\ h[k].at \in Int /\ \A i \in 1 .. Len(h) : h[i].at \in Int
  BY DEF Times
<1>2. /\ IsPath(h, p) /\ p[1] = k
      /\ \A j, l \in 1 .. n : j < l => p[l] < p[j]
      /\ \A j \in 1 .. n - 1 :
           p[j] # 1 /\ Parent(p[j]) = p[j + 1] /\ h[k].at < h[p[j + 1]].at
      /\ p[n] # 1 => h[Parent(p[n])].at <= h[k].at
  <2>1. GoesUp(h, p, k, h[k].at)
    BY <1>1, UpRoute
  <2> QED BY <2>1 DEF GoesUp
<1>3. /\ n \in Nat /\ n >= 1 /\ Len(g) = Len(h)
      /\ \A j \in 1 .. n : p[j] \in 1 .. Len(h)
  <2>1. p \in Seq(1 .. Len(h)) /\ Len(p) \in Nat /\ Len(p) >= 1
    BY <1>2 DEF IsPath
  <2>2. Len(g) = Len(h)
    BY DEF Moves
  <2> QED BY <2>1, <2>2
<1>4. /\ \A i \in 1 .. Len(h) : (\A j \in 1 .. n : p[j] # i) => g[i] = h[i]
      /\ \A j \in 1 .. n - 1 : g[p[j]] = h[p[j + 1]]
      /\ g[p[n]] = h[k]
  BY <1>2 DEF Moves
<1> SUFFICES ASSUME NEW i \in 2 .. m
             PROVE  g[Parent(i)].at <= g[i].at
  OBVIOUS
<1> DEFINE q == Parent(i)
<1>5. q \in 1 .. i - 1 /\ q \in 1 .. m /\ q \in 1 .. Len(h) /\ i \in 1 .. Len(h)
  BY ParentIsBefore
<1>6. /\ i # k /\ q # k => h[q].at <= h[i].at
      /\ k # 1 /\ q = k => h[Parent(k)].at <= h[i].at
      /\ q = k => h[k].at <= h[i].at
  BY DEF MayRise
<1> HIDE DEF q, n
<1>7. CASE \A j \in 1 .. n : p[j] # i
  <2>1. g[i] = h[i] /\ i # k
    BY <1>2, <1>3, <1>4, <1>5, <1>7
  <2>2. CASE \A j \in 1 .. n : p[j] # q
    <3>1. q # k
      BY <1>2, <1>3, <2>2
    <3>2. g[q] = h[q]
      BY <1>4, <1>5, <2>2
    <3> QED BY <1>6, <2>1, <3>1, <3>2 DEF q
  <2>3. ASSUME NEW j \in 1 .. n, p[j] = q PROVE g[q].at <= g[i].at
    <3>1. CASE j = 1
      <4>1. q = k
        BY <1>2, <2>3, <3>1
      <4>2. CASE n = 1
        BY <1>2, <1>4, <1>6, <2>1, <4>1, <4>2
      <4>3. CASE n # 1
        <5>1. 1 \in 1 .. n - 1
          BY <1>3, <4>3
        <5> QED BY <1>2, <1>4, <1>6, <2>1, <4>1, <5>1
      <4> QED BY <4>2, <4>3
    <3>2. CASE j # 1
      <4>1. 1 \in 1 .. n /\ 1 < j /\ j - 1 \in 1 .. n - 1 /\ (j - 1) + 1 = j
        BY <1>3, <3>2
      <4>2. q < k /\ h[k].at < h[q].at
        BY <1>2, <2>3, <4>1
      <4>3. h[q].at <= h[i].at
        BY <1>5, <1>6, <2>1, <4>2
      <4>4. CASE j = n
        BY <1>1, <1>4, <1>5, <2>1, <2>3, <4>2, <4>3, <4>4
      <4>5. CASE j # n
        <5>1. j \in 1 .. n - 1
          BY <1>3, <4>5
        <5>2. g[q] = h[Parent(q)] /\ q # 1
          BY <1>2, <1>4, <2>3, <5>1
        <5>3. q \in 2 .. m /\ Parent(q) \in 1 .. q - 1
          BY <1>5, <5>2, ParentIsBefore
        <5>4. Parent(q) # k /\ q # k /\ Parent(q) \in 1 .. Len(h)
          BY <1>5, <4>2, <5>3
        <5>5. h[Parent(q)].at <= h[q].at
          BY <5>3, <5>4 DEF MayRise
        <5>6. h[Parent(q)].at \in Int /\ h[q].at \in Int /\ h[i].at \in Int
          BY <1>1, <1>5, <5>4
        <5> QED BY <2>1, <4>3, <5>2, <5>5, <5>6
      <4> QED BY <4>4, <4>5
    <3> QED BY <3>1, <3>2
  <2> QED BY <2>2, <2>3 DEF q
<1>8. ASSUME NEW j \in 1 .. n, p[j] = i PROVE g[q].at <= g[i].at
  <2>1. CASE j = n
    <3>1. g[i] = h[k] /\ h[q].at <= h[k].at
      BY <1>2, <1>4, <1>8, <2>1 DEF q
    <3>2. \A l \in 1 .. n : p[l] # q
      <4>1. \A l \in 1 .. n : l = n \/ p[n] < p[l]
        BY <1>2, <1>3
      <4> QED BY <1>3, <1>5, <1>8, <2>1, <4>1
    <3>3. g[q] = h[q]
      BY <1>4, <1>5, <3>2
    <3> QED BY <3>1, <3>3
  <2>2. CASE j # n
    <3>1. j \in 1 .. n - 1 /\ j + 1 \in 1 .. n /\ 1 \in 1 .. n /\ 1 < j + 1
      BY <1>3, <2>2
    <3>2. q = p[j + 1] /\ g[i] = h[q] /\ h[k].at < h[q].at /\ q < k
      BY <1>2, <1>4, <1>8, <3>1 DEF q
    <3>3. CASE j + 1 = n
      BY SMTT(40), <1>1, <1>4, <1>5, <3>2, <3>3
    <3>4. CASE j + 1 # n
      <4>1. j + 1 \in 1 .. n - 1
        BY <1>3, <3>1, <3>4
      <4>2. g[q] = h[Parent(q)] /\ q # 1
        BY <1>2, <1>4, <3>2, <4>1
      <4>3. q \in 2 .. m /\ Parent(q) \in 1 .. q - 1
        BY <1>5, <4>2, ParentIsBefore
      <4>4. Parent(q) # k /\ q # k
        BY <1>5, <3>2, <4>3
      <4>5. h[Parent(q)].at <= h[q].at
        BY <4>3, <4>4 DEF MayRise
      <4> QED BY <3>2, <4>2, <4>5
    <3> QED BY <3>3, <3>4
  <2> QED BY <2>1, <2>2
<1> QED BY <1>7, <1>8 DEF q

-----------------------------------------------------------------------------
\* upheap, downheap and adjustheap

\* The active index of every element but the one in place k is right.
IndexedBut(s, k) ==
  \A i \in 1 .. Len(s.heap) : i # k => s.active[s.heap[i].w] = i

\* t holds the elements of s, with the right indices.
Rearranged(s, t, W) ==
  /\ HeapState(t, W)
  /\ Len(t.heap) = Len(s.heap)
  /\ Elements(t.heap) = Elements(s.heap)
  /\ Indexed(t)
  /\ \A w \in W \ Watched(s.heap) : t.active[w] = s.active[w]

\* What holds for every element, and what for every watcher of one
LEMMA ElementTypes ==
  ASSUME NEW W, NEW s, HeapState(s, W)
  PROVE  /\ Len(s.heap) \in Nat /\ Times(s.heap) /\ DOMAIN s.active = W
         /\ \A i \in 1 .. Len(s.heap) :
              s.heap[i] \in Anhe(W) /\ s.heap[i].w \in W /\ s.heap[i].at \in Int
<1>1. s.heap \in Seq(Anhe(W)) /\ DOMAIN s.active = W
  BY DEF HeapState
<1>2. Len(s.heap) \in Nat /\ \A i \in 1 .. Len(s.heap) : s.heap[i] \in Anhe(W)
  <2> QED BY <1>1
<1> QED BY <1>1, <1>2 DEF Times, Anhe

LEMMA SameWatched ==
  ASSUME NEW g, NEW h, Elements(g) = Elements(h)
  PROVE  Watched(g) = Watched(h)
<1>1. \A i \in 1 .. Len(g) : \E j \in 1 .. Len(h) : g[i] = h[j]
  BY DEF Elements
<1>2. \A i \in 1 .. Len(h) : \E j \in 1 .. Len(g) : h[i] = g[j]
  BY DEF Elements
<1>3. Watched(g) \subseteq Watched(h)
  BY <1>1 DEF Watched
<1>4. Watched(h) \subseteq Watched(g)
  BY <1>2 DEF Watched
<1> QED BY <1>3, <1>4

LEMMA ShiftRearranges ==
  ASSUME NEW W, NEW s, HeapState(s, W), NEW path, IsPath(s.heap, path),
         IndexedBut(s, path[1]), NEW t, t = Shift(s, path)
  PROVE  Rearranged(s, t, W) /\ Moves(s.heap, t.heap, path)
<1>1. /\ HeapState(t, W)
      /\ Moves(s.heap, t.heap, path)
      /\ Elements(t.heap) = Elements(s.heap)
      /\ \A j \in 1 .. Len(path) : t.active[t.heap[path[j]].w] = path[j]
      /\ \A w \in W : (\A j \in 1 .. Len(path) : t.heap[path[j]].w # w)
              => t.active[w] = s.active[w]
  BY ShiftMoves
<1>2. /\ Len(t.heap) = Len(s.heap) /\ Len(path) \in Nat /\ Len(path) >= 1
      /\ \A j \in 1 .. Len(path) : path[j] \in 1 .. Len(t.heap)
  BY <1>1 DEF Moves, IsPath
<1>3. ASSUME NEW i \in 1 .. Len(t.heap) PROVE t.active[t.heap[i].w] = i
  <2>1. CASE \E j \in 1 .. Len(path) : path[j] = i
    BY <1>1, <2>1
  <2>2. CASE \A j \in 1 .. Len(path) : path[j] # i
    <3>1. t.heap[i] = s.heap[i] /\ i # path[1]
      <4>1. i \in 1 .. Len(s.heap) /\ 1 \in 1 .. Len(path)
        BY <1>2
      <4> QED BY <1>1, <2>2, <4>1 DEF Moves
    <3>2. t.heap[i].w \in W
      BY <1>1, ElementTypes
    <3>3. \A j \in 1 .. Len(path) : t.heap[path[j]].w # t.heap[i].w
      BY <1>1, <1>2, <2>2 DEF HeapState
    <3>4. t.active[t.heap[i].w] = s.active[s.heap[i].w]
      BY <1>1, <3>1, <3>2, <3>3
    <3> QED BY <1>2, <3>1, <3>4 DEF IndexedBut
  <2> QED BY <2>1, <2>2
<1>4. ASSUME NEW w \in W \ Watched(s.heap) PROVE t.active[w] = s.active[w]
  <2>1. w \notin Watched(t.heap)
    BY <1>1, SameWatched
  <2>2. \A j \in 1 .. Len(path) : t.heap[path[j]].w # w
    BY <1>2, <2>1 DEF Watched
  <2> QED BY <1>1, <2>2
<1> QED BY <1>1, <1>2, <1>3, <1>4 DEF Rearranged, Indexed

LEMMA UpHeapDone ==
  ASSUME NEW W, NEW s, HeapState(s, W), NEW m \in 1 .. Len(s.heap), NEW k \in 1 .. m,
         IndexedBut(s, k), MayRise(s.heap, k, m), NEW t, t = UpHeap(s, k)
  PROVE  /\ Rearranged(s, t, W)
         /\ \A i \in 2 .. m : t.heap[Parent(i)].at <= t.heap[i].at
<1>1. Len(s.heap) \in Nat /\ Times(s.heap)
  BY ElementTypes
<1>2. k \in 1 .. Len(s.heap) /\ s.heap[k].at \in Int
  BY <1>1 DEF Times
<1> DEFINE p == Route(Up(s.heap, s.heap[k].at), k)
<1>3. IsPath(s.heap, p) /\ p[1] = k
  BY <1>1, <1>2, UpRoute DEF GoesUp
<1>4. t = Shift(s, p)
  BY DEF UpHeap
<1>5. Rearranged(s, t, W) /\ Moves(s.heap, t.heap, p)
  <2> HIDE DEF p
  <2> QED BY <1>3, <1>4, ShiftRearranges
<1>6. \A i \in 2 .. m : t.heap[Parent(i)].at <= t.heap[i].at
  BY <1>1, <1>5, UpOrders
<1> QED BY <1>5, <1>6

LEMMA DownHeapDone ==
  ASSUME NEW W, NEW s, HeapState(s, W), NEW k \in 1 .. Len(s.heap),
         IndexedBut(s, k), OrderedBut(s.heap, k),
         NotEarly(s.heap, k), NEW t, t = DownHeap(s, k)
  PROVE  Rearranged(s, t, W) /\ InHeapOrder(t.heap)
<1>1. Len(s.heap) \in Nat /\ Times(s.heap)
  BY ElementTypes
<1>2. s.heap[k].at \in Int
  BY <1>1 DEF Times
<1> DEFINE p == Route(Down(s.heap, s.heap[k].at), k)
<1>3. IsPath(s.heap, p) /\ p[1] = k
  BY <1>1, <1>2, DownRoute
<1>4. t = Shift(s, p)
  BY DEF DownHeap
<1>5. Rearranged(s, t, W) /\ Moves(s.heap, t.heap, p)
  <2> HIDE DEF p
  <2> QED BY <1>3, <1>4, ShiftRearranges
<1>6. InHeapOrder(t.heap)
  BY <1>1, <1>5, DownOrders
<1> QED BY <1>5, <1>6

LEMMA AdjustHeapDone ==
  ASSUME NEW W, NEW s, HeapState(s, W), NEW k \in 1 .. Len(s.heap),
         IndexedBut(s, k), OrderedBut(s.heap, k), NEW t, t = AdjustHeap(s, k)
  PROVE  Rearranged(s, t, W) /\ InHeapOrder(t.heap)
<1>1. Len(s.heap) \in Nat /\ Times(s.heap)
  BY ElementTypes
<1>2. s.heap[k].at \in Int
  BY <1>1 DEF Times
<1>3. ASSUME k # 1 PROVE Parent(k) \in 1 .. Len(s.heap) /\ s.heap[Parent(k)].at \in Int
  BY <1>1, <1>3, ParentIsBefore DEF Times
<1>4. CASE k > 1 /\ s.heap[k].at <= s.heap[Parent(k)].at
  <2>1. t = UpHeap(s, k)
    BY <1>4 DEF AdjustHeap
  <2>2. ASSUME NEW i \in 2 .. Len(s.heap), Parent(i) = k
        PROVE  s.heap[k].at <= s.heap[i].at
    <3>1. s.heap[Parent(k)].at <= s.heap[i].at
      BY <1>4, <2>2 DEF OrderedBut
    <3>2. s.heap[i].at \in Int
      BY <1>1 DEF Times
    <3> QED BY <1>2, <1>3, <1>4, <3>1, <3>2
  <2>3. MayRise(s.heap, k, Len(s.heap))
    BY <2>2 DEF MayRise, OrderedBut
  <2>4. Len(s.heap) \in 1 .. Len(s.heap) /\ k \in 1 .. Len(s.heap)
    BY <1>1
  <2>5. /\ Rearranged(s, t, W)
        /\ \A i \in 2 .. Len(s.heap) : t.heap[Parent(i)].at <= t.heap[i].at
    BY <2>1, <2>3, <2>4, UpHeapDone
  <2> QED BY <2>5 DEF Rearranged, InHeapOrder
<1>5. CASE ~(k > 1 /\ s.heap[k].at <= s.heap[Parent(k)].at)
  <2>1. t = DownHeap(s, k)
    BY <1>5 DEF AdjustHeap
  <2>2. NotEarly(s.heap, k)
    BY <1>2, <1>3, <1>5 DEF NotEarly
  <2> QED BY <2>1, <2>2, DownHeapDone
<1> QED BY <1>4, <1>5

-----------------------------------------------------------------------------
\* The operations

\* What verify_heap asserts: the indices are right, exactly the watchers of the
\* elements are active, and the elements are in order.
LEMMA HeapIsOK ==
  ASSUME NEW W, NEW s, HeapState(s, W)
  PROVE  HeapOK(s) <=> /\ Indexed(s) /\ InHeapOrder(s.heap)
                       /\ \A w \in W \ Watched(s.heap) : s.active[w] = 0
<1>1. /\ Len(s.heap) \in Nat /\ DOMAIN s.active = W
      /\ \A i \in 1 .. Len(s.heap) : s.heap[i].w \in W
  BY ElementTypes
<1>2. Ordered(s) <=> InHeapOrder(s.heap)
  BY DEF Ordered, InHeapOrder
<1>3. ASSUME Indexed(s), ActiveInHeap(s), NEW w \in W \ Watched(s.heap)
      PROVE  s.active[w] = 0
  BY <1>1, <1>3 DEF ActiveInHeap, Watched
<1>4. ASSUME Indexed(s), \A w \in W \ Watched(s.heap) : s.active[w] = 0
      PROVE  ActiveInHeap(s)
  <2> SUFFICES ASSUME NEW w \in W, s.active[w] # 0
               PROVE  s.active[w] \in 1 .. Len(s.heap) /\ s.heap[s.active[w]].w = w
    BY <1>1 DEF ActiveInHeap
  <2>1. w \in Watched(s.heap)
    BY <1>4
  <2>2. PICK i \in 1 .. Len(s.heap) : s.heap[i].w = w
    BY <2>1 DEF Watched
  <2> QED BY <1>4, <2>2 DEF Indexed
<1> QED BY <1>2, <1>3, <1>4 DEF HeapOK

\* The active watchers are those of the elements.
LEMMA ActiveAreWatched ==
  ASSUME NEW W, NEW s, HeapState(s, W), HeapOK(s)
  PROVE  \A w \in W : s.active[w] # 0 <=> \E e \in Elements(s.heap) : e.w = w
<1>1. Indexed(s) /\ \A w \in W \ Watched(s.heap) : s.active[w] = 0
  BY HeapIsOK
<1>2. Len(s.heap) \in Nat
  BY ElementTypes
<1> SUFFICES ASSUME NEW w \in W
             PROVE  s.active[w] # 0 <=> \E e \in Elements(s.heap) : e.w = w
  OBVIOUS
<1>3. w \in Watched(s.heap) <=> \E e \in Elements(s.heap) : e.w = w
  BY DEF Watched, Elements
<1>4. w \in Watched(s.heap) => s.active[w] # 0
  BY <1>1, <1>2 DEF Watched, Indexed
<1> QED BY <1>1, <1>3, <1>4

\* The element in the first place is the earliest, all that timers_reify and
\* the computation of the time to block look at.
THEOREM FirstIsEarliest ==
  ASSUME NEW h, Len(h) \in Nat, Times(h), InHeapOrder(h)
  PROVE  \A i \in 1 .. Len(h) : h[1].at <= h[i].at
<1> DEFINE X == {n \in Nat : \A i \in 1 .. Len(h) : i <= n => h[1].at <= h[i].at}
<1>1. 0 \in X
  OBVIOUS
<1>2. ASSUME NEW n \in Nat, n \in X PROVE n + 1 \in X
  <2> SUFFICES ASSUME NEW i \in 1 .. Len(h), i <= n + 1
               PROVE  h[1].at <= h[i].at
    OBVIOUS
  <2>1. h[i].at \in Int
    BY DEF Times
  <2>2. CASE i = 1
    BY <2>1, <2>2
  <2>3. CASE i # 1
    <3>1. Parent(i) \in 1 .. i - 1
      BY <2>3, ParentIsBefore
    <3>2. Parent(i) \in 1 .. Len(h) /\ Parent(i) <= n
      BY <3>1
    <3>3. h[1].at <= h[Parent(i)].at /\ h[Parent(i)].at <= h[i].at
      BY <1>2, <2>3, <3>2 DEF InHeapOrder
    <3>4. h[1].at \in Int /\ h[Parent(i)].at \in Int
      BY <3>2 DEF Times
    <3> QED BY <2>1, <3>3, <3>4
  <2> QED BY <2>2, <2>3
<1>3. \A n \in Nat : n \in X
  <2> HIDE DEF X
  <2> QED BY <1>1, <1>2, InductOnNat
<1> QED BY <1>3

\* r is s with the element e in place k.
IsReplaced(s, r, k, e) ==
  r = [heap |-> [s.heap EXCEPT ![k] = e], active |-> s.active]

LEMMA Replaced ==
  ASSUME NEW W, NEW s, HeapState(s, W), NEW k \in 1 .. Len(s.heap),
         IndexedBut(s, k), InHeapOrder(s.heap), NEW e \in Anhe(W),
         \A i \in 1 .. Len(s.heap) : i # k => s.heap[i].w # e.w,
         NEW r, IsReplaced(s, r, k, e)
  PROVE  /\ HeapState(r, W) /\ IndexedBut(r, k) /\ OrderedBut(r.heap, k)
         /\ r.active = s.active /\ Len(r.heap) = Len(s.heap) /\ r.heap[k] = e
         /\ \A i \in 1 .. Len(s.heap) : i # k => r.heap[i] = s.heap[i]
<1>1. s \in [heap : Seq(Anhe(W)), active : [W -> Nat]]
  BY DEF HeapState
<1>2. /\ Len(s.heap) \in Nat /\ Times(s.heap)
      /\ \A i \in 1 .. Len(s.heap) : s.heap[i].w \in W
  BY ElementTypes
<1>3. /\ r.heap = [s.heap EXCEPT ![k] = e] /\ r.active = s.active
      /\ r = [heap |-> r.heap, active |-> r.active]
  BY <1>1 DEF IsReplaced
<1>4. /\ r.heap \in Seq(Anhe(W)) /\ Len(r.heap) = Len(s.heap) /\ r.heap[k] = e
      /\ \A i \in 1 .. Len(s.heap) : i # k => r.heap[i] = s.heap[i]
  BY <1>1, <1>3
<1>5. \A i, j \in 1 .. Len(r.heap) : r.heap[i].w = r.heap[j].w => i = j
  BY <1>4 DEF HeapState
<1>6. r \in [heap : Seq(Anhe(W)), active : [W -> Nat]]
  BY <1>1, <1>3, <1>4
<1>7. HeapState(r, W)
  BY <1>5, <1>6 DEF HeapState
<1>8. IndexedBut(r, k)
  BY <1>3, <1>4 DEF IndexedBut
<1>9. OrderedBut(r.heap, k)
  <2> SUFFICES ASSUME NEW i \in 2 .. Len(s.heap)
               PROVE  /\ i # k /\ Parent(i) # k => r.heap[Parent(i)].at <= r.heap[i].at
                      /\ k # 1 /\ Parent(i) = k => r.heap[Parent(k)].at <= r.heap[i].at
    BY <1>4 DEF OrderedBut
  <2>1. Parent(i) \in 1 .. i - 1 /\ Parent(i) \in 1 .. Len(s.heap) /\ i \in 1 .. Len(s.heap)
    BY <1>2, ParentIsBefore
  <2>2. s.heap[Parent(i)].at <= s.heap[i].at
    BY DEF InHeapOrder
  <2>3. ASSUME i # k, Parent(i) # k PROVE r.heap[Parent(i)].at <= r.heap[i].at
    BY <1>4, <2>1, <2>2, <2>3
  <2>4. ASSUME k # 1, Parent(i) = k PROVE r.heap[Parent(k)].at <= r.heap[i].at
    <3>1. k \in 2 .. Len(s.heap) /\ Parent(k) \in 1 .. k - 1
      BY <1>2, <2>4, ParentIsBefore
    <3>2. s.heap[Parent(k)].at <= s.heap[k].at
      BY <3>1 DEF InHeapOrder
    <3>3. Parent(k) \in 1 .. Len(s.heap) /\ Parent(k) # k /\ i # k
      BY <2>1, <2>4, <3>1
    <3>4. s.heap[Parent(k)].at \in Int /\ s.heap[k].at \in Int /\ s.heap[i].at \in Int
      BY <1>2, <2>1, <3>3 DEF Times
    <3>5. r.heap[Parent(k)] = s.heap[Parent(k)] /\ r.heap[i] = s.heap[i]
      BY <1>4, <2>1, <3>3
    <3>6. s.heap[k].at <= s.heap[i].at
      BY <2>2, <2>4
    <3> QED BY <3>2, <3>4, <3>5, <3>6
  <2> QED BY <2>3, <2>4
<1> QED BY <1>3, <1>4, <1>7, <1>8, <1>9

\* A started timer or periodic is in the heap with its time, and the others
\* stay there with theirs.
THEOREM InsertDone ==
  ASSUME NEW W, NEW s, HeapState(s, W), HeapOK(s), NEW w \in W, s.active[w] = 0,
         NEW at \in Int, NEW t, t = Insert(s, w, at)
  PROVE  /\ HeapState(t, W) /\ HeapOK(t)
         /\ Elements(t.heap) = Elements(s.heap) \cup {[w |-> w, at |-> at]}
<1> DEFINE e == [w |-> w, at |-> at]
           n == Len(s.heap) + 1
           r == [heap |-> Append(s.heap, e), active |-> [s.active EXCEPT ![w] = n]]
<1>1. /\ Len(s.heap) \in Nat /\ DOMAIN s.active = W /\ s.active \in [W -> Nat]
      /\ \A i \in 1 .. Len(s.heap) : s.heap[i].w \in W
  BY ElementTypes DEF HeapState
<1>2. /\ Indexed(s) /\ InHeapOrder(s.heap)
      /\ \A x \in W \ Watched(s.heap) : s.active[x] = 0
  BY HeapIsOK
<1>3. \A i \in 1 .. Len(s.heap) : s.heap[i].w # w
  BY <1>1, <1>2 DEF Indexed
<1>4. t = UpHeap(r, n)
  BY DEF Insert
<1>5. s.heap \in Seq(Anhe(W)) /\ e \in Anhe(W)
  BY DEF HeapState, Anhe
<1>6. /\ r.heap \in Seq(Anhe(W)) /\ Len(r.heap) = n /\ r.heap[n] = e
      /\ \A i \in 1 .. Len(s.heap) : r.heap[i] = s.heap[i]
  <2> HIDE DEF e
  <2> QED BY <1>1, <1>5
<1>7. r.active = [s.active EXCEPT ![w] = n] /\ r.active \in [W -> Nat]
  BY <1>1
<1>8. r \in [heap : Seq(Anhe(W)), active : [W -> Nat]]
  <2>1. r = [heap |-> r.heap, active |-> r.active]
    OBVIOUS
  <2> HIDE DEF r
  <2> QED BY <1>6, <1>7, <2>1
<1>9. n \in Nat /\ n \in 1 .. n /\ e.w = w
  BY <1>1
<1> HIDE DEF r, e, n
<1>10. \A i \in 1 .. n : i \in 1 .. Len(s.heap) \/ i = n
  BY <1>1 DEF n
<1>11. \A i, j \in 1 .. n : r.heap[i].w = r.heap[j].w => i = j
  <2>1. \A i, j \in 1 .. Len(s.heap) : s.heap[i].w = s.heap[j].w => i = j
    BY DEF HeapState
  <2>2. \A i, j \in 1 .. Len(s.heap) : r.heap[i].w = r.heap[j].w => i = j
    BY <1>6, <2>1
  <2>3. \A i \in 1 .. Len(s.heap) : r.heap[i].w # r.heap[n].w
    BY <1>3, <1>6, <1>9
  <2> QED BY <1>10, <2>2, <2>3
<1>12. HeapState(r, W)
  BY <1>6, <1>8, <1>11 DEF HeapState
<1>13. IndexedBut(r, n)
  <2> SUFFICES ASSUME NEW i \in 1 .. n, i # n PROVE r.active[r.heap[i].w] = i
    BY <1>6 DEF IndexedBut
  <2>1. i \in 1 .. Len(s.heap) /\ r.heap[i] = s.heap[i]
    BY <1>6, <1>10
  <2>2. s.active[s.heap[i].w] = i
    BY <1>2, <2>1 DEF Indexed
  <2> QED BY <1>1, <1>3, <1>7, <2>1, <2>2
<1>14. MayRise(r.heap, n, n)
  <2> SUFFICES ASSUME NEW i \in 2 .. n
               PROVE  /\ i # n /\ Parent(i) # n => r.heap[Parent(i)].at <= r.heap[i].at
                      /\ Parent(i) # n
    BY DEF MayRise
  <2>1. Parent(i) \in 1 .. i - 1 /\ i \in Nat
    BY <1>9, ParentIsBefore
  <2>2. Parent(i) # n
    BY <1>9, <2>1
  <2>3. ASSUME i # n PROVE r.heap[Parent(i)].at <= r.heap[i].at
    <3>1. i \in 1 .. Len(s.heap) /\ i \in 2 .. Len(s.heap) /\ Parent(i) \in 1 .. Len(s.heap)
      BY <1>1, <2>1, <2>3 DEF n
    <3>2. s.heap[Parent(i)].at <= s.heap[i].at
      BY <1>2, <3>1 DEF InHeapOrder
    <3> QED BY <1>6, <3>1, <3>2
  <2> QED BY <2>2, <2>3
<1>15. /\ Rearranged(r, t, W)
       /\ \A i \in 2 .. n : t.heap[Parent(i)].at <= t.heap[i].at
  BY <1>4, <1>6, <1>9, <1>12, <1>13, <1>14, UpHeapDone
<1>16. Elements(t.heap) = Elements(s.heap) \cup {e}
  <2>1. Elements(r.heap) \subseteq Elements(s.heap) \cup {e}
    BY <1>6, <1>10 DEF Elements
  <2>2. Elements(s.heap) \subseteq Elements(r.heap)
    <3>1. \A i \in 1 .. Len(s.heap) : i \in 1 .. n
      BY <1>1 DEF n
    <3> QED BY <1>6, <3>1 DEF Elements
  <2>3. e \in Elements(r.heap)
    BY <1>6, <1>9 DEF Elements
  <2> QED BY <1>15, <2>1, <2>2, <2>3 DEF Rearranged
<1>17. HeapState(t, W) /\ Indexed(t) /\ InHeapOrder(t.heap)
  BY <1>6, <1>15 DEF Rearranged, InHeapOrder
<1>18. ASSUME NEW x \in W \ Watched(t.heap) PROVE t.active[x] = 0
  <2>1. Watched(t.heap) = Watched(r.heap)
    BY <1>15, SameWatched DEF Rearranged
  <2>2. x # w
    BY <1>6, <1>9, <2>1 DEF Watched
  <2>3. x \notin Watched(s.heap)
    <3>1. \A i \in 1 .. Len(s.heap) : i \in 1 .. n
      BY <1>1 DEF n
    <3> QED BY <1>6, <2>1, <3>1 DEF Watched
  <2>4. t.active[x] = r.active[x]
    BY <1>15, <2>1 DEF Rearranged
  <2> QED BY <1>1, <1>2, <1>7, <2>2, <2>3, <2>4
<1>19. HeapOK(t)
  BY <1>17, <1>18, HeapIsOK
<1> QED BY <1>16, <1>17, <1>19 DEF e

\* ANHE_at_cache
Retimed(s, k, at) == [s EXCEPT !.heap[k].at = at]

\* An element that gets another time, followed by what puts it in its place
LEMMA RetimedDone ==
  ASSUME NEW W, NEW s, HeapState(s, W), HeapOK(s), NEW k \in 1 .. Len(s.heap),
         NEW at \in Int, NEW t,
         \/ t = AdjustHeap(Retimed(s, k, at), k)
         \/ t = DownHeap(Retimed(s, k, at), k) /\ k = 1
  PROVE  /\ HeapState(t, W) /\ HeapOK(t)
         /\ Elements(t.heap) = {x \in Elements(s.heap) : x.w # s.heap[k].w}
                                 \cup {[w |-> s.heap[k].w, at |-> at]}
<1> DEFINE v == s.heap[k].w
           e == [w |-> v, at |-> at]
           r == Retimed(s, k, at)
<1>1. /\ Len(s.heap) \in Nat /\ DOMAIN s.active = W
      /\ s.heap[k] \in Anhe(W) /\ v \in W
  BY ElementTypes
<1>2. /\ Indexed(s) /\ InHeapOrder(s.heap)
      /\ \A x \in W \ Watched(s.heap) : s.active[x] = 0
  BY HeapIsOK
<1>3. e \in Anhe(W) /\ e.w = v
  BY <1>1 DEF Anhe
<1>4. IsReplaced(s, r, k, e)
  <2>1. [s.heap[k] EXCEPT !.at = at] = e
    BY <1>1 DEF Anhe
  <2> HIDE DEF e
  <2> DEFINE g == [s.heap EXCEPT ![k] = e]
  <2>2. r = [s EXCEPT !.heap = g]
    BY <2>1 DEF r, Retimed
  <2> HIDE DEF g
  <2>3. s \in [heap : Seq(Anhe(W)), active : [W -> Nat]]
    BY DEF HeapState
  <2>4. r = [heap |-> g, active |-> s.active]
    BY <2>2, <2>3
  <2> QED BY <2>4 DEF g, IsReplaced
<1> HIDE DEF e, r
<1>5. \A i \in 1 .. Len(s.heap) : i # k => s.heap[i].w # e.w
  BY <1>3 DEF HeapState
<1>6. IndexedBut(s, k)
  BY <1>2 DEF Indexed, IndexedBut
<1>7. /\ HeapState(r, W) /\ IndexedBut(r, k) /\ OrderedBut(r.heap, k)
      /\ r.active = s.active /\ Len(r.heap) = Len(s.heap) /\ r.heap[k] = e
      /\ \A i \in 1 .. Len(s.heap) : i # k => r.heap[i] = s.heap[i]
  BY <1>2, <1>3, <1>4, <1>5, <1>6, Replaced
<1>8. Rearranged(r, t, W) /\ InHeapOrder(t.heap)
  <2>1. CASE t = AdjustHeap(r, k)
    BY <1>7, <2>1, AdjustHeapDone DEF r
  <2>2. CASE t = DownHeap(r, k) /\ k = 1
    <3>1. t = DownHeap(r, k)
      BY <2>2 DEF r
    <3>2. NotEarly(r.heap, k)
      BY <2>2 DEF NotEarly
    <3> QED BY <1>7, <3>1, <3>2, DownHeapDone
  <2> QED BY <2>1, <2>2 DEF r
<1>9. Elements(t.heap) = {x \in Elements(s.heap) : x.w # v} \cup {e}
  <2>1. Elements(r.heap) \subseteq {x \in Elements(s.heap) : x.w # v} \cup {e}
    <3> SUFFICES ASSUME NEW i \in 1 .. Len(s.heap)
                 PROVE  r.heap[i] \in {x \in Elements(s.heap) : x.w # v} \cup {e}
      BY <1>7 DEF Elements
    <3>1. CASE i = k
      BY <1>7, <3>1
    <3>2. CASE i # k
      BY <1>3, <1>5, <1>7, <3>2 DEF Elements
    <3> QED BY <3>1, <3>2
  <2>2. {x \in Elements(s.heap) : x.w # v} \subseteq Elements(r.heap)
    BY <1>7 DEF Elements
  <2>3. e \in Elements(r.heap)
    BY <1>7 DEF Elements
  <2> QED BY <1>8, <2>1, <2>2, <2>3 DEF Rearranged
<1>10. ASSUME NEW x \in W \ Watched(t.heap) PROVE t.active[x] = 0
  <2>1. Watched(t.heap) = Watched(r.heap)
    BY <1>8, SameWatched DEF Rearranged
  <2>2. \A i \in 1 .. Len(s.heap) : r.heap[i].w = s.heap[i].w
    BY <1>3, <1>7
  <2>3. x \notin Watched(s.heap)
    <3>1. Watched(r.heap) = Watched(s.heap)
      BY <1>7, <2>2 DEF Watched
    <3> QED BY <2>1, <3>1
  <2> QED BY <1>2, <1>7, <1>8, <2>1, <2>3 DEF Rearranged
<1>11. HeapState(t, W) /\ HeapOK(t)
  BY <1>8, <1>10, HeapIsOK DEF Rearranged
<1> QED BY <1>9, <1>11 DEF e

\* An active timer or periodic that gets another time
THEOREM SetAtDone ==
  ASSUME NEW W, NEW s, HeapState(s, W), HeapOK(s), NEW w \in W, s.active[w] # 0,
         NEW at \in Int, NEW t, t = SetAt(s, w, at)
  PROVE  /\ HeapState(t, W) /\ HeapOK(t)
         /\ Elements(t.heap) = {x \in Elements(s.heap) : x.w # w} \cup {[w |-> w, at |-> at]}
<1> DEFINE k == s.active[w]
<1>1. k \in 1 .. Len(s.heap) /\ s.heap[k].w = w
  BY ElementTypes DEF HeapOK, ActiveInHeap
<1>2. t = AdjustHeap(Retimed(s, k, at), k)
  BY DEF SetAt, Retimed
<1> HIDE DEF k
<1>3. /\ HeapState(t, W) /\ HeapOK(t)
      /\ Elements(t.heap) = {x \in Elements(s.heap) : x.w # s.heap[k].w}
                              \cup {[w |-> s.heap[k].w, at |-> at]}
  BY <1>1, <1>2, RetimedDone
<1> QED BY <1>1, <1>3

\* A stopped timer or periodic is out of the heap, and the others stay there
\* with their times.
THEOREM DeleteDone ==
  ASSUME NEW W, NEW s, HeapState(s, W), HeapOK(s), NEW w \in W, s.active[w] # 0,
         NEW t, t = Delete(s, w)
  PROVE  /\ HeapState(t, W) /\ HeapOK(t)
         /\ Elements(t.heap) = {x \in Elements(s.heap) : x.w # w}
<1> DEFINE k == s.active[w]
           n == Len(s.heap) - 1
           rest == [s EXCEPT !.heap = SubSeq(@, 1, n)]
           e == s.heap[n + 1]
           r == [rest EXCEPT !.heap[k] = e]
           u == IF k <= n THEN AdjustHeap(r, k) ELSE rest
<1>1. /\ Len(s.heap) \in Nat /\ DOMAIN s.active = W /\ s.active \in [W -> Nat]
      /\ \A i \in 1 .. Len(s.heap) : s.heap[i].w \in W /\ s.heap[i] \in Anhe(W)
  BY ElementTypes DEF HeapState
<1>2. k \in 1 .. Len(s.heap) /\ s.heap[k].w = w /\ k \in Nat
  BY <1>1 DEF HeapOK, ActiveInHeap
<1>3. /\ Indexed(s) /\ InHeapOrder(s.heap)
      /\ \A x \in W \ Watched(s.heap) : s.active[x] = 0
  BY HeapIsOK
<1>4. s \in [heap : Seq(Anhe(W)), active : [W -> Nat]]
  BY DEF HeapState
<1>5. t = [u EXCEPT !.active[w] = 0]
  BY DEF Delete
<1>6. \A i, j \in 1 .. Len(s.heap) : s.heap[i].w = s.heap[j].w => i = j
  BY DEF HeapState
<1> HIDE DEF k, u, r
<1>7. n \in Nat /\ n + 1 \in 1 .. Len(s.heap) /\ n + 1 = Len(s.heap)
  BY <1>1, <1>2
<1>8. /\ rest.active = s.active /\ rest.heap = SubSeq(s.heap, 1, n)
      /\ rest = [heap |-> rest.heap, active |-> rest.active]
  <2>1. rest = [heap |-> SubSeq(s.heap, 1, n), active |-> s.active]
    <3> DEFINE first == SubSeq(s.heap, 1, n)
    <3>1. rest = [s EXCEPT !.heap = first]
      OBVIOUS
    <3> HIDE DEF first, n, rest
    <3>2. rest = [heap |-> first, active |-> s.active]
      BY <1>4, <3>1
    <3> QED BY <3>2 DEF first
  <2> HIDE DEF rest, n
  <2> QED BY <2>1
<1> HIDE DEF rest
<1>9. /\ rest.heap \in Seq(Anhe(W)) /\ Len(rest.heap) = n
      /\ \A i \in 1 .. n : rest.heap[i] = s.heap[i] /\ i \in 1 .. Len(s.heap)
  <2>1. s.heap \in Seq(Anhe(W)) /\ n \in 0 .. Len(s.heap)
    BY <1>4, <1>7
  <2> HIDE DEF n
  <2> QED BY <1>7, <1>8, <2>1
<1> HIDE DEF n, e
<1>10. \A i \in 1 .. Len(s.heap) : i \in 1 .. n \/ i = n + 1
  BY <1>7
<1>11. HeapState(rest, W)
  <2>1. \A i, j \in 1 .. n : rest.heap[i].w = rest.heap[j].w => i = j
    BY <1>6, <1>9
  <2>2. rest \in [heap : Seq(Anhe(W)), active : [W -> Nat]]
    BY <1>1, <1>8, <1>9
  <2> QED BY <1>9, <2>1, <2>2 DEF HeapState
<1>12. IndexedBut(rest, k) /\ InHeapOrder(rest.heap)
  <2>1. IndexedBut(rest, k)
    BY <1>3, <1>8, <1>9 DEF IndexedBut, Indexed
  <2> SUFFICES ASSUME NEW i \in 2 .. n
               PROVE  rest.heap[Parent(i)].at <= rest.heap[i].at
    BY <1>9, <2>1 DEF InHeapOrder
  <2>2. Parent(i) \in 1 .. i - 1 /\ i \in 1 .. n
    BY <1>7, ParentIsBefore
  <2>3. Parent(i) \in 1 .. n /\ i \in 2 .. Len(s.heap)
    BY <1>7, <2>2
  <2> QED BY <1>3, <1>9, <2>2, <2>3 DEF InHeapOrder
<1>13. /\ HeapState(u, W) /\ Len(u.heap) = n /\ Indexed(u) /\ InHeapOrder(u.heap)
       /\ Elements(u.heap) = {x \in Elements(s.heap) : x.w # w}
       /\ \A x \in W \ Watched(u.heap) : u.active[x] = s.active[x]
  <2>1. CASE k <= n
    <3>1. k \in 1 .. n /\ k # n + 1 /\ e \in Anhe(W)
      BY <1>1, <1>2, <1>7, <2>1 DEF e
    <3>2. \A i \in 1 .. n : i # k => rest.heap[i].w # e.w
      <4>1. \A i \in 1 .. n : i # n + 1
        BY <1>7
      <4> QED BY <1>6, <1>7, <1>9, <4>1 DEF e
    <3>3. IsReplaced(rest, r, k, e)
      <4>1. r = [rest EXCEPT !.heap[k] = e]
        BY DEF r
      <4> QED BY <1>11, <4>1 DEF IsReplaced, HeapState
    <3>4. /\ HeapState(r, W) /\ IndexedBut(r, k) /\ OrderedBut(r.heap, k)
          /\ r.active = rest.active /\ Len(r.heap) = n /\ r.heap[k] = e
          /\ \A i \in 1 .. n : i # k => r.heap[i] = rest.heap[i]
      BY <1>9, <1>11, <1>12, <3>1, <3>2, <3>3, Replaced
    <3>5. u = AdjustHeap(r, k)
      BY <2>1 DEF u
    <3>6. Rearranged(r, u, W) /\ InHeapOrder(u.heap)
      BY <3>1, <3>4, <3>5, AdjustHeapDone
    <3>7. Elements(r.heap) = {x \in Elements(s.heap) : x.w # w}
      <4>1. ASSUME NEW i \in 1 .. n
            PROVE  r.heap[i] \in Elements(s.heap) /\ r.heap[i].w # w
        <5>1. CASE i = k
          <6>1. e \in Elements(s.heap)
            BY <1>7 DEF Elements, e
          <6>2. e.w # w
            BY <1>2, <1>6, <1>7, <3>1 DEF e
          <6> QED BY <3>4, <5>1, <6>1, <6>2
        <5>2. CASE i # k
          <6>1. r.heap[i] = s.heap[i] /\ i \in 1 .. Len(s.heap)
            BY <1>9, <3>4, <5>2
          <6> QED BY <1>2, <1>6, <5>2, <6>1 DEF Elements
        <5> QED BY <5>1, <5>2
      <4>2. ASSUME NEW i \in 1 .. Len(s.heap), s.heap[i].w # w
            PROVE  s.heap[i] \in Elements(r.heap)
        <5>1. i # k
          BY <1>2, <4>2
        <5>2. CASE i = n + 1
          BY <3>1, <3>4, <5>2 DEF Elements, e
        <5>3. CASE i # n + 1
          <6>1. i \in 1 .. n
            BY <1>10, <5>3
          <6> QED BY <1>9, <3>4, <5>1, <6>1 DEF Elements
        <5> QED BY <5>2, <5>3
      <4>3. Elements(r.heap) \subseteq {x \in Elements(s.heap) : x.w # w}
        BY <3>4, <4>1 DEF Elements
      <4>4. {x \in Elements(s.heap) : x.w # w} \subseteq Elements(r.heap)
        <5> HIDE DEF Elements
        <5>1. \A x \in Elements(s.heap) : \E i \in 1 .. Len(s.heap) : x = s.heap[i]
          BY DEF Elements
        <5> QED BY <4>2, <5>1
      <4> QED BY <4>3, <4>4
    <3>8. Watched(u.heap) = Watched(r.heap)
      BY <3>6, SameWatched DEF Rearranged
    <3> QED BY <1>8, <3>4, <3>6, <3>7, <3>8 DEF Rearranged
  <2>2. CASE ~(k <= n)
    <3>1. k = n + 1 /\ u = rest
      BY <1>2, <1>7, <2>2 DEF u
    <3>2. \A i \in 1 .. n : i # k
      BY <1>7, <3>1
    <3>3. Indexed(rest)
      BY <1>9, <1>12, <3>2 DEF IndexedBut, Indexed
    <3>4. Elements(rest.heap) \subseteq {x \in Elements(s.heap) : x.w # w}
      BY <1>2, <1>6, <1>9, <3>2 DEF Elements
    <3>5. {x \in Elements(s.heap) : x.w # w} \subseteq Elements(rest.heap)
      <4>1. \A i \in 1 .. Len(s.heap) : s.heap[i].w # w => i \in 1 .. n
        BY <1>2, <1>10, <3>1
      <4> QED BY <1>9, <4>1 DEF Elements
    <3> QED BY <1>8, <1>9, <1>11, <1>12, <3>1, <3>3, <3>4, <3>5
  <2> QED BY <2>1, <2>2
<1>14. u \in [heap : Seq(Anhe(W)), active : [W -> Nat]]
  BY <1>13 DEF HeapState
<1>15. /\ t.heap = u.heap /\ t.active = [u.active EXCEPT ![w] = 0]
       /\ t = [heap |-> t.heap, active |-> t.active]
  BY <1>5, <1>14
<1>16. w \notin Watched(t.heap)
  <2>1. \A i \in 1 .. Len(u.heap) : u.heap[i] \in Elements(u.heap)
    BY DEF Elements
  <2>2. \A i \in 1 .. Len(u.heap) : u.heap[i].w # w
    BY <1>13, <2>1
  <2> QED BY <1>15, <2>2 DEF Watched
<1>17. HeapState(t, W)
  <2>1. t.active \in [W -> Nat] /\ t.heap \in Seq(Anhe(W))
    BY <1>14, <1>15
  <2>2. \A i, j \in 1 .. Len(t.heap) : t.heap[i].w = t.heap[j].w => i = j
    BY <1>13, <1>15 DEF HeapState
  <2>3. t \in [heap : Seq(Anhe(W)), active : [W -> Nat]]
    BY <1>15, <2>1
  <2> QED BY <2>2, <2>3 DEF HeapState
<1>18. Indexed(t)
  <2> SUFFICES ASSUME NEW i \in 1 .. Len(t.heap) PROVE t.active[t.heap[i].w] = i
    BY DEF Indexed
  <2>1. t.heap[i].w # w
    BY <1>16 DEF Watched
  <2>2. u.active[u.heap[i].w] = i /\ u.heap[i].w \in W
    BY <1>13, <1>15, ElementTypes DEF Indexed
  <2> QED BY <1>14, <1>15, <2>1, <2>2
<1>19. ASSUME NEW x \in W \ Watched(t.heap) PROVE t.active[x] = 0
  <2>1. CASE x = w
    BY <1>14, <1>15, <2>1
  <2>2. CASE x # w
    <3>1. t.active[x] = s.active[x]
      BY <1>13, <1>14, <1>15, <2>2
    <3>2. x \notin Watched(s.heap)
      <4> SUFFICES ASSUME NEW i \in 1 .. Len(s.heap), s.heap[i].w = x PROVE FALSE
        BY DEF Watched
      <4>1. s.heap[i] \in Elements(u.heap)
        BY <1>13, <2>2 DEF Elements
      <4>2. PICK j \in 1 .. Len(u.heap) : s.heap[i] = u.heap[j]
        BY <4>1 DEF Elements
      <4> QED BY <1>15, <4>2 DEF Watched
    <3> QED BY <1>3, <3>1, <3>2
  <2> QED BY <2>1, <2>2
<1>20. HeapOK(t)
  BY ZenonT(40), <1>13, <1>15, <1>17, <1>18, <1>19, HeapIsOK
<1> QED BY <1>13, <1>15, <1>17, <1>20

\* reheap, which the rescheduling of all periodics ends with: it puts elements
\* with any times in order.
THEOREM ReHeapDone ==
  ASSUME NEW W, NEW s, HeapState(s, W), Indexed(s),
         \A w \in W \ Watched(s.heap) : s.active[w] = 0, NEW t, t = ReHeap(s)
  PROVE  HeapState(t, W) /\ HeapOK(t) /\ Elements(t.heap) = Elements(s.heap)
<1> DEFINE N == Len(s.heap)
           Step(g, n) == IF n = 0 THEN s ELSE UpHeap(g[n - 1], n)
           X == {m \in Nat : \E g : g = [n \in 0 .. m |-> Step(g, n)]}
<1>1. N \in Nat
  BY ElementTypes
<1>2. 0 \in X
  <2> DEFINE g == [n \in 0 .. 0 |-> s]
  <2>1. g = [n \in 0 .. 0 |-> Step(g, n)]
    OBVIOUS
  <2> QED BY <2>1
<1>3. ASSUME NEW m \in Nat, m \in X PROVE m + 1 \in X
  <2>1. PICK g : g = [n \in 0 .. m |-> Step(g, n)]
    BY <1>3
  <2> DEFINE h == [n \in 0 .. m + 1 |-> Step(g, n)]
  <2>2. ASSUME NEW n \in 0 .. m + 1 PROVE Step(h, n) = Step(g, n)
    <3>1. CASE n = 0
      BY <3>1
    <3>2. CASE n # 0
      <4>1. n - 1 \in 0 .. m /\ n - 1 \in 0 .. m + 1
        BY <3>2
      <4>2. h[n - 1] = g[n - 1]
        BY <2>1, <4>1
      <4> HIDE DEF h
      <4> QED BY <3>2, <4>2
    <3> QED BY <3>1, <3>2
  <2>3. h = [n \in 0 .. m + 1 |-> Step(h, n)]
    <3>1. \A n \in 0 .. m + 1 : Step(h, n) = Step(g, n)
      BY <2>2
    <3>2. h = [n \in 0 .. m + 1 |-> Step(g, n)]
      OBVIOUS
    <3> HIDE DEF h, Step
    <3> QED BY <3>1, <3>2
  <2>4. \E f : f = [n \in 0 .. m + 1 |-> Step(f, n)]
    <3> HIDE DEF h
    <3> WITNESS h
    <3> QED BY <2>3
  <2> HIDE DEF Step
  <2> QED BY <2>4
<1>4. N \in X
  <2>1. \A m \in Nat : m \in X
    <3> HIDE DEF X
    <3> QED BY <1>2, <1>3, InductOnNat
  <2> HIDE DEF X
  <2> QED BY <1>1, <2>1
<1> DEFINE up == CHOOSE g : g = [n \in 0 .. N |-> Step(g, n)]
<1>5. up = [n \in 0 .. N |-> Step(up, n)]
  BY <1>4
<1>6. t = up[N]
  BY DEF ReHeap
<1> HIDE DEF up, X
<1>7. up[0] = s /\ \A n \in 1 .. N : up[n] = UpHeap(up[n - 1], n)
  <2> HIDE DEF Step
  <2>1. \A n \in 0 .. N : up[n] = Step(up, n)
    BY <1>5
  <2>2. 0 \in 0 .. N /\ \A n \in 1 .. N : n \in 0 .. N /\ n # 0
    BY <1>1
  <2> QED BY <2>1, <2>2 DEF Step
<1> DEFINE Done(u, m) ==
             /\ Rearranged(s, u, W)
             /\ \A i \in 2 .. m : u.heap[Parent(i)].at <= u.heap[i].at
           Y == {m \in Nat : m <= N => Done(up[m], m)}
<1>8. 0 \in Y
  BY <1>7 DEF Rearranged
<1>9. ASSUME NEW m \in Nat, m \in Y PROVE m + 1 \in Y
  <2> SUFFICES ASSUME m + 1 <= N PROVE Done(up[m + 1], m + 1)
    OBVIOUS
  <2> DEFINE u == up[m]
             v == up[m + 1]
  <2>1. Rearranged(s, u, W) /\ \A i \in 2 .. m : u.heap[Parent(i)].at <= u.heap[i].at
    BY <1>1, <1>9
  <2>2. v = UpHeap(u, m + 1)
    <3>1. m + 1 \in 1 .. N /\ (m + 1) - 1 = m
      BY <1>1
    <3> QED BY <1>7, <3>1
  <2> HIDE DEF u, v
  <2> DEFINE k == m + 1
  <2>3. k \in 1 .. N /\ k \in 1 .. k
    BY <1>1
  <2>4. HeapState(u, W) /\ Len(u.heap) = N /\ IndexedBut(u, k)
    BY <2>1 DEF Rearranged, Indexed, IndexedBut
  <2>5. MayRise(u.heap, k, k)
    <3> SUFFICES ASSUME NEW i \in 2 .. k
                 PROVE  /\ i # k /\ Parent(i) # k => u.heap[Parent(i)].at <= u.heap[i].at
                        /\ Parent(i) # k
      BY DEF MayRise
    <3>1. Parent(i) \in 1 .. i - 1
      BY ParentIsBefore
    <3>2. i # k => i \in 2 .. m
      OBVIOUS
    <3>3. Parent(i) # k
      BY <3>1
    <3> QED BY <2>1, <3>2, <3>3
  <2> HIDE DEF k
  <2>6. v = UpHeap(u, k)
    BY <2>2 DEF k
  <2>7. /\ Rearranged(u, v, W)
        /\ \A i \in 2 .. k : v.heap[Parent(i)].at <= v.heap[i].at
    BY <2>3, <2>4, <2>5, <2>6, UpHeapDone
  <2>8. Watched(u.heap) = Watched(s.heap)
    BY <2>1, SameWatched DEF Rearranged
  <2>9. Rearranged(s, v, W)
    BY <2>1, <2>7, <2>8 DEF Rearranged
  <2> QED BY <2>7, <2>9 DEF k, v
<1>10. Done(t, N)
  <2>1. \A m \in Nat : m \in Y
    <3> HIDE DEF Y
    <3> QED BY <1>8, <1>9, InductOnNat
  <2>2. N \in Y
    <3> HIDE DEF Y
    <3> QED BY <1>1, <2>1
  <2> HIDE DEF Done
  <2> QED BY <1>1, <1>6, <2>2
<1>11. HeapState(t, W) /\ Indexed(t) /\ InHeapOrder(t.heap) /\ Elements(t.heap) = Elements(s.heap)
  BY <1>10 DEF Rearranged, InHeapOrder
<1>12. \A w \in W \ Watched(t.heap) : t.active[w] = 0
  BY <1>10, SameWatched DEF Rearranged
<1>13. HeapOK(t)
  BY <1>11, <1>12, HeapIsOK
<1> QED BY <1>11, <1>13

=============================================================================
