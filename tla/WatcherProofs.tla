---------------------------- MODULE WatcherProofs ----------------------------
(***************************************************************************)
(* Proofs about the watchers, for any set of them: an embedded loop, as    *)
(* long as its kernel state is replaced only after a fork and while it is  *)
(* not embedded; ev_once and the events of the libevent emulation; signal  *)
(* and child watchers, of any loops, with handlers or signalfds; and       *)
(* periodics, however often the clock is set.  They have no state in       *)
(* common.                                                                 *)
(***************************************************************************)
EXTENDS EvEmbed, EvEvent, EvSignal, EvPeriodic, DataStructureProofs

\* Who has called ev_run for the inner loop; a loop that is not told of a
\* change has it in fdchanges; and the outer loop watches the open file of an
\* embed watcher, or will be told to.
EmbedInv ==
  /\ pc \in {"user", "fork", "prepare", "embed", "reify", "block", "sweep", "callbacks"}
  /\ pc \in {"sweep", "callbacks"} => from \in {"fork", "embed", "io"}
  /\ \A f : f \notin changes => (f \in wanted <=> f \in told)
  /\ pc \in {"reify", "block"} /\ embedded => changes = {}
  /\ embedded \/ pc = "callbacks" => ~inner_postfork
  /\ embedded /\ ~io_changed => io_told = backend
  /\ pc = "block" => ~io_changed

LEMMA InitEmbedInv == EmbedInit => EmbedInv
  BY DEF EmbedInit, EmbedInv

\* The program changes what the inner loop's watchers want: only fdchanges
\* remembers that the kernel is not told.
LEMMA UserEmbedInv ==
  ASSUME EmbedInv, NEW f, InnerIoStart(f) \/ InnerIoStop(f)
  PROVE  EmbedInv'
<1>1. /\ pc \in {"user", "prepare", "callbacks"} /\ UNCHANGED <<pc, from, told>>
      /\ changes' = changes \cup {f} /\ \A g : g # f => (g \in wanted' <=> g \in wanted)
      /\ UNCHANGED <<embedded, inner_postfork, backend, io_changed, io_told>>
  BY DEF InnerIoStart, InnerIoStop, UserCode, io
<1> QED BY <1>1 DEF EmbedInv

\* The embed watcher is started, stopped, or the process forks.
LEMMA EmbedEmbedInv ==
  ASSUME EmbedInv, EMBED_RECREATES = FALSE, EvEmbedStart \/ EvEmbedStop \/ Fork
  PROVE  EmbedInv'
<1>1. CASE EvEmbedStart
  BY <1>1 DEF EvEmbedStart, EmbedInv, inner
<1>2. CASE EvEmbedStop
  BY <1>2 DEF EvEmbedStop, EmbedInv, inner
<1>3. CASE Fork
  BY <1>3 DEF Fork, EmbedInv, io
<1> QED BY <1>1, <1>2, <1>3

\* ev_run of the inner loop
LEMMA InnerEmbedInv ==
  ASSUME EmbedInv, EMBED_RECREATES = FALSE,
         \/ InnerIterate \/ SweepEnds
         \/ \E f \in InnerFds : InnerCallback(f) \/ BecomesReady(f)
  PROVE  EmbedInv'
<1>1. CASE InnerIterate
  <2>1. backend' = IF inner_postfork THEN backend + 1 ELSE backend
    BY <1>1 DEF InnerIterate
  <2>2. embedded => backend' = backend
    BY <2>1 DEF EmbedInv
  <2>3. /\ told' = wanted /\ changes' = {} /\ inner_postfork' = FALSE /\ pc = "sweep"
        /\ pc' = "callbacks" /\ UNCHANGED <<wanted, embedded, from, io_changed, io_told>>
    BY <1>1 DEF InnerIterate, io
  <2> QED BY <2>2, <2>3 DEF EmbedInv
<1>2. CASE SweepEnds
  <2>1. /\ pc = "callbacks" /\ UNCHANGED <<wanted, changes, told, backend, inner_postfork, io_told>>
        /\ pc' = CASE from = "fork" -> "prepare" [] from = "embed" -> "embed"
                   [] from = "io" -> "user"
        /\ IF from = "fork" THEN embedded' = TRUE /\ io_changed' = TRUE
                            ELSE UNCHANGED <<embedded, io_changed>>
    BY <1>2 DEF SweepEnds, inner, LooksAgain
  <2>2. pc' \in {"prepare", "embed", "user"}
    BY <2>1 DEF EmbedInv
  <2> QED BY <2>1, <2>2 DEF EmbedInv
<1>3. CASE \E f \in InnerFds : InnerCallback(f) \/ BecomesReady(f)
  BY <1>3 DEF InnerCallback, BecomesReady, EmbedInv, inner, io
<1> QED BY <1>1, <1>2, <1>3

\* ev_run of the outer loop
LEMMA OuterEmbedInv ==
  ASSUME EmbedInv,
         \/ OuterIterate \/ EmbedFork \/ Prepared \/ EmbedPrepare \/ OuterReify
         \/ OuterPoll \/ EmbedIo
  PROVE  EmbedInv'
<1>1. CASE OuterIterate \/ Prepared \/ OuterPoll
  BY <1>1 DEF OuterIterate, Prepared, OuterPoll, EmbedInv, inner, io
<1>2. CASE EmbedFork
  BY <1>2 DEF EmbedFork, Sweep, EmbedInv
<1>3. CASE EmbedPrepare
  BY <1>3 DEF EmbedPrepare, Sweep, EmbedInv, io
<1>4. CASE OuterReify
  BY <1>4 DEF OuterReify, EmbedInv, inner
<1>5. CASE EmbedIo
  BY <1>5 DEF EmbedIo, Sweep, EmbedInv, inner
<1> QED BY <1>1, <1>2, <1>3, <1>4, <1>5

LEMMA StepEmbedInv ==
  ASSUME EMBED_RECREATES = FALSE, EmbedInv, [EmbedNext]_embed_vars
  PROVE  EmbedInv'
<1>1. CASE UNCHANGED embed_vars
  BY <1>1 DEF embed_vars, EmbedInv
<1>2. CASE EmbedNext
  BY <1>2, UserEmbedInv, EmbedEmbedInv, InnerEmbedInv, OuterEmbedInv DEF EmbedNext
<1> QED BY <1>1, <1>2

(***************************************************************************)
(* embed_prepare_cb, embed_fork_cb and the start and stop of an embed      *)
(* watcher: when the outer loop blocks, the inner kernel state is told of  *)
(* all that the inner watchers want, and the outer one watches the open    *)
(* file that is its backend_fd after any number of forks.                  *)
(***************************************************************************)
THEOREM EmbeddedLoopIsWatched ==
  ASSUME EMBED_RECREATES = FALSE
  PROVE  EmbedSpec => []EmbeddedWatched
<1>1. EmbedInv /\ [EmbedNext]_embed_vars => EmbedInv'
  BY StepEmbedInv
<1>2. EmbedInv => EmbeddedWatched
  <2> SUFFICES ASSUME EmbedInv, pc = "block", embedded
               PROVE  told = wanted /\ changes = {} /\ io_told = backend
    BY DEF EmbeddedWatched
  <2>1. changes = {} /\ io_told = backend
    BY DEF EmbedInv
  <2>2. \A f : f \in wanted <=> f \in told
    BY <2>1 DEF EmbedInv
  <2> QED BY <2>1, <2>2
<1> QED BY InitEmbedInv, <1>1, <1>2, PTL DEF EmbedSpec

-----------------------------------------------------------------------------
Watcher == Pairs \X Part
Bits == {"EV_READ", "EV_WRITE", "EV_ERROR", "EV_TIMER", "EV_SIGNAL"}

\* An ev_once: nothing of it is active or pending unless it is allocated, and
\* what has been fed to it since is still pending for the one call.
OnceInv ==
  /\ alive \subseteq Onces /\ fresh \subseteq Onces /\ alive \cap fresh = {}
  /\ \A o \in Onces \ alive, part \in Part :
       <<o, part>> \notin active /\ pend[<<o, part>>] = {}
  /\ \A o \in fresh : happened[o] = {}
  /\ \A o \in alive : happened[o] = pend[<<o, "io">>] \cup pend[<<o, "to">>]
  /\ untold = {}

\* An event: a watcher of it is active or pending only if the program expects
\* its call, and its timer is pending only while it is active.
AddedInv ==
  /\ \A e \in Events, part \in Part :
       <<e, part>> \in active \/ pend[<<e, part>>] # {} => part \in expects[e]
  /\ \A e \in Events : pend[<<e, "to">>] # {} => <<e, "to">> \in active
  /\ unexpected = {}

Types ==
  /\ active \subseteq Watcher
  /\ pend \in [Watcher -> SUBSET Bits]
  /\ happened \in [Onces -> SUBSET Bits]
  /\ expects \in [Events -> SUBSET Part]

EventInv == Types /\ OnceInv /\ AddedInv

LEMMA InitEventInv == EventInit => EventInv
  BY DEF EventInit, EventInv, Types, OnceInv, AddedInv, Watcher, Pairs, Part

\* The watchers of different pairs are different.
LEMMA WatcherOf ==
  /\ \A p \in Pairs, part \in Part : <<p, part>> \in Watcher
  /\ \A o \in Onces : o \in Pairs /\ o \notin Events
  /\ \A e \in Events : e \in Pairs /\ e \notin Onces
  /\ Part = {"io", "to"}
  BY EventAssumption DEF Watcher, Pairs, Part

\* Something is fed to an active watcher; an ev_io that fails and the timer of
\* an ev_once are stopped by it.
LEMMA FeedEventInv ==
  ASSUME EventInv, NEW p \in Pairs, NEW part \in Part, NEW revents \in SUBSET Bits,
         <<p, part>> \in active, Feed(<<p, part>>, revents),
         \/ active' = active
         \/ active' = active \ {<<p, part>>} /\ ~(part = "to" /\ p \in Events)
  PROVE  EventInv'
<1> DEFINE w == <<p, part>>
<1>1. /\ w \in Watcher /\ w[1] = p
      /\ pend' \in [Watcher -> SUBSET Bits]
      /\ pend'[w] = pend[w] \cup revents
      /\ \A x \in Watcher \ {w} : pend'[x] = pend[x]
  BY WatcherOf DEF Feed, EventInv, Types
<1>2. /\ happened' \in [Onces -> SUBSET Bits]
      /\ \A o \in Onces : happened'[o] = IF o = p THEN happened[o] \cup revents ELSE happened[o]
  BY <1>1 DEF Feed, EventInv, Types
<1>3. UNCHANGED <<alive, fresh, untold, expects, unexpected>>
  BY DEF Feed
<1>4. p \in Onces => p \in alive
  BY DEF EventInv, OnceInv
<1>5. p \in Events => part \in expects[p]
  BY DEF EventInv, AddedInv
<1>6. Types'
  BY <1>1, <1>2, <1>3 DEF EventInv, Types
<1>7. OnceInv'
  <2>1. \A o \in Onces \ alive, x \in Part : <<o, x>> # w /\ <<o, x>> \in Watcher
    BY <1>4, WatcherOf
  <2>2. \A o \in Onces \ alive, x \in Part : <<o, x>> \notin active' /\ pend'[<<o, x>>] = {}
    BY <1>1, <2>1 DEF EventInv, OnceInv
  <2>3. \A o \in fresh : happened'[o] = {}
    BY <1>2, <1>4 DEF EventInv, OnceInv
  <2>4. \A o \in alive : happened'[o] = pend'[<<o, "io">>] \cup pend'[<<o, "to">>]
    <3> TAKE o \in alive
    <3>1. /\ happened[o] = pend[<<o, "io">>] \cup pend[<<o, "to">>] /\ o \in Onces
          /\ <<o, "io">> \in Watcher /\ <<o, "to">> \in Watcher
      BY WatcherOf DEF EventInv, OnceInv
    <3>2. CASE o # p
      BY <1>1, <1>2, <3>1, <3>2
    <3>3. CASE o = p
      <4>1. part = "io" \/ part = "to"
        BY WatcherOf
      <4> QED BY <1>1, <1>2, <3>1, <3>3, <4>1
    <3> QED BY <3>2, <3>3
  <2> QED BY <1>3, <2>2, <2>3, <2>4 DEF EventInv, OnceInv
<1>8. AddedInv'
  <2>1. \A e \in Events, x \in Part : <<e, x>> \in Watcher
    BY WatcherOf
  <2>2. \A e \in Events, x \in Part :
          <<e, x>> \in active' \/ pend'[<<e, x>>] # {} => x \in expects[e]
    BY <1>1, <1>5, <2>1 DEF EventInv, AddedInv
  <2>3. \A e \in Events : pend'[<<e, "to">>] # {} => <<e, "to">> \in active'
    <3> TAKE e \in Events
    <3>1. <<e, "to">> \in Watcher /\ (pend[<<e, "to">>] # {} => <<e, "to">> \in active)
      BY <2>1, WatcherOf DEF EventInv, AddedInv
    <3>2. CASE <<e, "to">> = w
      BY <3>1, <3>2
    <3>3. CASE <<e, "to">> # w
      BY <1>1, <3>1, <3>3
    <3> QED BY <3>2, <3>3
  <2> QED BY <1>3, <2>2, <2>3 DEF EventInv, AddedInv
<1> QED BY <1>6, <1>7, <1>8 DEF EventInv

\* ev_once
LEMMA EvOnceEventInv ==
  ASSUME EventInv, NEW o \in Onces, NEW parts \in SUBSET Part, EvOnce(o, parts)
  PROVE  EventInv'
<1>1. /\ o \in fresh /\ fresh' = fresh \ {o} /\ alive' = alive \cup {o}
      /\ active' = active \cup ({o} \X parts)
      /\ UNCHANGED <<pend, happened, untold, expects, unexpected>>
  BY DEF EvOnce, ghosts
<1>2. o \notin alive /\ o \notin Events /\ o \in Pairs
  BY <1>1, WatcherOf DEF EventInv, OnceInv
<1>3. Types'
  BY <1>1, WatcherOf DEF EventInv, Types, Watcher
<1>4. OnceInv'
  <2>1. happened[o] = {} /\ pend[<<o, "io">>] = {} /\ pend[<<o, "to">>] = {}
    BY <1>1, <1>2, WatcherOf DEF EventInv, OnceInv
  <2>2. \A x \in Onces \ alive', part \in Part : <<x, part>> \notin active'
    BY <1>1 DEF EventInv, OnceInv
  <2> QED BY <1>1, <1>2, <2>1, <2>2 DEF EventInv, OnceInv
<1>5. AddedInv'
  <2>1. \A e \in Events, part \in Part : <<e, part>> \in active' <=> <<e, part>> \in active
    BY <1>1, <1>2
  <2> QED BY <1>1, <2>1, WatcherOf DEF EventInv, AddedInv
<1> QED BY <1>3, <1>4, <1>5 DEF EventInv

\* once_cb: the one call of an ev_once
LEMMA InvokeOnceEventInv ==
  ASSUME EventInv, NEW o \in Onces, NEW part \in Part, InvokeOnce(o, part)
  PROVE  EventInv'
<1>1. /\ <<o, "io">> \in Watcher /\ <<o, "to">> \in Watcher /\ o \notin Events
      /\ <<o, part>> \in Watcher
  BY WatcherOf
<1>2. /\ active' = active \ {<<o, "io">>, <<o, "to">>}
      /\ pend' \in [Watcher -> SUBSET Bits]
      /\ pend'[<<o, "io">>] = {} /\ pend'[<<o, "to">>] = {}
      /\ \A x \in Watcher \ {<<o, "io">>, <<o, "to">>} : pend'[x] = pend[x]
  BY <1>1 DEF InvokeOnce, Becomes, OnceCb, Stop, Now, EventInv, Types
<1>3. alive' = alive \ {o} /\ UNCHANGED <<fresh, happened, expects, unexpected>>
  BY DEF InvokeOnce
<1>4. o \in alive
  BY DEF InvokeOnce, EventInv, OnceInv
<1>5. untold' = {}
  BY <1>4 DEF InvokeOnce, PendingOf, EventInv, OnceInv
<1>6. Types'
  BY <1>2, <1>3 DEF EventInv, Types
<1>7. OnceInv'
  <2>1. \A x \in Onces \ {o}, y \in Part :
          <<x, y>> \in Watcher \ {<<o, "io">>, <<o, "to">>}
    BY WatcherOf
  <2>2. \A x \in Onces \ alive', y \in Part : <<x, y>> \notin active' /\ pend'[<<x, y>>] = {}
    <3> TAKE x \in Onces \ alive', y \in Part
    <3>1. CASE x = o
      BY <1>2, <3>1, WatcherOf
    <3>2. CASE x # o
      BY <1>2, <1>3, <2>1, <3>2 DEF EventInv, OnceInv
    <3> QED BY <3>1, <3>2
  <2>3. \A x \in alive' : happened'[x] = pend'[<<x, "io">>] \cup pend'[<<x, "to">>]
    BY <1>2, <1>3, <2>1, WatcherOf DEF EventInv, OnceInv
  <2> QED BY <1>3, <1>5, <2>2, <2>3 DEF EventInv, OnceInv
<1>8. AddedInv'
  <2>1. \A e \in Events, y \in Part : <<e, y>> \in Watcher \ {<<o, "io">>, <<o, "to">>}
    BY <1>1, WatcherOf
  <2>2. \A e \in Events : <<e, "to">> \in active' <=> <<e, "to">> \in active
    BY <1>2, <2>1, WatcherOf
  <2> QED BY <1>2, <1>3, <2>1, <2>2, WatcherOf DEF EventInv, AddedInv
<1> QED BY <1>6, <1>7, <1>8 DEF EventInv

\* A step that changes one event only, and leaves it as AddedInv wants it
LEMMA OneEventInv ==
  ASSUME EventInv, NEW e \in Events,
         UNCHANGED <<alive, fresh, happened, untold>>, unexpected' = {},
         active' \subseteq Watcher, pend' \in [Watcher -> SUBSET Bits],
         NEW X \in SUBSET Part, expects' = [expects EXCEPT ![e] = X],
         \A x \in Watcher : x[1] # e => pend'[x] = pend[x] /\ (x \in active' <=> x \in active),
         \A part \in Part : <<e, part>> \in active' \/ pend'[<<e, part>>] # {} => part \in X,
         pend'[<<e, "to">>] # {} => <<e, "to">> \in active'
  PROVE  EventInv'
<1>1. /\ expects' \in [Events -> SUBSET Part] /\ expects'[e] = X
      /\ \A d \in Events \ {e} : expects'[d] = expects[d]
  BY DEF EventInv, Types
<1>2. \A p \in Pairs \ {e}, part \in Part :
        /\ pend'[<<p, part>>] = pend[<<p, part>>]
        /\ <<p, part>> \in active' <=> <<p, part>> \in active
  <2> TAKE p \in Pairs \ {e}, part \in Part
  <2>1. <<p, part>> \in Watcher /\ <<p, part>>[1] # e
    BY WatcherOf
  <2> QED BY <2>1
<1>3. Types'
  BY <1>1 DEF EventInv, Types
<1>4. OnceInv'
  <2>1. \A o \in Onces : o \in Pairs \ {e}
    BY WatcherOf
  <2> QED BY <1>2, <2>1, WatcherOf DEF EventInv, OnceInv
<1>5. AddedInv'
  <2>1. \A d \in Events \ {e} : d \in Pairs \ {e}
    BY WatcherOf
  <2> QED BY <1>1, <1>2, <2>1, WatcherOf DEF EventInv, AddedInv
<1> QED BY <1>3, <1>4, <1>5 DEF EventInv

\* event_add
LEMMA EventAddEventInv ==
  ASSUME EventInv, NEW e \in Events, NEW tv \in BOOLEAN, EventAdd(e, tv)
  PROVE  EventInv'
<1> DEFINE X == {"io"} \cup IF tv THEN {"to"} ELSE {}
<1>1. <<e, "io">> \in Watcher /\ <<e, "to">> \in Watcher /\ X \in SUBSET Part
  BY WatcherOf
<1>2. /\ active' = IF tv THEN active \cup {<<e, "io">>, <<e, "to">>}
                         ELSE (active \cup {<<e, "io">>}) \ {<<e, "to">>}
      /\ pend' = [pend EXCEPT ![<<e, "to">>] = {}]
      /\ expects' = [expects EXCEPT ![e] = X]
      /\ UNCHANGED <<alive, fresh, happened, untold, unexpected>>
  BY DEF EventAdd, Becomes, WithoutTimeout, Start, Stop, Now
<1>3. /\ pend' \in [Watcher -> SUBSET Bits] /\ pend'[<<e, "to">>] = {}
      /\ \A x \in Watcher : x[1] # e => pend'[x] = pend[x]
  BY <1>1, <1>2 DEF EventInv, Types
<1>4. active' \subseteq Watcher /\ \A x \in Watcher : x[1] # e => (x \in active' <=> x \in active)
  BY <1>1, <1>2 DEF EventInv, Types
<1>5. \A part \in Part : <<e, part>> \in active' \/ pend'[<<e, part>>] # {} => part \in X
  BY <1>2, <1>3, WatcherOf
<1>6. unexpected' = {}
  BY <1>2 DEF EventInv, AddedInv
<1> HIDE DEF X
<1> QED BY <1>1, <1>2, <1>3, <1>4, <1>5, <1>6, OneEventInv

\* event_del and what the callback of an event that ends does: nothing of it is
\* left active or pending.
LEMMA DeletedClears ==
  ASSUME NEW S, NEW e \in Events,
         S.active \subseteq Watcher, S.pend \in [Watcher -> SUBSET Bits],
         S.pend[<<e, "to">>] # {} => <<e, "to">> \in S.active
  PROVE  LET T == Deleted(S, e)
         IN  /\ T.active \subseteq Watcher /\ T.pend \in [Watcher -> SUBSET Bits]
             /\ \A part \in Part : <<e, part>> \notin T.active /\ T.pend[<<e, part>>] = {}
             /\ \A x \in Watcher : x[1] # e =>
                  T.pend[x] = S.pend[x] /\ (x \in T.active <=> x \in S.active)
<1> DEFINE i == <<e, "io">>
           t == <<e, "to">>
           U == Stop(S, i)
           T == Deleted(S, e)
<1>1. i \in Watcher /\ t \in Watcher /\ i # t /\ i[1] = e /\ t[1] = e
  BY WatcherOf
<1>2. /\ U.active = S.active \ {i} /\ U.pend = [S.pend EXCEPT ![i] = {}]
      /\ T = IF t \in U.active THEN Stop(U, t) ELSE U
  BY DEF Stop, Deleted
<1> HIDE DEF U, T, i, t
<1>3. /\ U.active \subseteq Watcher /\ U.pend \in [Watcher -> SUBSET Bits]
      /\ i \notin U.active /\ U.pend[i] = {}
      /\ U.pend[t] # {} => t \in U.active
      /\ \A x \in Watcher : x[1] # e =>
           U.pend[x] = S.pend[x] /\ (x \in U.active <=> x \in S.active)
  BY <1>1, <1>2 DEF t
<1>4. CASE t \in U.active
  <2>1. T.active = U.active \ {t} /\ T.pend = [U.pend EXCEPT ![t] = {}]
    BY <1>2, <1>4 DEF Stop
  <2>2. \A part \in Part : <<e, part>> \in {i, t}
    BY WatcherOf DEF i, t
  <2> QED BY <1>1, <1>3, <2>1, <2>2 DEF T
<1>5. CASE t \notin U.active
  <2>1. T = U
    BY <1>2, <1>5
  <2>2. \A part \in Part : <<e, part>> \in {i, t}
    BY WatcherOf DEF i, t
  <2> QED BY <1>3, <1>5, <2>1, <2>2 DEF T
<1> QED BY <1>4, <1>5

LEMMA EventDelEventInv ==
  ASSUME EventInv, NEW e \in Events, EventDel(e)
  PROVE  EventInv'
<1> DEFINE T == Deleted(Now, e)
<1>1. /\ Now.active = active /\ Now.pend = pend
      /\ active \subseteq Watcher /\ pend \in [Watcher -> SUBSET Bits]
      /\ pend[<<e, "to">>] # {} => <<e, "to">> \in active
  BY DEF Now, EventInv, Types, AddedInv
<1>2. /\ T.active \subseteq Watcher /\ T.pend \in [Watcher -> SUBSET Bits]
      /\ \A part \in Part : <<e, part>> \notin T.active /\ T.pend[<<e, part>>] = {}
      /\ \A x \in Watcher : x[1] # e =>
           T.pend[x] = pend[x] /\ (x \in T.active <=> x \in active)
  BY <1>1, DeletedClears
<1>3. /\ active' = T.active /\ pend' = T.pend
      /\ expects' = [expects EXCEPT ![e] = {}]
      /\ UNCHANGED <<alive, fresh, happened, untold, unexpected>>
  BY DEF EventDel, Becomes
<1> HIDE DEF T
<1>4. unexpected' = {} /\ {} \in SUBSET Part
  BY <1>3 DEF EventInv, AddedInv
<1>5. pend'[<<e, "to">>] = {}
  BY <1>2, <1>3, WatcherOf
<1> QED BY <1>2, <1>3, <1>4, <1>5, OneEventInv

\* event_active, for the events of an fd or a signal
LEMMA EventActiveEventInv ==
  ASSUME EventInv, "to" \notin ACTIVATED, NEW e \in Events, NEW part \in Part,
         EventActive(e, part)
  PROVE  EventInv'
<1> DEFINE X == expects[e] \cup {part}
           revents == IF part = "io" /\ e \in SIGNAL THEN {"EV_SIGNAL"} ELSE Fired[part]
<1>1. part = "io" /\ <<e, "io">> \in Watcher /\ <<e, "to">> \in Watcher
  BY WatcherOf DEF EventActive
<1>2. revents \in SUBSET Bits
  BY <1>1 DEF Fired, Bits
<1>3. /\ pend' = [pend EXCEPT ![<<e, "io">>] = @ \cup revents]
      /\ expects' = [expects EXCEPT ![e] = X]
      /\ UNCHANGED <<active, alive, fresh, happened, untold, unexpected>>
  BY <1>1 DEF EventActive
<1> HIDE DEF revents
<1>4. /\ pend' \in [Watcher -> SUBSET Bits] /\ pend'[<<e, "to">>] = pend[<<e, "to">>]
      /\ \A x \in Watcher : x[1] # e => pend'[x] = pend[x]
  BY <1>1, <1>2, <1>3 DEF EventInv, Types
<1>5. X \in SUBSET Part /\ unexpected' = {} /\ active' \subseteq Watcher
  BY <1>3 DEF EventInv, Types, AddedInv
<1>6. \A y \in Part : <<e, y>> \in active' \/ pend'[<<e, y>>] # {} => y \in X
  BY <1>1, <1>3, <1>4, WatcherOf DEF EventInv, AddedInv
<1>7. pend'[<<e, "to">>] # {} => <<e, "to">> \in active'
  BY <1>3, <1>4 DEF EventInv, AddedInv
<1> HIDE DEF X
<1> QED BY <1>3, <1>4, <1>5, <1>6, <1>7, OneEventInv

\* The callback of an event
LEMMA InvokeEventEventInv ==
  ASSUME EventInv, NEW e \in Events, NEW part \in Part, InvokeEvent(e, part)
  PROVE  EventInv'
<1> DEFINE w == <<e, part>>
           S == [active |-> active, pend |-> [pend EXCEPT ![w] = {}]]
<1>1. /\ w \in Watcher /\ w[1] = e /\ pend[w] # {} /\ part \in expects[e]
      /\ unexpected' = {}
  <2>1. pend[w] # {} /\ part \in expects[e]
    BY DEF InvokeEvent, EventInv, AddedInv
  <2> QED BY <2>1, WatcherOf DEF InvokeEvent, EventInv, AddedInv
<1>2. UNCHANGED <<alive, fresh, happened, untold>>
  BY DEF InvokeEvent
<1>3. /\ S.active = active /\ S.active \subseteq Watcher /\ S.pend \in [Watcher -> SUBSET Bits]
      /\ S.pend[w] = {} /\ \A x \in Watcher \ {w} : S.pend[x] = pend[x]
  BY <1>1 DEF EventInv, Types
<1>4. S.pend[<<e, "to">>] # {} => <<e, "to">> \in S.active
  BY <1>3, WatcherOf DEF EventInv, AddedInv
<1>5. CASE Stays(e, part, pend[w])
  <2>1. active' = S.active /\ pend' = S.pend /\ expects' = expects
    BY <1>5 DEF InvokeEvent, Becomes, Stays
  <2> HIDE DEF S
  <2>2. expects' = [expects EXCEPT ![e] = expects[e]] /\ expects[e] \in SUBSET Part
    BY <2>1 DEF EventInv, Types
  <2>3. \A y \in Part : <<e, y>> \in active' \/ pend'[<<e, y>>] # {} => y \in expects[e]
    BY <1>3, <2>1, WatcherOf DEF EventInv, AddedInv
  <2>4. \A x \in Watcher : x[1] # e => pend'[x] = pend[x] /\ (x \in active' <=> x \in active)
    BY <1>1, <1>3, <2>1
  <2>5. active' \subseteq Watcher /\ pend' \in [Watcher -> SUBSET Bits] /\ unexpected' = {}
    BY <1>1, <1>3, <2>1
  <2>6. pend'[<<e, "to">>] # {} => <<e, "to">> \in active'
    BY <1>4, <2>1
  <2> HIDE DEF w
  <2> QED BY <1>2, <2>2, <2>3, <2>4, <2>5, <2>6, OneEventInv
<1>6. CASE ~Stays(e, part, pend[w])
  <2> DEFINE T == Deleted(S, e)
  <2>1. active' = T.active /\ pend' = T.pend /\ expects' = [expects EXCEPT ![e] = {}]
    BY <1>6, WatcherOf DEF InvokeEvent, Becomes, Stays
  <2> HIDE DEF S
  <2>2. /\ T.active \subseteq Watcher /\ T.pend \in [Watcher -> SUBSET Bits]
        /\ \A y \in Part : <<e, y>> \notin T.active /\ T.pend[<<e, y>>] = {}
        /\ \A x \in Watcher : x[1] # e =>
             T.pend[x] = S.pend[x] /\ (x \in T.active <=> x \in S.active)
    BY <1>3, <1>4, DeletedClears
  <2> HIDE DEF T
  <2>3. \A x \in Watcher : x[1] # e => pend'[x] = pend[x] /\ (x \in active' <=> x \in active)
    BY <1>1, <1>3, <2>1, <2>2
  <2>4. {} \in SUBSET Part /\ pend'[<<e, "to">>] = {}
    BY <2>1, <2>2, WatcherOf
  <2>5. active' \subseteq Watcher /\ pend' \in [Watcher -> SUBSET Bits]
    BY <2>1, <2>2
  <2>6. \A y \in Part : <<e, y>> \in active' \/ pend'[<<e, y>>] # {} => y \in {}
    BY <2>1, <2>2
  <2>7. expects' = [expects EXCEPT ![e] = {}] /\ unexpected' = {}
    BY <1>1, <2>1
  <2> HIDE DEF w
  <2> QED BY <1>2, <2>3, <2>4, <2>5, <2>6, <2>7, OneEventInv
<1> QED BY <1>5, <1>6

LEMMA StepEventInv ==
  ASSUME "to" \notin ACTIVATED, EventInv, [EventNext]_event_vars
  PROVE  EventInv'
<1>1. CASE \E p \in Pairs : Ready(p)
  <2>1. PICK p \in Pairs : Ready(p)
    BY <1>1
  <2>2. /\ <<p, "io">> \in active /\ "io" \in Part
        /\ {"EV_SIGNAL"} \in SUBSET Bits /\ Fired.io \cup {"EV_ERROR"} \in SUBSET Bits
        /\ \A ev \in SUBSET Fired.io : ev \in SUBSET Bits
    BY <2>1 DEF Ready, Part, Bits, Fired
  <2>3. PICK revents \in SUBSET Bits :
          /\ Feed(<<p, "io">>, revents)
          /\ active' = active \/ active' = active \ {<<p, "io">>}
    BY <2>1, <2>2 DEF Ready
  <2> QED BY <2>2, <2>3, FeedEventInv
<1>2. CASE \E p \in Pairs : Expire(p)
  <2>1. PICK p \in Pairs : Expire(p)
    BY <1>2
  <2>2. /\ <<p, "to">> \in active /\ "to" \in Part /\ Fired.to \in SUBSET Bits
        /\ Feed(<<p, "to">>, Fired.to)
        /\ p \in Onces => p \notin Events
    BY <2>1, WatcherOf DEF Expire, Part, Bits, Fired
  <2>3. active' = IF p \in Onces THEN active \ {<<p, "to">>} ELSE active
    BY <2>1 DEF Expire
  <2> QED BY <2>2, <2>3, FeedEventInv
<1>3. CASE UNCHANGED event_vars
  BY <1>3 DEF event_vars, EventInv, Types, OnceInv, AddedInv
<1> QED BY <1>1, <1>2, <1>3, EvOnceEventInv, InvokeOnceEventInv, EventAddEventInv,
           EventDelEventInv, EventActiveEventInv, InvokeEventEventInv DEF EventNext

\* Of any set of ev_onces and events, each is called back for what it waits
\* for, and the onces once: if event_active is not used to fake a timeout,
\* which event_del would not take back.
THEOREM OncesAndEventsAreCalledRight ==
  ASSUME "to" \notin ACTIVATED
  PROVE  EventSpec => []CalledOnceForAll
<1>1. EventInv /\ [EventNext]_event_vars => EventInv'
  BY StepEventInv
<1>2. EventInv => CalledOnceForAll
  BY DEF EventInv, OnceInv, AddedInv, CalledOnceForAll, NothingDangles, OnceTellsAll,
         CalledAsAdded
<1> QED BY InitEventInv, <1>1, <1>2, PTL DEF EventSpec

-----------------------------------------------------------------------------
\* Signals and children

\* A child watcher that is pending is above childev: it is called before it.
Above(d, w) ==
  d.priority[w] = MAXPRI /\ IsPending(d, childev) /\ d.pending[childev] < d.pending[w]

\* The pending queue d of the loop l, when the table of signals is sg: of the
\* watchers of a signal only active ones of this loop, of the child watchers
\* only in the default loop, and there above childev
QueueInv(sg, d, l) ==
  /\ Good(d)
  /\ \A w \in SigWatchers : IsPending(d, w) =>
       In(sg[signum[w]].head, w) /\ sg[signum[w]].loop = l
  /\ l = DefaultLoop => d.priority[childev] = MAXPRI
  /\ \A w \in ChildWatchers : IsPending(d, w) => l = DefaultLoop /\ Above(d, w)

\* A signal that has watchers is attached to their loop and comes through its
\* signalfd, if there is one, or a handler.
AttachInv(s) ==
  /\ signals[s] \in [loop : Loops \cup {NULL}, pending : BOOLEAN, head : Seq(SigWatchers)]
  /\ \A i \in DOMAIN signals[s].head : signum[signals[s].head[i]] = s
  /\ signals[s].head = <<>> <=> signals[s].loop = NULL
  /\ s \in handled <=> signals[s].loop \in Loops \ SIGNALFD
  /\ \A l \in Loops : s \in sigfd_set[l] <=> signals[s].loop = l /\ l \in SIGNALFD
  /\ s \in blocked <=> signals[s].loop \in SIGNALFD

SignalInv ==
  /\ DOMAIN signals = Signals /\ \A s \in Signals : AttachInv(s)
  /\ In(signals[SIGCHLD].head, childev) /\ signals[SIGCHLD].loop = DefaultLoop
  /\ sigfd_set \in [Loops -> SUBSET Signals]
  /\ childs \in [0 .. EV_PID_HASHSIZE - 1 -> Seq(ChildWatchers)]
  /\ DOMAIN q = Loops /\ \A l \in Loops : QueueInv(signals, q[l], l)

\* The constants, as the proofs need them
LEMMA Signalled ==
  /\ \A w \in SigWatchers : signum[w] \in Signals /\ w \in Watchers
  /\ \A w \in ChildWatchers : w \in Watchers /\ w # childev /\ w \notin SigWatchers
  /\ childev \in Watchers /\ childev \in SigWatchers /\ SIGCHLD \in Signals
  /\ MAXPRI \in Pri /\ signum[childev] = SIGCHLD
  /\ {"EV_SIGNAL"} \in SUBSET Flags /\ {"EV_CHILD"} \in SUBSET Flags
<1>1. \A w \in SigWatchers : signum[w] \in Signals
  BY DEF Signals
<1>2. MAXPRI \in Pri
  BY PendingAssumption DEF MAXPRI, Pri
<1> QED BY <1>1, <1>2, SignalAssumption

-----------------------------------------------------------------------------
\* The queue of a loop

\* Watchers of signals of this loop are fed.
LEMMA FedQueue ==
  ASSUME NEW sg, NEW d, NEW l, QueueInv(sg, d, l), NEW S \in SUBSET SigWatchers,
         \A w \in S : In(sg[signum[w]].head, w) /\ sg[signum[w]].loop = l,
         NEW revents, NEW t, Grown(d, t, S, revents)
  PROVE  QueueInv(sg, t, l)
<1>1. /\ Good(t) /\ t.priority = d.priority
      /\ \A v \in Watchers : IsPending(d, v) => t.pending[v] = d.pending[v]
      /\ \A v \in Watchers : v \notin S => t.pending[v] = d.pending[v]
  BY DEF Grown, FedTo
<1>2. \A w \in SigWatchers : IsPending(t, w) => In(sg[signum[w]].head, w) /\ sg[signum[w]].loop = l
  BY <1>1, Signalled DEF QueueInv, IsPending
<1>3. \A w \in ChildWatchers : IsPending(t, w) => l = DefaultLoop /\ Above(t, w)
  <2> SUFFICES ASSUME NEW w \in ChildWatchers, IsPending(t, w)
               PROVE  l = DefaultLoop /\ Above(t, w)
    OBVIOUS
  <2>1. w \in Watchers /\ t.pending[w] = d.pending[w]
    BY <1>1, Signalled
  <2>2. IsPending(d, w)
    BY <2>1 DEF IsPending
  <2>3. l = DefaultLoop /\ Above(d, w)
    BY <2>2 DEF QueueInv
  <2>4. IsPending(d, childev) /\ t.pending[childev] = d.pending[childev]
    BY <1>1, <2>3, Signalled DEF Above
  <2> QED BY <1>1, <2>1, <2>3, <2>4 DEF Above, IsPending
<1> QED BY <1>1, <1>2, <1>3 DEF QueueInv

\* A watcher is taken out of the queue: a child watcher, one of a signal other
\* than childev, or childev when no child watcher is pending.
LEMMA ShrunkQueue ==
  ASSUME NEW sg, NEW d, NEW l, QueueInv(sg, d, l), NEW w, NEW t, Shrunk(d, t, w),
         w = childev => \A v \in ChildWatchers : ~IsPending(d, v)
  PROVE  QueueInv(sg, t, l) /\ (w \in Watchers => ~IsPending(t, w))
<1>1. /\ Good(t) /\ t.priority = d.priority
      /\ w \in Watchers => t.pending[w] = 0
      /\ \A v \in Watchers : v # w => t.pending[v] = d.pending[v]
  BY DEF Shrunk
<1>2. \A v \in Watchers : IsPending(t, v) => IsPending(d, v) /\ v # w
  BY <1>1 DEF IsPending
<1>3. \A v \in SigWatchers : IsPending(t, v) => In(sg[signum[v]].head, v) /\ sg[signum[v]].loop = l
  BY <1>2, Signalled DEF QueueInv
<1>4. \A v \in ChildWatchers : IsPending(t, v) => l = DefaultLoop /\ Above(t, v)
  <2> SUFFICES ASSUME NEW v \in ChildWatchers, IsPending(t, v)
               PROVE  l = DefaultLoop /\ Above(t, v)
    OBVIOUS
  <2>1. v \in Watchers /\ IsPending(d, v) /\ v # w /\ t.pending[v] = d.pending[v]
    BY <1>1, <1>2, Signalled
  <2>2. l = DefaultLoop /\ Above(d, v)
    BY <2>1 DEF QueueInv
  <2>3. t.pending[childev] = d.pending[childev]
    BY <1>1, <2>1, Signalled
  <2> QED BY <1>1, <2>1, <2>2, <2>3 DEF Above, IsPending
<1> QED BY <1>1, <1>3, <1>4 DEF QueueInv, IsPending

\* Child watchers are above childev, so that none is left when it is called.
LEMMA ChildevIsLast ==
  ASSUME NEW sg, NEW d, NEW l, QueueInv(sg, d, l), HasPending(d),
         TopEntry(d, NextPri(d)).w = childev, NEW v \in ChildWatchers
  PROVE  ~IsPending(d, v)
<1> SUFFICES ASSUME IsPending(d, v) PROVE FALSE
  OBVIOUS
<1> DEFINE p == NextPri(d)
           n == Len(d.pendings[p])
<1>1. p \in Pri /\ d.pendings[p] # <<>> /\ Good(d)
  BY NextPriHasEntry DEF QueueInv
<1>2. d.priority[childev] = p /\ d.pending[childev] = n
  BY <1>1, PopShrinks, Signalled
<1>3. l = DefaultLoop /\ Above(d, v) /\ d.priority[childev] = MAXPRI
  BY DEF QueueInv
<1>4. /\ d.pending[v] \in 1 .. Len(d.pendings[d.priority[v]])
      /\ Len(d.pendings[d.priority[v]]) \in Nat
  BY <1>1, EntryAt, Signalled
<1>5. d.priority[v] = p
  BY <1>2, <1>3 DEF Above
<1>6. d.pending[v] \in 1 .. n /\ n \in Nat
  BY <1>4, <1>5
<1>7. n < d.pending[v]
  BY <1>2, <1>3 DEF Above
<1> HIDE DEF n
<1> QED BY <1>6, <1>7

\* ev_invoke_pending
LEMMA PoppedQueue ==
  ASSUME NEW sg, NEW d, NEW l, QueueInv(sg, d, l), HasPending(d),
         NEW t, t = PopEntry(d, NextPri(d))
  PROVE  QueueInv(sg, t, l)
<1>1. NextPri(d) \in Pri /\ d.pendings[NextPri(d)] # <<>> /\ Good(d)
  BY NextPriHasEntry DEF QueueInv
<1>2. Shrunk(d, t, TopEntry(d, NextPri(d)).w)
  BY <1>1, PopShrinks
<1>3. TopEntry(d, NextPri(d)).w = childev => \A v \in ChildWatchers : ~IsPending(d, v)
  BY ChildevIsLast
<1> QED BY <1>2, <1>3, ShrunkQueue

\* clear_pending, of any other watcher than childev
LEMMA ClearedQueue ==
  ASSUME NEW sg, NEW d, NEW l, QueueInv(sg, d, l), NEW w \in Watchers, w # childev,
         NEW t, t = ClearPending(d, w)
  PROVE  QueueInv(sg, t, l) /\ ~IsPending(t, w)
<1>1. Shrunk(d, t, w)
  BY ClearShrinks DEF QueueInv
<1> QED BY <1>1, ShrunkQueue

\* childcb raises a child watcher's priority and feeds it when childev is
\* pending again: it is above it, wherever it was before.
LEMMA ToldQueue ==
  ASSUME NEW sg, NEW d, QueueInv(sg, d, DefaultLoop), IsPending(d, childev),
         NEW w \in ChildWatchers, NEW t, t = FeedEvent(Raised(d, w), w, {"EV_CHILD"})
  PROVE  QueueInv(sg, t, DefaultLoop) /\ IsPending(t, childev)
<1> DEFINE r == Raised(d, w)
<1>0. /\ Good(d) /\ d \in QueueState /\ w \in Watchers
      /\ d.priority \in [Watchers -> Pri] /\ d.pending \in [Watchers -> Nat]
      /\ MAXPRI \in Pri
  BY Signalled DEF QueueInv, Good, QueueState
<1>1. Good(r)
  <2>1. CASE IsPending(d, w)
    <3>1. d.priority[w] = MAXPRI
      BY <2>1 DEF QueueInv, Above
    <3>2. r = d
      BY <1>0, <3>1 DEF Raised, QueueState
    <3> QED BY <1>0, <3>2
  <2>2. CASE ~IsPending(d, w)
    BY <1>0, <2>2, SetPriorityGood DEF Raised
  <2> QED BY <2>1, <2>2
<1>2. /\ r.priority = [d.priority EXCEPT ![w] = MAXPRI]
      /\ r.pending = d.pending /\ r.pendings = d.pendings
  BY <1>0 DEF Raised, QueueState
<1> HIDE DEF r
<1>3. Grown(r, t, {w}, {"EV_CHILD"})
  BY <1>0, <1>1, FeedGrows, Signalled DEF r
<1>4. /\ Good(t) /\ t.priority = r.priority
      /\ \A v \in Watchers : IsPending(r, v) => t.pending[v] = r.pending[v]
      /\ \A v \in Watchers : v # w => t.pending[v] = r.pending[v]
      /\ ~IsPending(r, w) => t.pending[w] > Len(r.pendings[r.priority[w]])
  BY <1>0, <1>3 DEF Grown, FedTo
<1>5. w # childev /\ childev \in Watchers /\ t.pending[childev] = d.pending[childev]
      /\ t.priority[childev] = d.priority[childev]
  BY <1>0, <1>2, <1>4, Signalled
<1>6. d.pending[childev] \in 1 .. Len(d.pendings[MAXPRI]) /\ Len(d.pendings[MAXPRI]) \in Nat
  BY <1>0, <1>5, EntryAt DEF QueueInv
<1>7. Above(t, w)
  <2>1. t.priority[w] = MAXPRI /\ r.priority[w] = MAXPRI
    BY <1>0, <1>2, <1>4
  <2>2. CASE IsPending(d, w)
    <3>1. t.pending[w] = d.pending[w]
      BY <1>0, <1>2, <1>4, <2>2 DEF IsPending
    <3>2. d.pending[childev] < d.pending[w]
      BY <2>2 DEF QueueInv, Above
    <3> QED BY <1>5, <2>1, <3>1, <3>2 DEF Above, IsPending
  <2>3. CASE ~IsPending(d, w)
    <3>1. t.pending[w] > Len(d.pendings[MAXPRI])
      BY <1>2, <1>4, <2>1, <2>3 DEF IsPending
    <3>2. t.pending[w] \in Nat
      BY <1>0, <1>4 DEF Good, QueueState
    <3>3. d.pending[childev] < t.pending[w]
      BY <1>6, <3>1, <3>2
    <3> QED BY <1>5, <2>1, <3>3 DEF Above, IsPending
  <2> QED BY <2>2, <2>3
<1>8. \A v \in SigWatchers : IsPending(t, v) =>
        In(sg[signum[v]].head, v) /\ sg[signum[v]].loop = DefaultLoop
  <2>1. \A v \in SigWatchers : v \in Watchers /\ v # w
    BY Signalled
  <2>2. \A v \in SigWatchers : IsPending(t, v) => IsPending(d, v)
    BY <1>2, <1>4, <2>1 DEF IsPending
  <2> QED BY <2>2 DEF QueueInv
<1>9. \A v \in ChildWatchers : IsPending(t, v) => Above(t, v)
  <2> SUFFICES ASSUME NEW v \in ChildWatchers, IsPending(t, v), v # w PROVE Above(t, v)
    BY <1>7
  <2>1. v \in Watchers /\ t.pending[v] = d.pending[v] /\ t.priority[v] = d.priority[v]
    BY <1>0, <1>2, <1>4, Signalled
  <2>2. Above(d, v)
    BY <2>1 DEF QueueInv, IsPending
  <2> QED BY <1>5, <2>1, <2>2 DEF Above, IsPending
<1> QED BY <1>4, <1>5, <1>8, <1>9 DEF QueueInv, IsPending

-----------------------------------------------------------------------------
\* Loops over watchers and signals

\* child_reap goes through a chain.
LEMMA ReapChain ==
  ASSUME NEW d, NEW ws, Len(ws) \in Nat, NEW p, NEW status
  PROVE  \E f : /\ Reap(d, ws, p, status) = f[Len(ws)]
                /\ f[0] = d
                /\ \A n \in 1 .. Len(ws) :
                     f[n] = IF ~Tells(ws[n], p, status) THEN f[n - 1]
                            ELSE FeedEvent(Raised(f[n - 1], ws[n]), ws[n], {"EV_CHILD"})
<1> DEFINE N == Len(ws)
           Step(g, n) ==
             IF n = 0 THEN d
             ELSE IF ~Tells(ws[n], p, status) THEN g[n - 1]
             ELSE FeedEvent(Raised(g[n - 1], ws[n]), ws[n], {"EV_CHILD"})
           X == {m \in Nat : \E g : g = [n \in 0 .. m |-> Step(g, n)]}
<1>1. N \in Nat
  OBVIOUS
<1>2. 0 \in X
  <2> DEFINE g == [n \in 0 .. 0 |-> d]
  <2>1. g = [n \in 0 .. 0 |-> Step(g, n)]
    OBVIOUS
  <2> QED BY <2>1
<1>3. ASSUME NEW m \in Nat, m \in X PROVE m + 1 \in X
  <2>1. PICK g : g = [n \in 0 .. m |-> Step(g, n)]
    BY <1>3
  <2> DEFINE h == [n \in 0 .. m + 1 |-> Step(g, n)]
  <2>2. ASSUME NEW n \in 0 .. m + 1 PROVE Step(h, n) = Step(g, n)
    <3>1. CASE n = 0
      BY <3>1
    <3>2. CASE n # 0
      <4>1. n - 1 \in 0 .. m /\ n - 1 \in 0 .. m + 1
        BY <3>2
      <4>2. h[n - 1] = g[n - 1]
        BY <2>1, <4>1
      <4> HIDE DEF h
      <4> QED BY <3>2, <4>2
    <3> QED BY <3>1, <3>2
  <2>3. h = [n \in 0 .. m + 1 |-> Step(h, n)]
    <3>1. \A n \in 0 .. m + 1 : Step(h, n) = Step(g, n)
      BY <2>2
    <3>2. h = [n \in 0 .. m + 1 |-> Step(g, n)]
      OBVIOUS
    <3> HIDE DEF h, Step
    <3> QED BY <3>1, <3>2
  <2>4. \E f : f = [n \in 0 .. m + 1 |-> Step(f, n)]
    <3> HIDE DEF h
    <3> WITNESS h
    <3> QED BY <2>3
  <2> HIDE DEF Step
  <2> QED BY <2>4
<1>4. N \in X
  <2>1. \A m \in Nat : m \in X
    <3> HIDE DEF X
    <3> QED BY <1>2, <1>3, InductOnNat
  <2> HIDE DEF X
  <2> QED BY <1>1, <2>1
<1> DEFINE fed == CHOOSE g : g = [n \in 0 .. N |-> Step(g, n)]
<1>5. fed = [n \in 0 .. N |-> Step(fed, n)]
  BY <1>4
<1>6. Reap(d, ws, p, status) = fed[N]
  BY DEF Reap
<1> HIDE DEF fed, X
<1>7. fed[0] = d /\ \A n \in 1 .. N : fed[n] = Step(fed, n)
  <2> HIDE DEF Step
  <2>1. \A n \in 0 .. N : fed[n] = Step(fed, n)
    BY <1>5
  <2>2. Step(fed, 0) = d
    BY DEF Step
  <2> QED BY <1>1, <2>1, <2>2
<1>8. \A n \in 1 .. N : Step(fed, n) =
        IF ~Tells(ws[n], p, status) THEN fed[n - 1]
        ELSE FeedEvent(Raised(fed[n - 1], ws[n]), ws[n], {"EV_CHILD"})
  OBVIOUS
<1> HIDE DEF Step
<1> QED BY <1>6, <1>7, <1>8

LEMMA ReapedQueue ==
  ASSUME NEW sg, NEW d, QueueInv(sg, d, DefaultLoop), IsPending(d, childev),
         NEW ws \in Seq(ChildWatchers), NEW p, NEW status,
         NEW t, t = Reap(d, ws, p, status)
  PROVE  QueueInv(sg, t, DefaultLoop) /\ IsPending(t, childev)
<1>1. Len(ws) \in Nat /\ \A n \in 1 .. Len(ws) : ws[n] \in ChildWatchers
  OBVIOUS
<1>2. PICK f : /\ t = f[Len(ws)]
               /\ f[0] = d
               /\ \A n \in 1 .. Len(ws) :
                    f[n] = IF ~Tells(ws[n], p, status) THEN f[n - 1]
                           ELSE FeedEvent(Raised(f[n - 1], ws[n]), ws[n], {"EV_CHILD"})
  BY <1>1, ReapChain
<1> DEFINE Fine(r) == QueueInv(sg, r, DefaultLoop) /\ IsPending(r, childev)
           X == {n \in Nat : n <= Len(ws) => Fine(f[n])}
<1>3. 0 \in X
  BY <1>2
<1>4. ASSUME NEW n \in Nat, n \in X PROVE n + 1 \in X
  <2> SUFFICES ASSUME n + 1 <= Len(ws) PROVE Fine(f[n + 1])
    OBVIOUS
  <2>1. Fine(f[n]) /\ n + 1 \in 1 .. Len(ws) /\ (n + 1) - 1 = n
    BY <1>1, <1>4
  <2>2. CASE ~Tells(ws[n + 1], p, status)
    <3>1. f[n + 1] = f[n]
      BY <1>2, <2>1, <2>2
    <3> HIDE DEF Fine
    <3> QED BY <2>1, <3>1
  <2>3. CASE Tells(ws[n + 1], p, status)
    <3>1. f[n + 1] = FeedEvent(Raised(f[n], ws[n + 1]), ws[n + 1], {"EV_CHILD"})
      BY <1>2, <2>1, <2>3
    <3>2. ws[n + 1] \in ChildWatchers
      BY <1>1, <2>1
    <3> QED BY <2>1, <3>1, <3>2, ToldQueue
  <2> QED BY <2>2, <2>3
<1>5. \A n \in Nat : n \in X
  <2> HIDE DEF X
  <2> QED BY <1>3, <1>4, InductOnNat
<1>6. Fine(f[Len(ws)])
  <2> HIDE DEF Fine
  <2>1. Len(ws) \in X /\ Len(ws) <= Len(ws)
    BY <1>1, <1>5
  <2> QED BY <2>1
<1> QED BY <1>2, <1>6

\* The queue and the table, with other marks, after some signals of l were fed
Fed(t, l) ==
  /\ DOMAIN t.signals = Signals
  /\ \A s \in Signals :
       /\ t.signals[s] \in [loop : Loops \cup {NULL}, pending : BOOLEAN, head : Seq(SigWatchers)]
       /\ t.signals[s].loop = signals[s].loop /\ t.signals[s].head = signals[s].head
  /\ QueueInv(signals, t.q, l)

LEMMA FedOne ==
  ASSUME SignalInv, NEW l \in Loops, NEW t, Fed(t, l), NEW s \in Signals,
         NEW u, u = FeedSignalEvent(l, t, s)
  PROVE  Fed(u, l)
<1>1. CASE t.signals[s].loop # l
  BY <1>1 DEF FeedSignalEvent
<1>2. CASE t.signals[s].loop = l
  <2> DEFINE head == t.signals[s].head
             S == {head[i] : i \in 1 .. Len(head)}
  <2>1. /\ u.signals = [t.signals EXCEPT ![s].pending = FALSE]
        /\ u.q = QueueEvents(t.q, head, {"EV_SIGNAL"})
    BY <1>2 DEF FeedSignalEvent
  <2>2. /\ head \in Seq(SigWatchers) /\ head = signals[s].head /\ signals[s].loop = l
        /\ \A i \in 1 .. Len(head) : signum[head[i]] = s
    <3>1. head = signals[s].head /\ signals[s].loop = l
      BY <1>2 DEF Fed
    <3>2. signals[s].head \in Seq(SigWatchers) /\ \A i \in DOMAIN signals[s].head : signum[signals[s].head[i]] = s
      BY DEF SignalInv, AttachInv
    <3> QED BY <3>1, <3>2
  <2>3. S \in SUBSET SigWatchers /\ head \in Seq(Watchers)
    BY <2>2, Signalled
  <2>4. \A w \in S : In(signals[signum[w]].head, w) /\ signals[signum[w]].loop = l
    BY <2>2 DEF In
  <2>5. Grown(t.q, u.q, S, {"EV_SIGNAL"})
    BY <2>1, <2>3, QueueEventsGrows, Signalled DEF Fed, QueueInv
  <2> HIDE DEF S, head
  <2>6. QueueInv(signals, u.q, l)
    BY <2>3, <2>4, <2>5, FedQueue DEF Fed
  <2>7. ASSUME NEW x \in Signals
        PROVE  /\ u.signals[x] \in [loop : Loops \cup {NULL}, pending : BOOLEAN, head : Seq(SigWatchers)]
               /\ u.signals[x].loop = signals[x].loop /\ u.signals[x].head = signals[x].head
    <3>1. /\ t.signals[x] \in [loop : Loops \cup {NULL}, pending : BOOLEAN, head : Seq(SigWatchers)]
          /\ t.signals[x].loop = signals[x].loop /\ t.signals[x].head = signals[x].head
          /\ DOMAIN t.signals = Signals
      BY DEF Fed
    <3>2. u.signals[x] = IF x = s THEN [t.signals[x] EXCEPT !.pending = FALSE] ELSE t.signals[x]
      BY <2>1, <3>1
    <3> QED BY <3>1, <3>2
  <2>8. DOMAIN u.signals = Signals
    BY <2>1 DEF Fed
  <2> QED BY <2>6, <2>7, <2>8 DEF Fed
<1> QED BY <1>1, <1>2

\* SetToSeq of a finite set is a sequence of its elements.
LEMMA InSomeOrder ==
  ASSUME NEW S, IsFiniteSet(S)
  PROVE  /\ Len(SetToSeq(S)) \in Nat
         /\ \A n \in 1 .. Len(SetToSeq(S)) : SetToSeq(S)[n] \in S
<1> DEFINE N == Cardinality(S)
<1>1. N \in Nat /\ ExistsBijection(1 .. N, S)
  BY FS_CardinalityType
<1>2. \E f \in [1 .. N -> S] : IsInjective(f)
  <2>1. PICK f \in Bijection(1 .. N, S) : TRUE
    BY <1>1 DEF ExistsBijection
  <2>2. f \in [1 .. N -> S] /\ \A a, b \in 1 .. N : f[a] = f[b] => a = b
    BY <2>1 DEF Bijection, Injection, IsInjective
  <2> QED BY <2>2 DEF IsInjective
<1>3. SetToSeq(S) \in [1 .. N -> S]
  BY <1>2 DEF SetToSeq
<1> HIDE DEF N
<1>4. SetToSeq(S) \in Seq(S) /\ Len(SetToSeq(S)) = N
  BY <1>1, <1>3, FunctionIsSeq
<1> QED BY <1>1, <1>3, <1>4

\* t is what feeding the signals of order one after the other leaves of the
\* loop's queue and of the signal table.
FedInOrder(l, order, t) ==
  \E f : /\ t = f[Len(order)]
        /\ f[0] = [signals |-> signals, q |-> q[l]]
        /\ \A n \in 1 .. Len(order) : f[n] = FeedSignalEvent(l, f[n - 1], order[n])

LEMMA FeedAllChain ==
  ASSUME NEW l, NEW found, NEW order, order = SetToSeq(found), Len(order) \in Nat,
         NEW t, t = FeedAll(l, found)
  PROVE  FedInOrder(l, order, t)
<1> USE DEF FedInOrder
<1> DEFINE N == Len(order)
           first == [signals |-> signals, q |-> q[l]]
           Step(g, n) == IF n = 0 THEN first ELSE FeedSignalEvent(l, g[n - 1], order[n])
           X == {m \in Nat : \E g : g = [n \in 0 .. m |-> Step(g, n)]}
<1>1. N \in Nat
  OBVIOUS
<1>2. 0 \in X
  <2> DEFINE g == [n \in 0 .. 0 |-> first]
  <2>1. g = [n \in 0 .. 0 |-> Step(g, n)]
    OBVIOUS
  <2> QED BY <2>1
<1>3. ASSUME NEW m \in Nat, m \in X PROVE m + 1 \in X
  <2>1. PICK g : g = [n \in 0 .. m |-> Step(g, n)]
    BY <1>3
  <2> DEFINE h == [n \in 0 .. m + 1 |-> Step(g, n)]
  <2>2. ASSUME NEW n \in 0 .. m + 1 PROVE Step(h, n) = Step(g, n)
    <3>1. CASE n = 0
      BY <3>1
    <3>2. CASE n # 0
      <4>1. n - 1 \in 0 .. m /\ n - 1 \in 0 .. m + 1
        BY <3>2
      <4>2. h[n - 1] = g[n - 1]
        BY <2>1, <4>1
      <4> HIDE DEF h
      <4> QED BY <3>2, <4>2
    <3> QED BY <3>1, <3>2
  <2>3. h = [n \in 0 .. m + 1 |-> Step(h, n)]
    <3>1. \A n \in 0 .. m + 1 : Step(h, n) = Step(g, n)
      BY <2>2
    <3>2. h = [n \in 0 .. m + 1 |-> Step(g, n)]
      OBVIOUS
    <3> HIDE DEF h, Step
    <3> QED BY <3>1, <3>2
  <2>4. \E f : f = [n \in 0 .. m + 1 |-> Step(f, n)]
    <3> HIDE DEF h
    <3> WITNESS h
    <3> QED BY <2>3
  <2> HIDE DEF Step
  <2> QED BY <2>4
<1>4. N \in X
  <2>1. \A m \in Nat : m \in X
    <3> HIDE DEF X
    <3> QED BY <1>2, <1>3, InductOnNat
  <2> HIDE DEF X
  <2> QED BY <1>1, <2>1
<1> DEFINE after == CHOOSE g : g = [n \in 0 .. N |-> Step(g, n)]
<1>5. after = [n \in 0 .. N |-> Step(after, n)]
  BY <1>4
<1>6. t = after[N]
  BY DEF FeedAll
<1> HIDE DEF after, X
<1>7. after[0] = first /\ \A n \in 1 .. N : after[n] = Step(after, n)
  <2> HIDE DEF Step
  <2>1. \A n \in 0 .. N : after[n] = Step(after, n)
    BY <1>5
  <2>2. Step(after, 0) = first
    BY DEF Step
  <2> QED BY <1>1, <2>1, <2>2
<1>8. \A n \in 1 .. N : Step(after, n) = FeedSignalEvent(l, after[n - 1], order[n])
  OBVIOUS
<1> HIDE DEF Step
<1> QED BY <1>6, <1>7, <1>8

\* pipecb and sigfdcb feed the watchers of the signals they find.
LEMMA FedAll ==
  ASSUME SignalInv, NEW l \in Loops, NEW found \in SUBSET Signals,
         NEW t, t = FeedAll(l, found)
  PROVE  Fed(t, l)
<1>1. PICK order : /\ order = SetToSeq(found) /\ Len(order) \in Nat
                   /\ \A n \in 1 .. Len(order) : order[n] \in found
  <2>1. IsFiniteSet(found)
    BY SignalAssumption, FS_Subset
  <2> QED BY <2>1, InSomeOrder
<1>2. PICK f : /\ t = f[Len(order)]
               /\ f[0] = [signals |-> signals, q |-> q[l]]
               /\ \A n \in 1 .. Len(order) : f[n] = FeedSignalEvent(l, f[n - 1], order[n])
  <2>1. FedInOrder(l, order, t)
    BY <1>1, FeedAllChain
  <2> QED BY <2>1 DEF FedInOrder
<1> DEFINE X == {n \in Nat : n <= Len(order) => Fed(f[n], l)}
<1>3. 0 \in X
  <2>1. Fed(f[0], l)
    BY <1>2 DEF Fed, SignalInv, AttachInv
  <2> QED BY <2>1
<1>4. ASSUME NEW n \in Nat, n \in X PROVE n + 1 \in X
  <2> SUFFICES ASSUME n + 1 <= Len(order) PROVE Fed(f[n + 1], l)
    OBVIOUS
  <2>1. Fed(f[n], l) /\ n + 1 \in 1 .. Len(order) /\ (n + 1) - 1 = n
    BY <1>1, <1>4
  <2>2. f[n + 1] = FeedSignalEvent(l, f[n], order[n + 1]) /\ order[n + 1] \in Signals
    BY <1>1, <1>2, <2>1
  <2> QED BY <2>1, <2>2, FedOne
<1>5. \A n \in Nat : n \in X
  <2> HIDE DEF X
  <2> QED BY <1>3, <1>4, InductOnNat
<1>6. Len(order) \in X /\ Len(order) <= Len(order)
  BY <1>1, <1>5
<1> QED BY <1>2, <1>6

\* wlist_del takes one link out of a list.
LEMMA Unlinked ==
  ASSUME NEW S, NEW head \in Seq(S), NEW w, In(head, w), NEW rest, rest = WlistDel(head, w)
  PROVE  /\ rest \in Seq(S)
         /\ \A v : v # w => (In(rest, v) <=> In(head, v))
         /\ \A i \in DOMAIN rest : In(head, rest[i])
<1> DEFINE I == {i \in 1 .. Len(head) : head[i] = w}
           f == [i \in Int |-> IF i \in I THEN 0 ELSE 1]
           n == Len(head)
<1>1. n \in Nat /\ DOMAIN head = 1 .. n
  OBVIOUS
<1>2. PICK k \in I : \A i \in I : k <= i
  <2>1. PICK j \in 1 .. n : head[j] = w
    BY <1>1 DEF In
  <2>2. n - 1 \in Nat /\ 1 + (n - 1) = n
    BY <1>1, <2>1
  <2>3. \A i \in Int : f[i] \in Int
    OBVIOUS
  <2>4. 1 \in Int
    OBVIOUS
  <2> HIDE DEF f
  <2>5. PICK c \in 1 .. 1 + (n - 1) : \A d \in 1 .. 1 + (n - 1) :
          f[c] < f[d] \/ (f[c] = f[d] /\ c <= d)
    BY <2>2, <2>3, <2>4, LeastExists
  <2>6. \A d \in 1 .. n : f[c] < f[d] \/ (f[c] = f[d] /\ c <= d)
    BY <2>2, <2>5
  <2>7. c \in 1 .. n
    BY <2>2, <2>5
  <2>8. f[j] = 0 /\ (c \notin I => f[c] = 1) /\ \A i \in I : f[i] = 0 /\ i \in 1 .. n
    BY <2>1, <2>7 DEF f
  <2>9. c \in I
    BY <2>1, <2>6, <2>8
  <2>10. \A i \in I : c <= i
    BY <2>6, <2>8, <2>9
  <2> QED BY <2>9, <2>10
<1>3. rest = SubSeq(head, 1, k - 1) \o SubSeq(head, k + 1, n)
  <2>1. Min(I) = k
    <3>1. Min(I) \in I /\ \A i \in I : Min(I) <= i
      BY <1>2 DEF Min
    <3>2. \A i \in I : i \in Int
      OBVIOUS
    <3> HIDE DEF I
    <3> QED BY <1>2, <3>1, <3>2
  <2>2. \E i \in 1 .. n : head[i] = w
    BY <1>2
  <2>3. rest = RemoveAt(head, Min(I))
    BY <1>2, <2>2 DEF WlistDel, RemoveFirst, SelectInSeq
  <2> QED BY <2>1, <2>3 DEF RemoveAt
<1>4. k \in 1 .. n /\ head[k] = w
  BY <1>2
<1> HIDE DEF I, f
<1>5. /\ rest \in Seq(S) /\ Len(rest) = n - 1
      /\ \A i \in 1 .. n - 1 : rest[i] = IF i < k THEN head[i] ELSE head[i + 1]
  <2> DEFINE a == SubSeq(head, 1, k - 1)
             b == SubSeq(head, k + 1, n)
  <2>0. \A i \in 1 .. n : head[i] \in S
    BY <1>1
  <2>1. /\ a \in Seq(S) /\ Len(a) = k - 1 /\ \A i \in 1 .. k - 1 : a[i] = head[i]
    BY <1>1, <1>4
  <2>2. /\ b \in Seq(S) /\ Len(b) = n - k /\ \A i \in 1 .. n - k : b[i] = head[k + i]
    <3>1. k + 1 \in Int /\ n \in Int /\ \A i \in k + 1 .. n : head[i] \in S
      BY <1>1, <1>4, <2>0
    <3>2. /\ b \in Seq(S) /\ Len(b) = IF k + 1 <= n THEN n - (k + 1) + 1 ELSE 0
          /\ \A i \in 1 .. n - (k + 1) + 1 : b[i] = head[(k + 1) + i - 1]
      BY <3>1, SubSeqProperties
    <3> HIDE DEF b
    <3>3. n - (k + 1) + 1 = n - k /\ \A i \in 1 .. n - k : (k + 1) + i - 1 = k + i
      BY <1>1, <1>4
    <3>4. Len(b) = n - k
      <4>1. CASE k + 1 <= n
        BY <3>2, <3>3, <4>1
      <4>2. CASE ~(k + 1 <= n)
        <5>1. n \in Int /\ k \in Int /\ k <= n
          BY <1>1, <1>4
        <5>2. k = n
          BY <4>2, <5>1
        <5>3. n - k = 0
          BY <5>1, <5>2
        <5> QED BY <3>2, <4>2, <5>3
      <4> QED BY <4>1, <4>2
    <3> QED BY <3>2, <3>3, <3>4
  <2> HIDE DEF a, b
  <2>3. rest = a \o b
    BY <1>3 DEF a, b
  <2>4. rest \in Seq(S) /\ Len(rest) = Len(a) + Len(b)
    BY <2>1, <2>2, <2>3, ConcatProperties
  <2>5. \A i \in 1 .. Len(a) + Len(b) : rest[i] = IF i <= Len(a) THEN a[i] ELSE b[i - Len(a)]
    BY <2>1, <2>2, <2>3, ConcatProperties
  <2>6. Len(rest) = n - 1
    BY <1>1, <1>4, <2>1, <2>2, <2>4
  <2>7. ASSUME NEW i \in 1 .. n - 1 PROVE rest[i] = IF i < k THEN head[i] ELSE head[i + 1]
    <3>1. i \in 1 .. Len(a) + Len(b)
      BY <1>1, <1>4, <2>1, <2>2
    <3>2. CASE i < k
      <4>1. i <= Len(a) /\ i \in 1 .. k - 1
        BY <1>4, <2>1, <3>2
      <4> QED BY <2>1, <2>5, <3>1, <3>2, <4>1
    <3>3. CASE ~(i < k)
      <4>1. ~(i <= Len(a)) /\ i - Len(a) \in 1 .. n - k /\ k + (i - Len(a)) = i + 1
        BY <1>1, <1>4, <2>1, <3>3
      <4>2. rest[i] = b[i - Len(a)]
        BY <2>5, <3>1, <4>1
      <4>3. b[i - Len(a)] = head[k + (i - Len(a))]
        BY <2>2, <4>1
      <4> QED BY <3>3, <4>1, <4>2, <4>3
    <3> QED BY <3>2, <3>3
  <2> QED BY <2>4, <2>6, <2>7
<1>6. DOMAIN rest = 1 .. n - 1
  BY <1>5
<1>7. ASSUME NEW i \in DOMAIN rest PROVE In(head, rest[i])
  <2>1. i \in 1 .. n - 1 /\ i \in 1 .. n /\ i + 1 \in 1 .. n
    BY <1>1, <1>6, <1>7
  <2>2. rest[i] = head[i] \/ rest[i] = head[i + 1]
    BY <1>5, <2>1
  <2> QED BY <1>1, <2>1, <2>2 DEF In
<1>8. ASSUME NEW v, v # w, In(head, v) PROVE In(rest, v)
  <2>1. PICK i \in 1 .. n : head[i] = v
    BY <1>1, <1>8 DEF In
  <2>2. CASE i < k
    <3>1. i \in 1 .. n - 1 /\ rest[i] = v
      BY <1>1, <1>4, <1>5, <2>1, <2>2
    <3> QED BY <1>6, <3>1 DEF In
  <2>3. CASE i > k
    <3>1. i - 1 \in 1 .. n - 1 /\ rest[i - 1] = v
      BY <1>1, <1>4, <1>5, <2>1, <2>3
    <3> QED BY <1>6, <3>1 DEF In
  <2> QED BY <1>1, <1>4, <1>8, <2>1, <2>2, <2>3
<1>9. \A v : In(rest, v) => In(head, v)
  BY <1>7 DEF In
<1> QED BY <1>5, <1>7, <1>8, <1>9

-----------------------------------------------------------------------------
\* The steps

LEMMA InitSignalInv == SignalInit => SignalInv
<1> SUFFICES ASSUME SignalInit PROVE SignalInv
  OBVIOUS
<1>1. /\ DOMAIN signals = Signals
      /\ signals[SIGCHLD] = [loop |-> DefaultLoop, pending |-> FALSE, head |-> <<childev>>]
      /\ \A s \in Signals : s # SIGCHLD =>
           signals[s] = [loop |-> NULL, pending |-> FALSE, head |-> <<>>]
  BY Signalled DEF SignalInit
<1>2. \A s \in Signals : AttachInv(s)
  <2> SUFFICES ASSUME NEW s \in Signals PROVE AttachInv(s)
    OBVIOUS
  <2>1. CASE s = SIGCHLD
    <3>1. <<childev>> \in Seq(SigWatchers) /\ <<childev>> # <<>> /\ DOMAIN <<childev>> = {1}
          /\ <<childev>>[1] = childev
      BY Signalled
    <3>2. /\ s \in handled <=> DefaultLoop \notin SIGNALFD
          /\ s \in blocked <=> DefaultLoop \in SIGNALFD
          /\ \A l \in Loops : s \in sigfd_set[l] <=> l = DefaultLoop /\ l \in SIGNALFD
      BY <2>1 DEF SignalInit
    <3>3. DefaultLoop \in Loops /\ NULL \notin Loops
      BY SignalAssumption
    <3>4. signals[s].loop = DefaultLoop /\ signals[s].head = <<childev>>
      BY <1>1, <2>1
    <3>5. signals[s] \in [loop : Loops \cup {NULL}, pending : BOOLEAN, head : Seq(SigWatchers)]
      <4>1. signals[s] = [loop |-> DefaultLoop, pending |-> FALSE, head |-> <<childev>>]
        BY <1>1, <2>1
      <4>2. DefaultLoop \in Loops \cup {NULL}
        BY <3>3
      <4> QED BY <3>1, <4>1, <4>2
    <3>6. \A i \in DOMAIN signals[s].head : signum[signals[s].head[i]] = s
      BY <2>1, <3>1, <3>4, Signalled
    <3> QED BY <3>1, <3>2, <3>3, <3>4, <3>5, <3>6 DEF AttachInv
  <2>2. CASE s # SIGCHLD
    <3>1. <<>> \in Seq(SigWatchers) /\ DOMAIN <<>> = {}
      OBVIOUS
    <3>2. s \notin handled /\ s \notin blocked /\ \A l \in Loops : s \notin sigfd_set[l]
      BY <2>2 DEF SignalInit
    <3>3. NULL \notin Loops /\ SIGNALFD \subseteq Loops
      BY SignalAssumption
    <3>4. signals[s] = [loop |-> NULL, pending |-> FALSE, head |-> <<>>]
      BY <1>1, <2>2
    <3>5. signals[s] \in [loop : Loops \cup {NULL}, pending : BOOLEAN, head : Seq(SigWatchers)]
      BY <3>1, <3>4
    <3> QED BY <3>1, <3>2, <3>3, <3>4, <3>5 DEF AttachInv
  <2> QED BY <2>1, <2>2
<1>3. In(signals[SIGCHLD].head, childev) /\ signals[SIGCHLD].loop = DefaultLoop
  BY <1>1 DEF In
<1>4. sigfd_set \in [Loops -> SUBSET Signals]
  BY Signalled DEF SignalInit
<1>5. childs \in [0 .. EV_PID_HASHSIZE - 1 -> Seq(ChildWatchers)]
  <2>1. <<>> \in Seq(ChildWatchers)
    OBVIOUS
  <2> QED BY <2>1 DEF SignalInit
<1>6. ASSUME NEW l \in Loops PROVE QueueInv(signals, q[l], l)
  <2> DEFINE priority == [w \in Watchers |-> IF w = childev THEN MAXPRI ELSE 0]
  <2>1. q[l] = InitQueue(priority)
    BY DEF SignalInit
  <2>2. priority \in [Watchers -> Pri] /\ priority[childev] = MAXPRI
    BY Signalled, PendingAssumption DEF Pri
  <2> HIDE DEF priority
  <2>3. /\ q[l].priority = priority /\ \A w \in Watchers : q[l].pending[w] = 0
        /\ \A p \in Pri : q[l].pendings[p] = <<>>
        /\ q[l] \in QueueState
    <3>1. <<>> \in Seq(Entry)
      OBVIOUS
    <3> QED BY <2>1, <2>2, <3>1 DEF InitQueue, QueueState
  <2>4. Good(q[l])
    BY <2>3 DEF Good, IndexToEntry, EntryToIndex, IsPending
  <2> QED BY <2>2, <2>3, <2>4, Signalled DEF QueueInv, IsPending
<1> QED BY <1>1, <1>2, <1>3, <1>4, <1>5, <1>6 DEF SignalInv, SignalInit

\* What does not change how signals are attached
LEMMA KeepsSignalInv ==
  ASSUME SignalInv, UNCHANGED <<sigfd_set, handled, blocked>>,
         DOMAIN signals' = Signals,
         \A s \in Signals :
           /\ signals'[s] \in [loop : Loops \cup {NULL}, pending : BOOLEAN, head : Seq(SigWatchers)]
           /\ signals'[s].loop = signals[s].loop /\ signals'[s].head = signals[s].head,
         childs' \in [0 .. EV_PID_HASHSIZE - 1 -> Seq(ChildWatchers)],
         DOMAIN q' = Loops, \A l \in Loops : QueueInv(signals, q'[l], l)
  PROVE  SignalInv'
<1>1. \A s \in Signals : AttachInv(s)'
  BY DEF SignalInv, AttachInv
<1>2. In(signals[SIGCHLD].head, childev)' /\ (signals[SIGCHLD].loop = DefaultLoop)'
  BY Signalled DEF SignalInv
<1>3. \A l \in Loops : QueueInv(signals', q'[l], l)
  BY Signalled DEF QueueInv
<1> QED BY <1>1, <1>2, <1>3 DEF SignalInv

\* The table as it is
LEMMA SameTable ==
  ASSUME SignalInv, UNCHANGED signals
  PROVE  /\ DOMAIN signals' = Signals
         /\ \A s \in Signals :
              /\ signals'[s] \in [loop : Loops \cup {NULL}, pending : BOOLEAN, head : Seq(SigWatchers)]
              /\ signals'[s].loop = signals[s].loop /\ signals'[s].head = signals[s].head
BY DEF SignalInv, AttachInv

\* The system: a signal arrives, and only marks what it finds.
LEMMA DeliverSignalInv ==
  ASSUME SignalInv, NEW s \in Signals, Deliver(s)
  PROVE  SignalInv'
<1>1. UNCHANGED <<sigfd_set, handled, blocked, childs, q>>
  BY DEF Deliver
<1>2. signals' = signals \/ signals' = [signals EXCEPT ![s].pending = TRUE]
  BY DEF Deliver, FeedSignal
<1>3. /\ DOMAIN signals' = Signals
      /\ \A x \in Signals :
           /\ signals'[x] \in [loop : Loops \cup {NULL}, pending : BOOLEAN, head : Seq(SigWatchers)]
           /\ signals'[x].loop = signals[x].loop /\ signals'[x].head = signals[x].head
  <2>1. CASE signals' = signals
    BY <2>1, SameTable
  <2>2. CASE signals' = [signals EXCEPT ![s].pending = TRUE]
    BY <2>2 DEF SignalInv, AttachInv
  <2> QED BY <1>2, <2>1, <2>2
<1> QED BY <1>1, <1>3, KeepsSignalInv DEF SignalInv

\* pipecb and sigfdcb
LEMMA CollectSignalInv ==
  ASSUME SignalInv, NEW l \in Loops, NEW found \in SUBSET Signals,
         NEW t, t = FeedAll(l, found), signals' = t.signals, q' = [q EXCEPT ![l] = t.q],
         UNCHANGED <<sigfd_set, handled, blocked, childs>>
  PROVE  SignalInv'
<1>1. Fed(t, l)
  BY FedAll
<1>2. \A x \in Loops : QueueInv(signals, q'[x], x)
  BY <1>1 DEF Fed, SignalInv
<1> QED BY <1>1, <1>2, KeepsSignalInv DEF Fed, SignalInv

\* A queue changes, and the table and the chains do not.
LEMMA QueueSignalInv ==
  ASSUME SignalInv, NEW l \in Loops, NEW d, q' = [q EXCEPT ![l] = d],
         QueueInv(signals, d, l), UNCHANGED <<signals, sigfd_set, handled, blocked>>,
         childs' \in [0 .. EV_PID_HASHSIZE - 1 -> Seq(ChildWatchers)]
  PROVE  SignalInv'
<1>1. \A x \in Loops : QueueInv(signals, q'[x], x)
  BY DEF SignalInv
<1>2. DOMAIN q' = Loops
  BY DEF SignalInv
<1> QED BY <1>1, <1>2, SameTable, KeepsSignalInv

LEMMA ChainExists ==
  ASSUME NEW p \in Nat
  PROVE  Chain(p) \in 0 .. EV_PID_HASHSIZE - 1
BY SignalAssumption DEF Chain

LEMMA ChildSignalInv ==
  ASSUME SignalInv, NEW w \in ChildWatchers, ChildStart(w) \/ ChildStop(w)
  PROVE  SignalInv'
<1> DEFINE c == Chain(pid[w])
<1>1. c \in 0 .. EV_PID_HASHSIZE - 1 /\ DefaultLoop \in Loops
  BY ChainExists, SignalAssumption
<1>2. childs[c] \in Seq(ChildWatchers) /\ childs \in [0 .. EV_PID_HASHSIZE - 1 -> Seq(ChildWatchers)]
  BY <1>1 DEF SignalInv
<1> HIDE DEF c
<1>3. CASE ChildStart(w)
  <2>1. childs' = [childs EXCEPT ![c] = <<w>> \o childs[c]]
    BY <1>3 DEF ChildStart, WlistAdd, c
  <2>2. <<w>> \o childs[c] \in Seq(ChildWatchers)
    <3>1. <<w>> \in Seq(ChildWatchers)
      OBVIOUS
    <3> QED BY <1>2, <3>1, ConcatProperties
  <2>3. childs' \in [0 .. EV_PID_HASHSIZE - 1 -> Seq(ChildWatchers)]
    BY <1>2, <2>1, <2>2
  <2>4. UNCHANGED <<signals, sigfd_set, handled, blocked, q>>
    BY <1>3 DEF ChildStart, kernel
  <2> QED BY <2>3, <2>4, SameTable, KeepsSignalInv DEF SignalInv
<1>4. CASE ChildStop(w)
  <2> DEFINE d == ClearPending(q[DefaultLoop], w)
             rest == WlistDel(childs[c], w)
  <2>1. /\ q' = [q EXCEPT ![DefaultLoop] = d] /\ childs' = [childs EXCEPT ![c] = rest]
        /\ UNCHANGED <<signals, sigfd_set, handled, blocked>>
    BY <1>4 DEF ChildStop, kernel, c
  <2>2. rest \in Seq(ChildWatchers)
    <3>1. CASE In(childs[c], w)
      BY <1>2, <3>1, Unlinked
    <3>2. CASE ~In(childs[c], w)
      <4>1. DOMAIN childs[c] = 1 .. Len(childs[c])
        BY <1>2
      <4>2. rest = childs[c]
        BY <3>2, <4>1 DEF WlistDel, RemoveFirst, In
      <4> QED BY <1>2, <4>2
    <3> QED BY <3>1, <3>2
  <2> HIDE DEF rest
  <2>3. childs' \in [0 .. EV_PID_HASHSIZE - 1 -> Seq(ChildWatchers)]
    BY <1>2, <2>1, <2>2
  <2>4. QueueInv(signals, d, DefaultLoop)
    BY <1>1, ClearedQueue, Signalled DEF SignalInv
  <2> HIDE DEF d
  <2> QED BY <1>1, <2>1, <2>3, <2>4, QueueSignalInv
<1> QED BY <1>3, <1>4

\* ev_invoke_pending, of childcb with a child to wait for and of the others
LEMMA InvokeSignalInv ==
  ASSUME SignalInv, NEW l \in Loops, Invoke(l)
  PROVE  SignalInv'
<1>1. /\ HasPending(q[l]) /\ q' = [q EXCEPT ![l] = Popped(l)]
      /\ UNCHANGED <<signals, sigfd_set, handled, blocked, childs>>
  BY DEF Invoke, kernel
<1>2. QueueInv(signals, Popped(l), l)
  BY <1>1, PoppedQueue DEF Popped, SignalInv
<1> QED BY <1>1, <1>2, QueueSignalInv DEF SignalInv

LEMMA ChildcbSignalInv ==
  ASSUME SignalInv, NEW p \in Pids, Childcb(p)
  PROVE  /\ SignalInv'
         /\ \A w \in ChildWatchers : ~IsPending(q[DefaultLoop], w)
<1> DEFINE d == q[DefaultLoop]
           popped == PopEntry(d, NextPri(d))
           again == FeedEvent(popped, childev, {"EV_SIGNAL"})
           mine == Reap(again, childs[Chain(p)], p, news[p])
           all == Reap(mine, childs[0], p, news[p])
<1>0. DefaultLoop \in Loops /\ p \in Nat /\ 0 \in 0 .. EV_PID_HASHSIZE - 1
  BY SignalAssumption
<1>1. /\ HasPending(d) /\ TopEntry(d, NextPri(d)).w = childev
      /\ q' = [q EXCEPT ![DefaultLoop] = all]
      /\ UNCHANGED <<signals, sigfd_set, handled, blocked, childs>>
  BY DEF Childcb, kernel, Top, Popped, Requeue
<1>2. QueueInv(signals, d, DefaultLoop)
  BY <1>0 DEF SignalInv
<1>3. \A w \in ChildWatchers : ~IsPending(d, w)
  BY <1>1, <1>2, ChildevIsLast
<1> HIDE DEF d
<1>4. QueueInv(signals, popped, DefaultLoop)
  BY <1>1, <1>2, PoppedQueue
<1> HIDE DEF popped
<1>5. Grown(popped, again, {childev}, {"EV_SIGNAL"})
  BY <1>4, FeedGrows, Signalled DEF QueueInv
<1>6. IsPending(again, childev)
  BY <1>5, Signalled DEF Grown, FedTo
<1> HIDE DEF again
<1>7. QueueInv(signals, again, DefaultLoop)
  <2>1. \A w \in {childev} : In(signals[signum[w]].head, w) /\ signals[signum[w]].loop = DefaultLoop
    BY Signalled DEF SignalInv
  <2>2. {childev} \in SUBSET SigWatchers
    BY Signalled
  <2> QED BY <1>4, <1>5, <2>1, <2>2, FedQueue
<1>8. childs[Chain(p)] \in Seq(ChildWatchers) /\ childs[0] \in Seq(ChildWatchers)
  BY <1>0, ChainExists DEF SignalInv
<1>9. QueueInv(signals, mine, DefaultLoop) /\ IsPending(mine, childev)
  BY <1>6, <1>7, <1>8, ReapedQueue
<1> HIDE DEF mine
<1>10. QueueInv(signals, all, DefaultLoop)
  BY <1>8, <1>9, ReapedQueue
<1> HIDE DEF all
<1>11. SignalInv'
  BY <1>0, <1>1, <1>10, QueueSignalInv DEF SignalInv
<1> QED BY <1>3, <1>11 DEF d

\* wlist_add
LEMMA Linked ==
  ASSUME NEW S, NEW head \in Seq(S), NEW w \in S, NEW more, more = WlistAdd(head, w)
  PROVE  /\ more \in Seq(S) /\ more # <<>>
         /\ \A v : In(more, v) <=> v = w \/ In(head, v)
<1> DEFINE n == Len(head)
<1>1. <<w>> \in Seq(S) /\ Len(<<w>>) = 1 /\ <<w>>[1] = w /\ n \in Nat /\ DOMAIN head = 1 .. n
  OBVIOUS
<1>2. /\ more \in Seq(S) /\ Len(more) = 1 + n
      /\ \A i \in 1 .. 1 + n : more[i] = IF i <= 1 THEN <<w>>[i] ELSE head[i - 1]
  BY <1>1, ConcatProperties DEF WlistAdd
<1>3. DOMAIN more = 1 .. 1 + n /\ more # <<>>
  BY <1>1, <1>2
<1>4. more[1] = w /\ 1 \in DOMAIN more
  BY <1>1, <1>2, <1>3
<1>5. ASSUME NEW v, In(head, v) PROVE In(more, v)
  <2>1. PICK i \in 1 .. n : head[i] = v
    BY <1>1, <1>5 DEF In
  <2>2. i + 1 \in 1 .. 1 + n /\ ~(i + 1 <= 1) /\ (i + 1) - 1 = i
    BY <1>1
  <2>3. more[i + 1] = v
    BY <1>2, <2>1, <2>2
  <2> QED BY <1>3, <2>2, <2>3 DEF In
<1>6. ASSUME NEW v, In(more, v), v # w PROVE In(head, v)
  <2>1. PICK i \in 1 .. 1 + n : more[i] = v
    BY <1>3, <1>6 DEF In
  <2>2. i # 1
    BY <1>4, <1>6, <2>1
  <2>3. i - 1 \in 1 .. n /\ head[i - 1] = v
    BY <1>1, <1>2, <2>1, <2>2
  <2> QED BY <1>1, <2>3 DEF In
<1> QED BY <1>2, <1>3, <1>4, <1>5, <1>6 DEF In

LEMMA StartSignalInv ==
  ASSUME SignalInv, NEW w \in SigWatchers, NEW l \in Loops, SignalStart(w, l)
  PROVE  SignalInv'
<1> DEFINE s == signum[w]
           head == signals[s].head
           more == WlistAdd(head, w)
<1>1. s \in Signals /\ AttachInv(s) /\ head \in Seq(SigWatchers) /\ DOMAIN signals = Signals
  BY Signalled DEF SignalInv, AttachInv
<1>2. /\ signals[s].loop \in {NULL, l}
      /\ signals' = [signals EXCEPT ![s].loop = l, ![s].head = more]
      /\ UNCHANGED <<childs, q>>
  BY DEF SignalStart
<1>3. IF l \in SIGNALFD
        THEN /\ sigfd_set' = [sigfd_set EXCEPT ![l] = @ \cup {s}]
             /\ blocked' = blocked \cup sigfd_set'[l] /\ UNCHANGED handled
        ELSE handled' = handled \cup {s} /\ UNCHANGED <<sigfd_set, blocked>>
  BY DEF SignalStart
<1>4. /\ more \in Seq(SigWatchers) /\ more # <<>>
      /\ \A v : In(more, v) <=> v = w \/ In(head, v)
  <2> HIDE DEF head
  <2>1. more = WlistAdd(head, w)
    OBVIOUS
  <2> HIDE DEF more, s
  <2> QED BY <1>1, <2>1, Linked
<1>5. \A i \in DOMAIN more : signum[more[i]] = s
  <2> SUFFICES ASSUME NEW i \in DOMAIN more PROVE signum[more[i]] = s
    OBVIOUS
  <2>1. In(more, more[i])
    BY DEF In
  <2> HIDE DEF more, head
  <2>2. more[i] = w \/ In(head, more[i])
    BY <1>4, <2>1
  <2>3. \A j \in DOMAIN head : signum[head[j]] = s
    BY <1>1 DEF AttachInv, head
  <2> QED BY <2>2, <2>3 DEF In, s
<1> HIDE DEF head, more
<1>6. /\ signals'[s].loop = l /\ signals'[s].head = more /\ DOMAIN signals' = Signals
      /\ signals'[s] \in [loop : Loops \cup {NULL}, pending : BOOLEAN, head : Seq(SigWatchers)]
      /\ \A x \in Signals : x # s => signals'[x] = signals[x]
  <2>1. signals[s] \in [loop : Loops \cup {NULL}, pending : BOOLEAN, head : Seq(SigWatchers)]
    BY <1>1 DEF AttachInv
  <2> QED BY <1>1, <1>2, <1>4, <2>1
<1>7. NULL \notin Loops /\ SIGNALFD \subseteq Loops /\ sigfd_set \in [Loops -> SUBSET Signals]
  BY SignalAssumption DEF SignalInv
<1> HIDE DEF s
<1>8. sigfd_set' \in [Loops -> SUBSET Signals]
  BY <1>1, <1>3, <1>7
<1>9. \A x \in Signals : /\ x # s => (x \in handled' <=> x \in handled)
                         /\ x # s => \A k \in Loops : x \in sigfd_set'[k] <=> x \in sigfd_set[k]
                         /\ x # s => (x \in blocked' <=> x \in blocked)
  <2> SUFFICES ASSUME NEW x \in Signals, x # s
               PROVE  /\ x \in handled' <=> x \in handled
                      /\ \A k \in Loops : x \in sigfd_set'[k] <=> x \in sigfd_set[k]
                      /\ x \in blocked' <=> x \in blocked
    OBVIOUS
  <2>1. (x \in handled' <=> x \in handled) /\ \A k \in Loops : x \in sigfd_set'[k] <=> x \in sigfd_set[k]
    BY <1>3, <1>7
  <2>2. x \in sigfd_set[l] /\ l \in SIGNALFD => x \in blocked
    BY DEF SignalInv, AttachInv
  <2> QED BY <1>3, <2>1, <2>2
<1>10. AttachInv(s)'
  <2>1. CASE l \in SIGNALFD
    <3>1. s \notin handled
      BY <1>1, <1>2, <1>7, <2>1 DEF AttachInv
    <3>2. s \in sigfd_set'[l] /\ \A k \in Loops : k # l => s \notin sigfd_set'[k]
      BY <1>1, <1>2, <1>3, <1>7, <2>1 DEF AttachInv
    <3>3. s \notin handled' /\ s \in blocked'
      BY <1>3, <2>1, <3>1, <3>2
    <3> QED BY <1>4, <1>5, <1>6, <1>7, <2>1, <3>2, <3>3 DEF AttachInv
  <2>2. CASE l \notin SIGNALFD
    <3>1. s \notin blocked /\ \A k \in Loops : s \notin sigfd_set[k]
      BY <1>1, <1>2, <1>7, <2>2 DEF AttachInv
    <3>2. s \notin blocked' /\ s \in handled' /\ \A k \in Loops : s \notin sigfd_set'[k]
      BY <1>3, <2>2, <3>1
    <3> QED BY <1>4, <1>5, <1>6, <1>7, <2>2, <3>2 DEF AttachInv
  <2> QED BY <2>1, <2>2
<1>11. ASSUME NEW x \in Signals, x # s PROVE AttachInv(x)'
  <2>1. AttachInv(x) /\ signals'[x] = signals[x]
    BY <1>6, <1>11 DEF SignalInv
  <2> QED BY <1>9, <1>11, <2>1 DEF AttachInv
<1>12. \A x \in Signals :
         /\ \A v : In(signals[x].head, v) => In(signals'[x].head, v)
         /\ \A v : In(signals[x].head, v) => signals'[x].loop = signals[x].loop
  <2> SUFFICES ASSUME NEW x \in Signals, NEW v, In(signals[x].head, v)
               PROVE  In(signals'[x].head, v) /\ signals'[x].loop = signals[x].loop
    OBVIOUS
  <2>1. CASE x = s
    <3>1. In(head, v) /\ head # <<>>
      BY <2>1 DEF In, head
    <3>2. signals[s].loop = l
      BY <1>1, <1>2, <3>1 DEF AttachInv, head
    <3> QED BY <1>4, <1>6, <2>1, <3>1, <3>2
  <2>2. CASE x # s
    BY <1>6, <2>2
  <2> QED BY <2>1, <2>2
<1>13. In(signals[SIGCHLD].head, childev)' /\ (signals[SIGCHLD].loop = DefaultLoop)'
  BY <1>12, Signalled DEF SignalInv
<1>14. ASSUME NEW k \in Loops PROVE QueueInv(signals', q'[k], k)
  <2>1. q'[k] = q[k] /\ QueueInv(signals, q[k], k)
    BY <1>2 DEF SignalInv
  <2>2. ASSUME NEW v \in SigWatchers, IsPending(q[k], v)
        PROVE  In(signals'[signum[v]].head, v) /\ signals'[signum[v]].loop = k
    <3>1. signum[v] \in Signals
      BY Signalled
    <3>2. In(signals[signum[v]].head, v) /\ signals[signum[v]].loop = k
      BY <2>1, <2>2 DEF QueueInv
    <3> QED BY <1>12, <3>1, <3>2
  <2> QED BY <2>1, <2>2 DEF QueueInv
<1> QED BY <1>2, <1>6, <1>8, <1>10, <1>11, <1>13, <1>14 DEF SignalInv

LEMMA StopSignalInv ==
  ASSUME SignalInv, NEW w \in SigWatchers, SignalStop(w)
  PROVE  SignalInv'
<1> DEFINE s == signum[w]
           l == signals[s].loop
           head == signals[s].head
           rest == WlistDel(head, w)
           d == ClearPending(q[l], w)
<1>1. s \in Signals /\ AttachInv(s) /\ head \in Seq(SigWatchers) /\ DOMAIN signals = Signals
  BY Signalled DEF SignalInv, AttachInv
<1>2. /\ w # childev /\ In(head, w) /\ q' = [q EXCEPT ![l] = d] /\ UNCHANGED childs
      /\ signals' = [signals EXCEPT ![s].head = rest, ![s].loop = IF rest = <<>> THEN NULL ELSE l]
  BY DEF SignalStop, IsActive
<1>3. IF rest # <<>> THEN UNCHANGED <<sigfd_set, handled, blocked>>
      ELSE IF l \in SIGNALFD
        THEN /\ sigfd_set' = [sigfd_set EXCEPT ![l] = @ \ {s}]
             /\ blocked' = blocked \ {s} /\ UNCHANGED handled
        ELSE handled' = handled \ {s} /\ UNCHANGED <<sigfd_set, blocked>>
  BY DEF SignalStop, kernel
<1>4. /\ rest \in Seq(SigWatchers)
      /\ \A v : v # w => (In(rest, v) <=> In(head, v))
      /\ \A i \in DOMAIN rest : In(head, rest[i])
  BY <1>1, <1>2, Unlinked
<1>5. NULL \notin Loops /\ SIGNALFD \subseteq Loops /\ sigfd_set \in [Loops -> SUBSET Signals]
  BY SignalAssumption DEF SignalInv
<1>6. head # <<>> /\ l \in Loops
  <2>1. head # <<>>
    BY <1>2 DEF In
  <2>2. signals[s].loop \in Loops \cup {NULL}
    BY <1>1 DEF AttachInv
  <2> QED BY <1>1, <2>1, <2>2 DEF AttachInv
<1>7. \A i \in DOMAIN rest : signum[rest[i]] = s
  <2>1. \A i \in DOMAIN head : signum[head[i]] = s
    BY <1>1 DEF AttachInv
  <2> HIDE DEF rest, head, s
  <2> QED BY <1>4, <2>1 DEF In
<1>8. QueueInv(signals, d, l) /\ ~IsPending(d, w)
  BY <1>2, <1>6, ClearedQueue, Signalled DEF SignalInv
<1> HIDE DEF rest, d
<1>9. /\ signals'[s].loop = (IF rest = <<>> THEN NULL ELSE l) /\ signals'[s].head = rest
      /\ DOMAIN signals' = Signals
      /\ signals'[s] \in [loop : Loops \cup {NULL}, pending : BOOLEAN, head : Seq(SigWatchers)]
      /\ \A x \in Signals : x # s => signals'[x] = signals[x]
  <2>1. signals[s] \in [loop : Loops \cup {NULL}, pending : BOOLEAN, head : Seq(SigWatchers)]
    BY <1>1 DEF AttachInv
  <2>2. (IF rest = <<>> THEN NULL ELSE l) \in Loops \cup {NULL}
    BY <1>6
  <2> HIDE DEF l
  <2> QED BY <1>1, <1>2, <1>4, <2>1, <2>2
<1>10. sigfd_set' \in [Loops -> SUBSET Signals]
  BY <1>3, <1>5
<1>11. ASSUME NEW x \in Signals, x # s PROVE AttachInv(x)'
  <2>1. AttachInv(x) /\ signals'[x] = signals[x]
    BY <1>9, <1>11 DEF SignalInv
  <2>2. /\ x \in handled' <=> x \in handled
        /\ \A k \in Loops : x \in sigfd_set'[k] <=> x \in sigfd_set[k]
        /\ x \in blocked' <=> x \in blocked
    BY <1>3, <1>5, <1>11
  <2> QED BY <2>1, <2>2 DEF AttachInv
<1>12. AttachInv(s)'
  <2>1. CASE rest # <<>>
    <3>1. signals'[s].loop = l
      BY <1>9, <2>1
    <3>2. UNCHANGED <<sigfd_set, handled, blocked>>
      BY <1>3, <2>1
    <3> QED BY <1>1, <1>5, <1>6, <1>7, <1>9, <2>1, <3>1, <3>2 DEF AttachInv
  <2>2. CASE rest = <<>>
    <3>1. signals'[s].loop = NULL /\ NULL \notin SIGNALFD
      BY <1>5, <1>9, <2>2
    <3>2. s \notin handled'
      BY <1>1, <1>3, <2>2 DEF AttachInv
    <3>3. s \notin blocked' /\ \A k \in Loops : s \notin sigfd_set'[k]
      BY <1>1, <1>3, <1>5, <2>2 DEF AttachInv
    <3> QED BY <1>5, <1>7, <1>9, <2>2, <3>1, <3>2, <3>3 DEF AttachInv
  <2> QED BY <2>1, <2>2
<1>13. ASSUME NEW x \in Signals, NEW v, v # w, In(signals[x].head, v)
       PROVE  In(signals'[x].head, v) /\ signals'[x].loop = signals[x].loop
  <2>1. CASE x = s
    <3>1. In(rest, v) /\ rest # <<>>
      BY <1>4, <1>13, <2>1 DEF In
    <3> QED BY <1>9, <2>1, <3>1
  <2>2. CASE x # s
    BY <1>9, <1>13, <2>2
  <2> QED BY <2>1, <2>2
<1>14. In(signals[SIGCHLD].head, childev)' /\ (signals[SIGCHLD].loop = DefaultLoop)'
  BY <1>2, <1>13, Signalled DEF SignalInv
<1>15. ASSUME NEW k \in Loops PROVE QueueInv(signals', q'[k], k)
  <2>1. QueueInv(signals, q'[k], k) /\ ~IsPending(q'[k], w)
    <3>1. CASE k = l
      BY <1>2, <1>8, <3>1 DEF SignalInv
    <3>2. CASE k # l
      <4>1. q'[k] = q[k] /\ QueueInv(signals, q[k], k)
        BY <1>2, <3>2 DEF SignalInv
      <4> QED BY <3>2, <4>1 DEF QueueInv
    <3> QED BY <3>1, <3>2
  <2> QED BY <1>13, <2>1, Signalled DEF QueueInv
<1>16. DOMAIN q' = Loops
  BY <1>2 DEF SignalInv
<1> QED BY <1>2, <1>9, <1>10, <1>11, <1>12, <1>14, <1>15, <1>16 DEF SignalInv

-----------------------------------------------------------------------------
LEMMA StepSignalInv == SignalInv /\ [SignalNext]_signal_vars => SignalInv'
<1> SUFFICES ASSUME SignalInv, [SignalNext]_signal_vars PROVE SignalInv'
  OBVIOUS
<1>1. CASE UNCHANGED signal_vars
  <2>1. UNCHANGED <<signals, sigfd_set, handled, blocked, childs, q>>
    BY <1>1 DEF signal_vars
  <2> QED BY <2>1, SameTable, KeepsSignalInv DEF SignalInv
<1>2. ASSUME NEW s \in Signals, Kill(s) PROVE SignalInv'
  BY <1>2, DeliverSignalInv DEF Kill
<1>3. ASSUME NEW p \in Pids, NEW status \in {"stopped", "exited"}, ChildChanges(p, status)
      PROVE  SignalInv'
  BY <1>3, DeliverSignalInv, Signalled DEF ChildChanges
<1>4. ASSUME NEW w \in SigWatchers, SignalStop(w) PROVE SignalInv'
  BY <1>4, StopSignalInv
<1>5. ASSUME NEW w \in SigWatchers, NEW l \in Loops, SignalStart(w, l) PROVE SignalInv'
  BY <1>5, StartSignalInv
<1>6. ASSUME NEW w \in ChildWatchers, ChildStart(w) \/ ChildStop(w) PROVE SignalInv'
  BY <1>6, ChildSignalInv
<1>7. ASSUME NEW l \in Loops, LoopStep(l) PROVE SignalInv'
  <2>1. CASE Pipecb(l)
    <3> DEFINE found == {s \in Signals : signals[s].pending}
    <3>1. found \in SUBSET Signals
      OBVIOUS
    <3> QED BY <2>1, <3>1, CollectSignalInv DEF Pipecb, kernel
  <2>2. CASE Sigfdcb(l)
    <3> DEFINE found == arrived \cap sigfd_set[l]
    <3>1. found \in SUBSET Signals
      BY DEF SignalInv
    <3> QED BY <2>2, <3>1, CollectSignalInv DEF Sigfdcb
  <2>3. CASE Invoke(l)
    BY <2>3, InvokeSignalInv
  <2>4. CASE l = DefaultLoop /\ \E p \in Pids : Childcb(p)
    BY <2>4, ChildcbSignalInv
  <2> QED BY <1>7, <2>1, <2>2, <2>3, <2>4 DEF LoopStep
<1> QED BY <1>1, <1>2, <1>3, <1>4, <1>5, <1>6, <1>7 DEF SignalNext

(***************************************************************************)
(* In every reachable state a signal belongs to the loop of its active     *)
(* watchers, is handled or read from a signalfd exactly while it has some, *)
(* and each loop has only its own watchers in its queue.                   *)
(***************************************************************************)
THEOREM SignalsStayAttached == SignalSpec => []SignalsAttached
<1>1. SignalInv => SignalsAttached
  <2> SUFFICES ASSUME SignalInv PROVE Attached /\ OwnLoop
    BY DEF SignalsAttached
  <2>1. ASSUME NEW s \in Signals
        PROVE  /\ (signals[s].head = <<>>) = (signals[s].loop = NULL)
               /\ signals[s].head # <<>> <=>
                    s \in handled \/ \E l \in Loops : s \in sigfd_set[l] /\ s \in blocked
    <3>1. /\ signals[s].loop \in Loops \cup {NULL} /\ NULL \notin Loops /\ SIGNALFD \subseteq Loops
          /\ signals[s].head = <<>> <=> signals[s].loop = NULL
          /\ s \in handled <=> signals[s].loop \in Loops \ SIGNALFD
          /\ \A l \in Loops : s \in sigfd_set[l] <=> signals[s].loop = l /\ l \in SIGNALFD
          /\ s \in blocked <=> signals[s].loop \in SIGNALFD
      BY SignalAssumption DEF SignalInv, AttachInv
    <3> QED BY <3>1
  <2>2. ASSUME NEW l \in Loops, NEW w \in SigWatchers, IsPending(q[l], w)
        PROVE  IsActive(w) /\ signals[signum[w]].loop = l
    BY <2>2 DEF SignalInv, QueueInv, IsActive
  <2> QED BY <2>1, <2>2 DEF Attached, OwnLoop
<1> QED BY <1>1, InitSignalInv, StepSignalInv, PTL DEF SignalSpec

(***************************************************************************)
(* childcb never overwrites the status of an ev_child whose callback has   *)
(* not run yet: the queue being a stack, childcb's own event comes after   *)
(* those of the child watchers it fed.                                     *)
(***************************************************************************)
THEOREM StatusIsKept == SignalSpec => StatusKept
<1> DEFINE Kept == \A w \in ChildWatchers :
                     rstatus'[w] # rstatus[w] => ~IsPending(q[DefaultLoop], w)
<1>1. SignalInv /\ [SignalNext]_signal_vars => [Kept]_signal_vars
  <2> SUFFICES ASSUME SignalInv, SignalNext PROVE Kept
    OBVIOUS
  <2>1. CASE \E p \in Pids : Childcb(p)
    BY <2>1, ChildcbSignalInv
  <2>2. CASE rstatus' = rstatus
    BY <2>2
  <2>3. (\E p \in Pids : Childcb(p)) \/ rstatus' = rstatus
    BY DEF SignalNext, Kill, ChildChanges, Deliver, SignalStart, SignalStop, ChildStart,
           ChildStop, LoopStep, Pipecb, Sigfdcb, Invoke
  <2> QED BY <2>1, <2>2, <2>3
<1> QED BY <1>1, InitSignalInv, StepSignalInv, PTL DEF SignalSpec, StatusKept

-----------------------------------------------------------------------------
\* Periodics

\* What the next time of a periodic is: a number, and not one that has passed
\* when the periodic repeats
LEMMA RoundIsInt ==
  ASSUME NEW t \in Int
  PROVE  Round(t) \in Int
<1>1. RESOLUTION \in Nat \ {0}
  BY PeriodicAssumption
<1>2. t \div RESOLUTION \in Int
  BY <1>1
<1> QED BY <1>1, <1>2 DEF Round

LEMMA Beyond ==
  ASSUME NEW a \in Int, NEW rt \in Int, a <= rt, NEW step \in Nat, step # 0,
         NEW n, n = a + step * ((rt - a) \div step + 1)
  PROVE  n \in Int /\ n > rt
<1> DEFINE d == rt - a
<1>1. d \in Int /\ step \in Nat \ {0}
  OBVIOUS
<1>2. d \div step \in Int /\ d % step \in 0 .. step - 1 /\ d = (step * (d \div step)) + (d % step)
  BY <1>1, DivMod
<1> DEFINE m == d \div step
<1>3. step * (m + 1) = step * m + step
  BY <1>2
<1>4. step * m \in Int /\ step * m + step > d
  BY <1>2
<1>5. n = a + (step * m + step)
  BY <1>3
<1> QED BY <1>4, <1>5

LEMMA RecalcIsAhead ==
  ASSUME NEW offset \in Int, NEW interval \in Nat, NEW rt \in Int, NEW at,
         at = Recalc(offset, interval, rt)
  PROVE  at \in Int /\ at >= rt
<1> DEFINE grid == IF interval > MIN_INTERVAL THEN interval ELSE MIN_INTERVAL
           first == Round(offset + grid * ((rt - offset) \div grid))
           step == Round(interval)
<1>1. grid \in Nat \ {0}
  BY PeriodicAssumption
<1>2. first \in Int
  <2> HIDE DEF grid
  <2>1. (rt - offset) \div grid \in Int
    BY <1>1
  <2>2. offset + grid * ((rt - offset) \div grid) \in Int
    BY <1>1, <2>1
  <2> QED BY <2>2, RoundIsInt
<1>3. step \in Nat
  <2>1. RESOLUTION \in Nat \ {0}
    BY PeriodicAssumption
  <2>2. interval \div RESOLUTION \in Nat
    BY <2>1
  <2> QED BY <2>1, <2>2 DEF Round
<1>4. at = CASE first > rt              -> first
             [] first <= rt /\ step = 0 -> rt
             [] OTHER                   -> first + step * ((rt - first) \div step + 1)
  BY DEF Recalc
<1> HIDE DEF first, step
<1>5. CASE first > rt
  BY <1>2, <1>4, <1>5
<1>6. CASE first <= rt /\ step = 0
  BY <1>2, <1>4, <1>6
<1>7. CASE first <= rt /\ step # 0
  <2>1. at = first + step * ((rt - first) \div step + 1)
    BY <1>2, <1>4, <1>7
  <2>2. at \in Int /\ at > rt
    BY <1>2, <1>3, <1>7, <2>1, Beyond
  <2> QED BY <2>2
<1> QED BY <1>2, <1>5, <1>6, <1>7

Repeats(w) == kind[w].cb \/ kind[w].interval # 0

LEMMA KindTypes ==
  ASSUME NEW w \in Periodics, kind \in [Periodics -> Kinds]
  PROVE  /\ kind[w].cb \in BOOLEAN /\ kind[w].offset \in Int /\ kind[w].interval \in Nat
         /\ kind[w].cb => kind[w].interval = 0
<1>1. kind[w] \in Kinds
  OBVIOUS
<1>2. CASE kind[w] \in [offset : Offsets, interval : Intervals, cb : {FALSE}]
  <2>1. kind[w].offset \in Offsets /\ kind[w].interval \in Intervals /\ kind[w].cb = FALSE
    BY <1>2
  <2> QED BY <2>1, PeriodicAssumption
<1>3. CASE kind[w] \in [offset : {0}, interval : {0}, cb : {TRUE}]
  <2>1. kind[w].offset \in {0} /\ kind[w].interval \in {0} /\ kind[w].cb \in {TRUE}
    BY <1>3
  <2>2. kind[w].cb \in BOOLEAN
    BY <2>1, Zenon
  <2>3. kind[w].offset = 0 /\ kind[w].interval = 0
    BY <2>1
  <2> QED BY <2>2, <2>3
<1> QED BY <1>1, <1>2, <1>3 DEF Kinds

LEMMA NextAtIsAhead ==
  ASSUME NEW w \in Periodics, kind \in [Periodics -> Kinds], NEW at \in Int, NEW rt \in Int,
         NEW next, next = NextAt(w, at, rt)
  PROVE  next \in Int /\ (Repeats(w) => next >= rt)
<1>1. /\ kind[w].cb \in BOOLEAN /\ kind[w].offset \in Int /\ kind[w].interval \in Nat
      /\ kind[w].cb => kind[w].interval = 0
  BY KindTypes
<1>2. CASE kind[w].cb
  <2>1. next = RescheduleCb(rt)
    <3>1. ~(kind[w].interval # 0)
      BY <1>1, <1>2
    <3> QED BY <1>2, <3>1, Zenon DEF NextAt
  <2>2. CB_STEP \in Nat \ {0}
    BY PeriodicAssumption
  <2>3. rt \div CB_STEP \in Int /\ rt % CB_STEP \in 0 .. CB_STEP - 1
        /\ rt = (CB_STEP * (rt \div CB_STEP)) + (rt % CB_STEP)
    BY <2>2, DivMod
  <2> DEFINE m == rt \div CB_STEP
  <2>4. (m + 1) * CB_STEP = CB_STEP * m + CB_STEP
    BY <2>2, <2>3
  <2>5. CB_STEP * m \in Int /\ CB_STEP * m + CB_STEP > rt
    BY <2>2, <2>3
  <2>6. next = CB_STEP * m + CB_STEP
    BY <2>1, <2>4 DEF RescheduleCb
  <2> HIDE DEF m
  <2> QED BY <2>2, <2>5, <2>6
<1>3. CASE ~kind[w].cb /\ kind[w].interval # 0
  <2>1. next = Recalc(kind[w].offset, kind[w].interval, rt)
    BY <1>3 DEF NextAt
  <2>2. PICK offset \in Int : offset = kind[w].offset
    BY <1>1
  <2>3. PICK interval \in Nat : interval = kind[w].interval
    BY <1>1
  <2>4. next = Recalc(offset, interval, rt)
    BY <2>1, <2>2, <2>3
  <2> QED BY <2>4, RecalcIsAhead
<1>4. CASE ~kind[w].cb /\ ~(kind[w].interval # 0)
  BY <1>4 DEF NextAt, Repeats
<1> QED BY <1>2, <1>3, <1>4

-----------------------------------------------------------------------------
NowType == [mn_now : Int, ev_rt_now : Int, now_floor : Int, rtmn_diff : Int]

\* A heap of periodics
Kept(s) == HeapState(s, Periodics) /\ HeapOK(s)

\* No periodic that has been fed is overdue.
NoneAgain(s, fed, rt) ==
  \A i \in 1 .. Len(s.heap) : s.heap[i].w \in fed => s.heap[i].at >= rt

\* Times and clocks are numbers, and while periodics are fed those that have
\* been are not overdue again.
PeriodicInv ==
  /\ Kept(periodics)
  /\ kind \in [Periodics -> Kinds] /\ have_monotonic \in BOOLEAN
  /\ mono \in Int /\ real \in 0 .. MaxTime /\ timer \in Int
  /\ now \in NowType /\ (~have_monotonic => now.mn_now >= 0)
  /\ phase \in {"poll", "polled"} => pending = {}
  /\ phase = "reify" => NoneAgain(periodics, pending, now.ev_rt_now)

LEMMA InitPeriodicInv == PeriodicInit => PeriodicInv
<1> SUFFICES ASSUME PeriodicInit PROVE PeriodicInv
  OBVIOUS
<1>1. /\ have_monotonic \in BOOLEAN /\ mono \in Int /\ real \in 0 .. MaxTime
      /\ kind \in [Periodics -> Kinds] /\ pending = {} /\ phase = "user"
      /\ MAX_BLOCKTIME \in Int /\ MaxTime \in Nat
  BY PeriodicAssumption DEF PeriodicInit, ClockTimes
<1>2. /\ now = [mn_now |-> IF have_monotonic THEN 0 ELSE real, ev_rt_now |-> real,
                now_floor |-> 0, rtmn_diff |-> real]
      /\ timer = now.mn_now + MAX_BLOCKTIME
  BY DEF PeriodicInit
<1>3. now \in NowType /\ (~have_monotonic => now.mn_now >= 0)
  BY <1>1, <1>2 DEF NowType
<1>4. timer \in Int
  BY <1>1, <1>2
<1>5. /\ periodics.heap = <<>> /\ periodics.active = [w \in Periodics |-> 0]
      /\ periodics \in [heap : Seq(Anhe(Periodics)), active : [Periodics -> Nat]]
  BY DEF PeriodicInit
<1>6. Kept(periodics)
  <2>1. Len(periodics.heap) = 0
    BY <1>5
  <2>2. HeapState(periodics, Periodics)
    BY <1>5, <2>1 DEF HeapState
  <2>3. Indexed(periodics) /\ InHeapOrder(periodics.heap)
        /\ \A w \in Periodics \ Watched(periodics.heap) : periodics.active[w] = 0
    BY <1>5, <2>1 DEF Indexed, InHeapOrder
  <2> QED BY <2>2, <2>3, HeapIsOK DEF Kept
<1> QED BY <1>1, <1>3, <1>4, <1>6 DEF PeriodicInv

\* periodics_reschedule: the heap is one again.
LEMMA RescheduledDone ==
  ASSUME Kept(periodics), kind \in [Periodics -> Kinds], NEW rt \in Int,
         NEW t, t = Rescheduled(rt)
  PROVE  Kept(t)
<1> DEFINE n == Len(periodics.heap)
           h == [i \in DOMAIN periodics.heap |->
                   [w |-> periodics.heap[i].w,
                    at |-> NextAt(periodics.heap[i].w, periodics.heap[i].at, rt)]]
           s == [heap |-> h, active |-> periodics.active]
<1>1. /\ periodics \in [heap : Seq(Anhe(Periodics)), active : [Periodics -> Nat]]
      /\ periodics.heap \in Seq(Anhe(Periodics))
      /\ \A i, j \in 1 .. n : periodics.heap[i].w = periodics.heap[j].w => i = j
  BY DEF Kept, HeapState
<1>2. /\ n \in Nat /\ DOMAIN periodics.heap = 1 .. n
      /\ \A i \in 1 .. n : periodics.heap[i].w \in Periodics /\ periodics.heap[i].at \in Int
  BY <1>1, ElementTypes DEF Kept
<1>3. \A x : [periodics EXCEPT !.heap = x] = [heap |-> x, active |-> periodics.active]
  BY <1>1
<1>4. t = ReHeap(s)
  <2>1. t = ReHeap([periodics EXCEPT !.heap = h])
    BY Zenon DEF Rescheduled
  <2> HIDE DEF h
  <2> QED BY <1>3, <2>1
<1>5. ASSUME NEW i \in 1 .. n PROVE h[i] \in Anhe(Periodics) /\ h[i].w = periodics.heap[i].w
  <2> DEFINE next == NextAt(periodics.heap[i].w, periodics.heap[i].at, rt)
  <2>1. next \in Int
    BY <1>2, NextAtIsAhead
  <2>2. h[i] = [w |-> periodics.heap[i].w, at |-> next]
    BY <1>2
  <2> HIDE DEF next, h
  <2> QED BY <1>2, <2>1, <2>2 DEF Anhe
<1>6. h \in Seq(Anhe(Periodics)) /\ Len(h) = n
  <2>1. DOMAIN h = 1 .. n /\ h = [i \in 1 .. n |-> h[i]]
    BY <1>2
  <2> HIDE DEF h
  <2>2. h \in [1 .. n -> Anhe(Periodics)]
    BY <1>5, <2>1
  <2> QED BY <1>2, <2>2, FunctionIsSeq
<1> HIDE DEF h
<1>7. s.heap = h /\ s.active = periodics.active
  OBVIOUS
<1>8. HeapState(s, Periodics)
  <2>1. s \in [heap : Seq(Anhe(Periodics)), active : [Periodics -> Nat]]
    BY <1>1, <1>6
  <2> QED BY <1>1, <1>5, <1>6, <2>1 DEF HeapState
<1>9. /\ Indexed(periodics)
      /\ \A w \in Periodics \ Watched(periodics.heap) : periodics.active[w] = 0
  BY HeapIsOK DEF Kept
<1>10. Indexed(s) /\ Watched(s.heap) = Watched(periodics.heap)
  BY <1>5, <1>6, <1>7, <1>9 DEF Indexed, Watched
<1> HIDE DEF s
<1>11. HeapState(t, Periodics) /\ HeapOK(t)
  BY <1>4, <1>7, <1>8, <1>9, <1>10, ReHeapDone
<1> QED BY <1>11 DEF Kept

\* time_update: the loop's times stay numbers, and without a monotonic clock
\* its time is the wall clock's.
LEMMA Updated ==
  ASSUME PeriodicInv, NEW max_block, NEW u, u = Update(max_block)
  PROVE  /\ u.now \in NowType /\ u.shift \in Int
         /\ have_monotonic => u.shift = 0
         /\ ~have_monotonic => /\ u.now.mn_now = real
                               /\ u.shift = IF ImpossibleTime(max_block) THEN real - now.mn_now ELSE 0
<1>1. /\ mono \in Int /\ real \in Int
      /\ now.mn_now \in Int /\ now.ev_rt_now \in Int /\ now.now_floor \in Int /\ now.rtmn_diff \in Int
      /\ now \in NowType
  BY PeriodicAssumption DEF PeriodicInv, NowType
<1>2. CASE have_monotonic /\ 2 * (mono - now.now_floor) < MIN_TIMEJUMP
  <2>1. u.now = [now EXCEPT !.mn_now = mono, !.ev_rt_now = now.rtmn_diff + mono] /\ u.shift = 0
    BY <1>2 DEF Update
  <2>2. now.rtmn_diff + mono \in Int
    BY <1>1
  <2>3. u.now \in NowType
    BY <1>1, <2>1, <2>2 DEF NowType
  <2> QED BY <1>2, <2>1, <2>3
<1>3. CASE have_monotonic /\ ~(2 * (mono - now.now_floor) < MIN_TIMEJUMP)
  <2>1. /\ u.now = [mn_now |-> mono, ev_rt_now |-> real, now_floor |-> mono,
                    rtmn_diff |-> real - mono]
        /\ u.shift = 0
    BY <1>3 DEF Update
  <2>2. real - mono \in Int
    BY <1>1
  <2>3. u.now \in NowType
    BY <1>1, <2>1, <2>2 DEF NowType
  <2> QED BY <1>3, <2>1, <2>3
<1>4. CASE ~have_monotonic
  <2>1. /\ u.now = [now EXCEPT !.mn_now = real, !.ev_rt_now = real]
        /\ u.shift = IF ImpossibleTime(max_block) THEN real - now.mn_now ELSE 0
    BY <1>4 DEF Update
  <2>2. u.now \in NowType /\ u.now.mn_now = real
    BY <1>1, <2>1 DEF NowType
  <2>3. u.shift \in Int
    BY <1>1, <2>1
  <2> QED BY <1>4, <2>1, <2>2, <2>3
<1> QED BY <1>2, <1>3, <1>4

\* What time_update changes, as every action that calls it leaves it
LEMMA UpdatedInv ==
  ASSUME PeriodicInv, NEW max_block, NEW u, u = Update(max_block),
         now' = u.now, timer' \in Int, UNCHANGED <<clocks, given>>,
         \/ periodics' = periodics
         \/ \E rt \in Int : periodics' = Rescheduled(rt),
         phase' \in {"poll", "polled"} => pending' = {},
         phase' = "reify" => pending' = {}
  PROVE  PeriodicInv'
<1>1. now' \in NowType /\ (~have_monotonic' => now'.mn_now >= 0)
  <2>1. u.now \in NowType /\ (~have_monotonic => u.now.mn_now = real)
    BY Updated
  <2> QED BY <2>1, PeriodicAssumption DEF PeriodicInv, given
<1>2. Kept(periodics')
  <2>1. CASE periodics' = periodics
    BY <2>1 DEF PeriodicInv
  <2>2. CASE \E rt \in Int : periodics' = Rescheduled(rt)
    BY <2>2, RescheduledDone DEF PeriodicInv
  <2> QED BY <2>1, <2>2
<1>3. phase' = "reify" => NoneAgain(periodics', pending', now'.ev_rt_now)
  BY DEF NoneAgain
<1> QED BY <1>1, <1>2, <1>3 DEF PeriodicInv, clocks, given

\* The loop's own times of a jump
LEMMA UpdateReschedules ==
  ASSUME PeriodicInv, NEW max_block, NEW u, u = Update(max_block),
         periodics' = IF u.jump THEN Rescheduled(u.now.ev_rt_now) ELSE periodics
  PROVE  periodics' = periodics \/ \E rt \in Int : periodics' = Rescheduled(rt)
<1>1. u.now.ev_rt_now \in Int
  BY Updated DEF NowType
<1> QED BY <1>1

-----------------------------------------------------------------------------
\* The actions

LEMMA EnvPeriodicInv ==
  ASSUME PeriodicInv, Tick \/ SetClock \/ (\E w \in Periodics : Callback(w)) \/ LoopPolls
         \/ LoopReified \/ UNCHANGED periodic_vars
  PROVE  PeriodicInv'
<1>1. RESOLUTION \in Nat /\ MaxTime \in Nat /\ ClockTimes \subseteq 0 .. MaxTime
  BY PeriodicAssumption DEF ClockTimes
<1>2. CASE Tick
  <2>1. /\ mono' \in Int /\ real' \in 0 .. MaxTime /\ phase' = phase
        /\ UNCHANGED <<now, periodics, kind, have_monotonic, pending, timer>>
    BY <1>1, <1>2 DEF Tick, PeriodicInv, given
  <2> QED BY <2>1 DEF PeriodicInv
<1>3. CASE SetClock
  <2>1. /\ mono' \in Int /\ real' \in 0 .. MaxTime /\ phase' = phase
        /\ UNCHANGED <<now, periodics, kind, have_monotonic, pending, timer>>
    BY <1>1, <1>3 DEF SetClock, PeriodicInv, given
  <2> QED BY <2>1 DEF PeriodicInv
<1>4. CASE \E w \in Periodics : Callback(w)
  <2>1. /\ phase = "user" /\ phase' = phase
        /\ UNCHANGED <<mono, real, now, periodics, kind, have_monotonic, timer>>
    BY <1>4 DEF Callback, given, clocks
  <2> QED BY <2>1 DEF PeriodicInv
<1>5. CASE LoopPolls
  <2>1. /\ mono' \in Int /\ real' \in 0 .. MaxTime /\ phase = "poll" /\ phase' = "polled"
        /\ UNCHANGED <<now, periodics, kind, have_monotonic, pending, timer>>
    <3>1. PICK d \in ClockTimes : /\ mono' = mono + d /\ real' = real + d
                                  /\ real + d <= MaxTime
      BY <1>5 DEF LoopPolls
    <3>2. d \in 0 .. MaxTime
      BY <1>1
    <3>3. mono' \in Int /\ real' \in 0 .. MaxTime
      BY <1>1, <3>1, <3>2 DEF PeriodicInv
    <3> QED BY <1>5, <3>3 DEF LoopPolls, given
  <2> QED BY <2>1 DEF PeriodicInv
<1>6. CASE LoopReified
  <2>1. /\ phase' = "user"
        /\ UNCHANGED <<mono, real, now, periodics, kind, have_monotonic, pending, timer>>
    BY <1>6 DEF LoopReified, given, clocks
  <2> QED BY <2>1 DEF PeriodicInv
<1>7. CASE UNCHANGED periodic_vars
  <2>1. UNCHANGED <<mono, real, now, periodics, kind, have_monotonic, pending, timer, phase>>
    BY <1>7 DEF periodic_vars
  <2> QED BY <2>1 DEF PeriodicInv
<1> QED BY <1>2, <1>3, <1>4, <1>5, <1>6, <1>7

\* ev_periodic_stop, the heap after it
LEMMA StoppedDone ==
  ASSUME Kept(periodics), NEW w \in Periodics, NEW t, t = Stopped(w)
  PROVE  Kept(t) /\ t.active[w] = 0
<1>1. CASE PeriodicActive(w)
  <2>1. t = Delete(periodics, w) /\ periodics.active[w] # 0
    BY <1>1 DEF Stopped, PeriodicActive
  <2>2. /\ HeapState(t, Periodics) /\ HeapOK(t)
        /\ Elements(t.heap) = {x \in Elements(periodics.heap) : x.w # w}
    BY <2>1, DeleteDone DEF Kept
  <2>3. t.active[w] = 0
    BY <2>2, ActiveAreWatched
  <2> QED BY <2>2, <2>3 DEF Kept
<1>2. CASE ~PeriodicActive(w)
  BY <1>2 DEF Stopped, PeriodicActive
<1> QED BY <1>1, <1>2

LEMMA UserPeriodicInv ==
  ASSUME PeriodicInv, NEW w \in Periodics,
         EvPeriodicStart(w) \/ EvPeriodicStop(w) \/ EvPeriodicAgain(w)
  PROVE  PeriodicInv'
<1> DEFINE at == NextAt(w, kind[w].offset, now.ev_rt_now)
           s == IF EvPeriodicStart(w) THEN periodics ELSE Stopped(w)
<1>1. at \in Int
  <2>1. now.ev_rt_now \in Int /\ kind[w].offset \in Int
    BY KindTypes DEF PeriodicInv, NowType
  <2> QED BY <2>1, NextAtIsAhead DEF PeriodicInv
<1>2. /\ phase = "user" /\ phase' = phase
      /\ UNCHANGED <<mono, real, now, kind, have_monotonic, timer>>
  BY DEF EvPeriodicStart, EvPeriodicStop, EvPeriodicAgain, given, clocks
<1>3. Kept(periodics')
  <2>1. CASE EvPeriodicStart(w)
    <3>1. periodics' = Insert(periodics, w, at) /\ periodics.active[w] = 0
      BY <2>1 DEF EvPeriodicStart, PeriodicActive
    <3> HIDE DEF at
    <3> QED BY <1>1, <3>1, InsertDone DEF PeriodicInv, Kept
  <2>2. CASE EvPeriodicStop(w)
    BY <2>2, StoppedDone DEF EvPeriodicStop, PeriodicInv
  <2>3. CASE EvPeriodicAgain(w)
    <3> DEFINE t == Stopped(w)
    <3>1. Kept(t) /\ t.active[w] = 0
      BY StoppedDone DEF PeriodicInv
    <3>2. periodics' = Insert(t, w, at)
      BY <2>3 DEF EvPeriodicAgain
    <3> HIDE DEF at, t
    <3> QED BY <1>1, <3>1, <3>2, InsertDone DEF Kept
  <2> QED BY <2>1, <2>2, <2>3
<1> QED BY <1>2, <1>3 DEF PeriodicInv

\* Whoever updates the time: ev_suspend, ev_resume, ev_run
LEMMA ClockPeriodicInv ==
  ASSUME PeriodicInv, EvSuspend \/ EvResume \/ LoopStarts \/ LoopUpdates
  PROVE  PeriodicInv'
<1>1. CASE EvSuspend \/ LoopStarts
  <2> DEFINE u == Update(HUGE)
  <2>1. /\ now' = u.now /\ timer' = timer + u.shift
        /\ periodics' = IF u.jump THEN Rescheduled(u.now.ev_rt_now) ELSE periodics
        /\ UNCHANGED <<clocks, given>>
        /\ phase' \in {"poll", "polled"} => pending' = {}
        /\ phase' # "reify"
    BY <1>1 DEF EvSuspend, LoopStarts, TimeUpdate
  <2>2. timer' \in Int
    <3>1. u.shift \in Int /\ timer \in Int
      BY Updated DEF PeriodicInv
    <3> HIDE DEF u
    <3> QED BY <2>1, <3>1
  <2>3. periodics' = periodics \/ \E rt \in Int : periodics' = Rescheduled(rt)
    <3>1. u = Update(HUGE)
      OBVIOUS
    <3> HIDE DEF u
    <3> QED BY <2>1, <3>1, UpdateReschedules
  <2> QED BY <2>1, <2>2, <2>3, UpdatedInv
<1>2. CASE EvResume
  <2> DEFINE u == Update(HUGE)
  <2>1. /\ now' = u.now /\ timer' = timer + u.shift + (now'.mn_now - now.mn_now)
        /\ periodics' = Rescheduled(now'.ev_rt_now)
        /\ UNCHANGED <<clocks, given>>
        /\ phase' = "user"
    BY <1>2 DEF EvResume
  <2>2. u.now \in NowType /\ u.shift \in Int
    BY Updated
  <2>3. timer' \in Int /\ \E rt \in Int : periodics' = Rescheduled(rt)
    <3>1. now'.mn_now \in Int /\ now'.ev_rt_now \in Int /\ now.mn_now \in Int /\ timer \in Int
      BY <2>1, <2>2 DEF PeriodicInv, NowType
    <3> HIDE DEF u
    <3> QED BY <2>1, <2>2, <3>1
  <2> QED BY <2>1, <2>3, UpdatedInv
<1>3. CASE LoopUpdates
  <2> DEFINE u == Update(WaitTime)
             at == timer + u.shift
  <2>1. /\ now' = u.now
        /\ timer' = IF at < u.now.mn_now THEN u.now.mn_now + MAX_BLOCKTIME ELSE at
        /\ periodics' = IF u.jump THEN Rescheduled(u.now.ev_rt_now) ELSE periodics
        /\ UNCHANGED <<clocks, given>>
        /\ phase' = "reify" /\ pending' = {}
    BY <1>3 DEF LoopUpdates, PeriodicInv
  <2>2. timer' \in Int
    <3>1. u.shift \in Int /\ u.now.mn_now \in Int /\ timer \in Int /\ MAX_BLOCKTIME \in Int
      BY Updated, PeriodicAssumption DEF PeriodicInv, NowType
    <3> HIDE DEF u
    <3> QED BY <2>1, <3>1
  <2>3. periodics' = periodics \/ \E rt \in Int : periodics' = Rescheduled(rt)
    <3>1. u = Update(WaitTime)
      OBVIOUS
    <3> HIDE DEF u
    <3> QED BY <2>1, <3>1, UpdateReschedules
  <2> QED BY <2>1, <2>2, <2>3, UpdatedInv
<1> QED BY <1>1, <1>2, <1>3

LEMMA TimerfdPeriodicInv ==
  ASSUME PeriodicInv, TimerfdCb
  PROVE  PeriodicInv'
<1>1. /\ now' = [now EXCEPT !.ev_rt_now = real] /\ periodics' = Rescheduled(real)
      /\ phase = "user" /\ phase' = phase
      /\ UNCHANGED <<mono, real, kind, have_monotonic, pending, timer>>
  BY DEF TimerfdCb, given
<1>2. real \in Int
  BY PeriodicAssumption DEF PeriodicInv
<1>3. now' \in NowType /\ now'.mn_now = now.mn_now
  BY <1>1, <1>2 DEF PeriodicInv, NowType
<1>4. Kept(periodics')
  BY <1>1, <1>2, RescheduledDone DEF PeriodicInv
<1> QED BY <1>1, <1>3, <1>4 DEF PeriodicInv

\* The first element gets another time and sinks.
LEMMA FirstRetimed ==
  ASSUME NEW W, NEW s, HeapState(s, W), HeapOK(s), 1 \in 1 .. Len(s.heap),
         NEW w, w = s.heap[1].w, NEW at \in Int, NEW t, t = DownHeap(Retimed(s, 1, at), 1)
  PROVE  /\ HeapState(t, W) /\ HeapOK(t)
         /\ \A e \in Elements(t.heap) :
              (e \in Elements(s.heap) /\ e.w # w) \/ (e.w = w /\ e.at = at)
<1> DEFINE k == 1
<1>1. k \in 1 .. Len(s.heap) /\ k = 1 /\ t = DownHeap(Retimed(s, k, at), k)
  OBVIOUS
<1> HIDE DEF k
<1>2. /\ HeapState(t, W) /\ HeapOK(t)
      /\ Elements(t.heap) = {x \in Elements(s.heap) : x.w # s.heap[k].w}
                              \cup {[w |-> s.heap[k].w, at |-> at]}
  BY SMTT(40), <1>1, RetimedDone
<1> QED BY <1>1, <1>2

\* periodics_reify: the first periodic gets a time that has not passed, or is
\* stopped; the others keep theirs.
LEMMA ReifyPeriodicInv ==
  ASSUME PeriodicInv, PeriodicsReify
  PROVE  PeriodicInv'
<1> DEFINE w == periodics.heap[1].w
           rt == now.ev_rt_now
           next == NextAt(w, 0, rt)
           old == Elements(periodics.heap)
<1>1. /\ phase = "reify" /\ phase' = phase /\ periodics.heap # <<>>
      /\ pending' = pending \cup {w}
      /\ periodics' = IF Repeats(w)
                        THEN DownHeap([periodics EXCEPT !.heap[1].at = next], 1)
                        ELSE Delete(periodics, w)
      /\ UNCHANGED <<mono, real, now, kind, have_monotonic, timer>>
  BY DEF PeriodicsReify, Overdue, Repeats, given, clocks
<1>2. HeapState(periodics, Periodics) /\ HeapOK(periodics) /\ rt \in Int
  BY DEF PeriodicInv, Kept, NowType
<1>3. /\ Len(periodics.heap) \in Nat /\ 1 \in 1 .. Len(periodics.heap) /\ w \in Periodics
      /\ Indexed(periodics)
  <2>1. periodics.heap \in Seq(Anhe(Periodics))
    BY <1>2 DEF HeapState
  <2>2. Len(periodics.heap) \in Nat /\ 1 \in 1 .. Len(periodics.heap)
    BY <1>1, <2>1
  <2>3. w \in Periodics
    BY <1>2, <2>2, ElementTypes
  <2> QED BY <1>2, <2>2, <2>3 DEF HeapOK
<1>4. next \in Int /\ (Repeats(w) => next >= rt)
  BY <1>2, <1>3, NextAtIsAhead DEF PeriodicInv
<1>5. periodics.active[w] # 0
  BY <1>3 DEF Indexed
<1> HIDE DEF next, w
<1>6. /\ HeapState(periodics', Periodics) /\ HeapOK(periodics')
      /\ \A e \in Elements(periodics'.heap) :
           (e \in old /\ e.w # w) \/ (e.w = w /\ e.at >= rt)
  <2>1. CASE Repeats(w)
    <3>1. periodics' = DownHeap(Retimed(periodics, 1, next), 1)
      BY <1>1, <2>1 DEF Retimed
    <3> DEFINE t == periodics'
    <3>2. t = DownHeap(Retimed(periodics, 1, next), 1)
      BY <3>1
    <3> HIDE DEF t
    <3>3. w = periodics.heap[1].w
      BY DEF w
    <3>4. /\ HeapState(t, Periodics) /\ HeapOK(t)
          /\ \A e \in Elements(t.heap) :
               (e \in Elements(periodics.heap) /\ e.w # w) \/ (e.w = w /\ e.at = next)
      BY <1>2, <1>3, <1>4, <3>2, <3>3, FirstRetimed
    <3> QED BY <1>4, <2>1, <3>4 DEF t
  <2>2. CASE ~Repeats(w)
    <3>1. periodics' = Delete(periodics, w)
      BY <1>1, <2>2
    <3> DEFINE t == periodics'
    <3>2. t = Delete(periodics, w)
      BY <3>1
    <3> HIDE DEF t
    <3>3. /\ HeapState(t, Periodics) /\ HeapOK(t)
          /\ Elements(t.heap) = {x \in Elements(periodics.heap) : x.w # w}
      BY <1>2, <1>3, <1>5, <3>2, DeleteDone
    <3> QED BY <3>3 DEF t
  <2> QED BY <2>1, <2>2
<1>7. NoneAgain(periodics', pending', rt)
  <2> SUFFICES ASSUME NEW i \in 1 .. Len(periodics'.heap), periodics'.heap[i].w \in pending'
               PROVE  periodics'.heap[i].at >= rt
    BY DEF NoneAgain
  <2> DEFINE e == periodics'.heap[i]
  <2>1. e \in Elements(periodics'.heap)
    BY DEF Elements
  <2>2. CASE e.w = w
    BY <1>6, <2>1, <2>2
  <2>3. CASE e.w # w
    <3>1. e \in old /\ e.w \in pending
      BY <1>1, <1>6, <2>1, <2>3
    <3>2. PICK j \in 1 .. Len(periodics.heap) : periodics.heap[j] = e
      BY <3>1 DEF Elements
    <3>3. periodics.heap[j].at >= rt
      BY <1>1, <3>1, <3>2 DEF PeriodicInv, NoneAgain
    <3> QED BY <3>2, <3>3
  <2> QED BY <2>2, <2>3
<1> QED BY <1>1, <1>6, <1>7 DEF PeriodicInv, Kept

LEMMA StepPeriodicInv == PeriodicInv /\ [PeriodicNext]_periodic_vars => PeriodicInv'
<1> SUFFICES ASSUME PeriodicInv, [PeriodicNext]_periodic_vars PROVE PeriodicInv'
  OBVIOUS
<1> QED BY EnvPeriodicInv, UserPeriodicInv, ClockPeriodicInv, TimerfdPeriodicInv,
           ReifyPeriodicInv DEF PeriodicNext

(***************************************************************************)
(* The heap of periodics is one in every reachable state, also when all    *)
(* its times have changed at once, and periodics_reify feeds a periodic    *)
(* once: for any periodics, any intervals, however small, and however      *)
(* often the clock is set.                                                 *)
(***************************************************************************)
THEOREM PeriodicsAreOnTime == PeriodicSpec => []PeriodicsKeepTime
<1>1. PeriodicInv => PeriodicsKeepTime
  <2> SUFFICES ASSUME PeriodicInv PROVE HeapOK(periodics) /\ FedOnce
    BY DEF PeriodicsKeepTime, PeriodicHeap
  <2>1. DOMAIN periodics.heap = 1 .. Len(periodics.heap)
    BY DEF PeriodicInv, Kept, HeapState
  <2> QED BY <2>1 DEF PeriodicInv, Kept, FedOnce, NoneAgain
<1> QED BY <1>1, InitPeriodicInv, StepPeriodicInv, PTL DEF PeriodicSpec

\* The time to block for is a number, and not negative.
LEMMA WaitTimeIsNat ==
  ASSUME PeriodicInv
  PROVE  WaitTime \in Nat
<1>1. /\ timer - now.mn_now \in Int /\ now.ev_rt_now \in Int
      /\ MAX_BLOCKTIME \in Int
  BY PeriodicAssumption DEF PeriodicInv, NowType
<1> DEFINE longest == IF timerfd THEN HUGE ELSE MAX_BLOCKTIME
           untilTimer == Least(longest, timer - now.mn_now)
           until == IF periodics.heap = <<>> THEN untilTimer
                    ELSE Least(untilTimer, periodics.heap[1].at - now.ev_rt_now)
<1>2. untilTimer \in Int
  BY <1>1 DEF Least, HUGE
<1>3. until \in Int
  <2> HIDE DEF untilTimer
  <2>1. CASE periodics.heap = <<>>
    BY <1>2, <2>1
  <2>2. CASE periodics.heap # <<>>
    <3>1. periodics.heap \in Seq(Anhe(Periodics))
      BY DEF PeriodicInv, Kept, HeapState
    <3>2. 1 \in 1 .. Len(periodics.heap)
      BY <2>2, <3>1
    <3>3. periodics.heap[1].at \in Int
      BY <3>2, ElementTypes DEF PeriodicInv, Kept
    <3> QED BY <1>1, <1>2, <2>2, <3>3 DEF Least
  <2> QED BY <2>1, <2>2
<1>4. WaitTime = IF until < 0 THEN 0 ELSE until
  BY DEF WaitTime
<1> HIDE DEF until
<1> QED BY <1>3, <1>4

(***************************************************************************)
(* Relative timers are not affected by the wall clock: a change of it      *)
(* costs a timer no more than a jump that cannot be told from a long poll, *)
(* and the time between ev_suspend and ev_resume does not count.           *)
(***************************************************************************)
THEOREM TimersAreUnaffected == PeriodicSpec => TimersUnaffected
<1> DEFINE Spared == phase = "polled" /\ ~have_monotonic /\ timer' # now'.mn_now + MAX_BLOCKTIME =>
                      LET lost == (timer - now.mn_now) - (timer' - now'.mn_now)
                      IN  0 <= lost /\ lost <= WaitTime + MIN_TIMEJUMP
<1>1. PeriodicInv /\ [PeriodicNext]_periodic_vars => [Spared]_periodic_vars
  <2> SUFFICES ASSUME PeriodicInv, PeriodicNext, phase = "polled", ~have_monotonic,
                      timer' # now'.mn_now + MAX_BLOCKTIME
               PROVE  LET lost == (timer - now.mn_now) - (timer' - now'.mn_now)
                      IN  0 <= lost /\ lost <= WaitTime + MIN_TIMEJUMP
    OBVIOUS
  <2>1. /\ timer \in Int /\ now.mn_now \in Int /\ real \in Int
        /\ MIN_TIMEJUMP \in Nat /\ WaitTime \in Nat
    BY PeriodicAssumption, WaitTimeIsNat DEF PeriodicInv, NowType
  <2>2. SetClock \/ LoopUpdates
    BY DEF PeriodicNext, Tick, SetClock, EvPeriodicStart, EvPeriodicStop, EvPeriodicAgain,
           Callback, EvSuspend, EvResume, TimerfdCb, LoopStarts, LoopPolls, LoopUpdates,
           PeriodicsReify, LoopReified
  <2>3. CASE SetClock
    <3>1. timer' = timer /\ now' = now
      BY <2>3 DEF SetClock
    <3> QED BY <2>1, <3>1
  <2>4. CASE LoopUpdates
    <3> DEFINE u == Update(WaitTime)
               at == timer + u.shift
    <3>1. /\ now' = u.now
          /\ timer' = IF at < u.now.mn_now THEN u.now.mn_now + MAX_BLOCKTIME ELSE at
      BY <2>4 DEF LoopUpdates
    <3>2. /\ u.now.mn_now = real
          /\ u.shift = IF ImpossibleTime(WaitTime) THEN real - now.mn_now ELSE 0
      BY Updated
    <3> HIDE DEF u
    <3>3. now'.mn_now = real /\ timer' = timer + u.shift
      BY <3>1, <3>2
    <3>4. CASE ImpossibleTime(WaitTime)
      BY <2>1, <3>2, <3>3, <3>4
    <3>5. CASE ~ImpossibleTime(WaitTime)
      <4>1. now.mn_now <= real /\ real <= now.mn_now + WaitTime + MIN_TIMEJUMP
        BY <2>1, <3>5 DEF ImpossibleTime
      <4>2. u.shift = 0
        BY <3>2, <3>5
      <4> HIDE DEF WaitTime
      <4> QED BY <2>1, <3>3, <4>1, <4>2
    <3> QED BY <3>4, <3>5
  <2> QED BY <2>2, <2>3, <2>4
<1>2. PeriodicInv /\ [PeriodicNext]_periodic_vars => [ResumeKeepsTimeLeft]_periodic_vars
  <2> SUFFICES ASSUME PeriodicInv, PeriodicNext, suspended, ~suspended',
                      have_monotonic \/ now.mn_now <= real
               PROVE  timer' - now'.mn_now = timer - now.mn_now
    BY DEF ResumeKeepsTimeLeft
  <2>1. EvResume
    BY DEF PeriodicNext, Tick, SetClock, EvPeriodicStart, EvPeriodicStop, EvPeriodicAgain,
           Callback, EvSuspend, EvResume, TimerfdCb, LoopStarts, LoopPolls, LoopUpdates,
           PeriodicsReify, LoopReified
  <2> DEFINE u == Update(HUGE)
  <2>2. now' = u.now /\ timer' = timer + u.shift + (now'.mn_now - now.mn_now)
    BY <2>1 DEF EvResume
  <2>3. /\ u.now \in NowType /\ (have_monotonic => u.shift = 0)
        /\ ~have_monotonic =>
             u.shift = IF ImpossibleTime(HUGE) THEN real - now.mn_now ELSE 0
    BY Updated
  <2> HIDE DEF u
  <2>4. timer \in Int /\ now.mn_now \in Int /\ now'.mn_now \in Int
    BY <2>2, <2>3 DEF PeriodicInv, NowType
  <2>5. u.shift = 0
    <3>1. CASE have_monotonic
      BY <2>3, <3>1
    <3>2. CASE ~have_monotonic
      <4>1. ~ImpossibleTime(HUGE)
        <5>1. /\ real \in Int /\ real <= MaxTime /\ MaxTime \in Nat /\ MaxTime < HUGE
              /\ HUGE \in Nat /\ MIN_TIMEJUMP \in Nat
              /\ now.mn_now <= real /\ now.mn_now >= 0
          BY <3>2, PeriodicAssumption DEF PeriodicInv, HUGE
        <5> QED BY <2>4, <5>1 DEF ImpossibleTime
      <4> QED BY <2>3, <3>2, <4>1
    <3> QED BY <3>1, <3>2
  <2> QED BY <2>2, <2>4, <2>5
<1> QED BY <1>1, <1>2, InitPeriodicInv, StepPeriodicInv, PTL
        DEF PeriodicSpec, TimersUnaffected, TimersDontJump, ResumeDelaysTimers

=============================================================================
